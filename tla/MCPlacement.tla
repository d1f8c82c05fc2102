---------------------------- MODULE MCPlacement ----------------------------
(* Instances of Placement for TLC: a small model and a big one, which fits    *)
(* node 1 and, with a smaller context, the budget of node 2.                 *)
EXTENDS Placement

CONSTANTS small, big

MCIdOrder == [m \in Models |-> IF m = big THEN 1 ELSE 2]
MCResident == [m \in Models |-> IF m = big THEN 4 ELSE 2]
MCSparse == [m \in Models |-> IF m = big THEN 10 ELSE 0]
MCPerCtx == [m \in Models |-> 1]
MCCtxTrain == [m \in Models |-> IF m = big THEN 0 ELSE 2]
MCRAM == <<14, 10, 10>>
MCBudget == <<0, 8, 8>>
MCBandwidth == <<0, 8, 8>>
MCPreference == <<1, 2, 3>>
MCClassRAM == [c \in {"m", "l"} |-> IF c = "l" THEN 14 ELSE 10]

Policy(mode, nodes, share, classes) == [mode |-> mode, nodes |-> nodes, share |-> share, classes |-> classes]
SpecOf(ofSmall, ofBig, default) ==
    [policy |-> [m \in Models |-> IF m = big THEN ofBig ELSE ofSmall], default |-> default]

\* One replica of each; a share and a pin with a default; too large a share.
MCSpecs ==
    {SpecOf(Policy("replicas", {}, 1, {}), Policy("replicas", {}, 1, {}), None),
     SpecOf(Policy("pin", {1}, 0, {}), Policy("percent", {}, 50, {}), small),
     SpecOf(Policy("percent", {}, 60, {}), Policy("percent", {}, 60, {"l"}), None)}

\* The default model has a share of its own, and the other model wants a node
\* that the first one may take.
MCDefaultSpecs == {SpecOf(Policy("percent", {}, 100, {"m"}), Policy("replicas", {}, 1, {}), big)}
=============================================================================
