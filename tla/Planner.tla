------------------------------ MODULE Planner ------------------------------
(***************************************************************************)
(* Which model each node should serve: pins first, then replicas, then     *)
(* percentages, the bigger models choosing first, then the default model;  *)
(* a node that nothing claims keeps what it has. Memory is counted in      *)
(* small units, contexts in multiples of MinCtx.                           *)
(***************************************************************************)
EXTENDS Naturals, FiniteSets, SequencesExt

CONSTANTS
    Models, Nodes,
    IdOrder,        \* model -> the place of its id among the ids; all differ
    None,           \* no model, no policy
    Resident,       \* model -> memory of the weights that stay resident
    Sparse,         \* model -> memory of the weights that are read sparsely
    PerCtx,         \* model -> f16 KV cache for MinCtx tokens
    CtxTrain,       \* model -> trained context, in MinCtx; 0: unknown
    RAM,            \* node -> total memory
    Budget,         \* node -> the budget it reports; 0: none
    Bandwidth,      \* node -> measured bandwidth; 0: not measured
    Preference,     \* node -> how fast and big it is; all differ
    ClassRAM,       \* class -> its smallest memory
    MinTokS         \* minimum predicted speed

DefaultCtx == 4             \* DefaultCtxSize / MinCtx
Overhead == 1               \* RuntimeOverheadBytes
AndroidBaseline == 4        \* AndroidBaselineBytes

ASSUME PlannerAssumption ==
    /\ IsFiniteSet(Models) /\ IsFiniteSet(Nodes) /\ None \notin Models
    /\ \A m \in Models : IdOrder[m] \in Nat
    /\ \A m, o \in Models : IdOrder[m] = IdOrder[o] => m = o
    /\ \A m \in Models : Resident[m] \in Nat /\ Sparse[m] \in Nat /\ PerCtx[m] \in Nat /\ CtxTrain[m] \in Nat
    /\ \A n \in Nodes : RAM[n] \in Nat /\ Budget[n] \in Nat /\ Bandwidth[n] \in Nat /\ Preference[n] \in Nat
    /\ \A n, o \in Nodes : Preference[n] = Preference[o] => n = o
    /\ \A n \in Nodes : \E c \in DOMAIN ClassRAM : ClassRAM[c] <= RAM[n]
    /\ MinTokS \in Nat

\* The device class of a node, by its memory.
ClassOf == [n \in Nodes |-> CHOOSE c \in DOMAIN ClassRAM :
                               /\ ClassRAM[c] <= RAM[n]
                               /\ \A d \in DOMAIN ClassRAM : ClassRAM[d] <= RAM[n] => ClassRAM[d] <= ClassRAM[c]]

-----------------------------------------------------------------------------
(* Does a model fit? *)

CtxSize(m) == IF CtxTrain[m] > 0 /\ CtxTrain[m] < DefaultCtx THEN CtxTrain[m] ELSE DefaultCtx

\* An f16 element has 2 bytes, a q8_0 element 34/32.
NeedBytes(m, ctx, kv) ==
    Resident[m] + Sparse[m] \div 10 + (ctx * PerCtx[m] * (IF kv = "q8_0" THEN 17 ELSE 32)) \div 32 + Overhead

\* The contexts that are tried: halved down to MinCtx.
Contexts(ctx) == {ctx} \cup {c \in 1..ctx : \E k \in 1..ctx : c = Max({1, ctx \div 2^k})}

\* What the phone's agent would try in turn before it refuses a switch.
FitsBudget(m, budget) ==
    \E ctx \in Contexts(CtxSize(m)), kv \in {"f16", "q8_0"} : NeedBytes(m, ctx, kv) <= budget

EstRAM(m) == Resident[m] + CtxSize(m) * PerCtx[m] + Overhead
FitsRAM(m, ram) == ram > AndroidBaseline /\ EstRAM(m) <= ram - AndroidBaseline

\* A table, which TLC computes once.
FitsNode == [m \in Models, n \in Nodes |->
                IF Budget[n] > 0 THEN FitsBudget(m, Budget[n]) ELSE FitsRAM(m, RAM[n])]

\* A node that was not measured is never excluded.
MeetsSpeed(m, n) == MinTokS = 0 \/ Bandwidth[n] = 0 \/ Bandwidth[n] >= MinTokS * Resident[m]

-----------------------------------------------------------------------------
(* The operator's placement *)

\* A spec has at most one policy for each model, and a default model. The
\* share of a policy is a number of replicas, or a percentage.
Policies == [mode : {"pin", "replicas", "percent"}, nodes : SUBSET Nodes, share : Nat, classes : SUBSET DOMAIN ClassRAM]
PolicyModels(spec, mode) == {m \in Models : spec.policy[m] # None /\ spec.policy[m].mode = mode}

MatchesClass(p, class) == p.classes = {} \/ class \in p.classes

Validate(spec, nodes, models) ==
    /\ \A m \in Models : spec.policy[m] # None => m \in models
    /\ spec.default # None => spec.default \in models
    /\ \A m \in PolicyModels(spec, "pin") :
          /\ spec.policy[m].nodes # {} /\ spec.policy[m].nodes \subseteq nodes
          /\ \A o \in PolicyModels(spec, "pin") \ {m} : spec.policy[m].nodes \cap spec.policy[o].nodes = {}
    /\ \A m \in PolicyModels(spec, "replicas") : spec.policy[m].share >= 1
    /\ \A m \in PolicyModels(spec, "percent") : spec.policy[m].share \in 1..100
    /\ \A class \in DOMAIN ClassRAM :
          LET Claiming == {m \in PolicyModels(spec, "percent") : MatchesClass(spec.policy[m], class)}
          IN  FoldSet(LAMBDA m, sum : spec.policy[m].share + sum, 0, Claiming) <= 100

-----------------------------------------------------------------------------
(* The plan *)

\* What the planner knows of the nodes: [up, drained, current, assigned,
\* ready], the nodes that are not offline, those that are drained, the model
\* that each serves or switches to, the one that the last plan gave it, and
\* the models that can be served.

\* Assignments are collected as a set of these.
Give(n, m, reason) == [node |-> n, model |-> m, reason |-> reason]
IsGiven(n, given) == \E a \in given : a.node = n

\* A benchmark's override comes before all pins, and takes the node out of them.
IsPinned(spec, override, n, m) ==
    IF override[n] # None THEN m = override[n]
    ELSE spec.policy[m] # None /\ spec.policy[m].mode = "pin" /\ n \in spec.policy[m].nodes

Pins(spec, override, in) ==
    {Give(x[1], x[2], "pin") : x \in {y \in in.up \X in.ready : IsPinned(spec, override, y[1], y[2])}}

Eligible(p, m, in) ==
    {n \in in.up \ in.drained : MatchesClass(p, ClassOf[n]) /\ FitsNode[m, n] /\ MeetsSpeed(m, n)}

\* Rounded half up, and at least one.
PercentOf(percent, count) ==
    IF percent = 0 \/ count = 0 THEN 0 ELSE Max({1, (2 * percent * count + 100) \div 200})

\* Mutant: idle nodes first, whatever was planned.
PrefersIdle(m, in, n, o) ==
    LET rank(x) == IF in.current[x] = None THEN 0 ELSE 1
    IN  rank(n) < rank(o) \/ (rank(n) = rank(o) /\ Preference[n] > Preference[o])

\* Nodes that serve the model, then those it was planned for, then fast ones.
Prefers(m, in, n, o) ==
    LET rank(x) == IF in.current[x] = m THEN 0 ELSE IF in.assigned[x] = m THEN 1 ELSE 2
    IN  rank(n) < rank(o) \/ (rank(n) = rank(o) /\ Preference[n] > Preference[o])

\* The policy of model m takes as many of the free nodes as it wants.
Claim(spec, in, mode, given, m) ==
    LET eligible == Eligible(spec.policy[m], m, in)
        want == IF mode = "percent" THEN PercentOf(spec.policy[m].share, Cardinality(eligible))
                ELSE spec.policy[m].share
        free == {n \in eligible : ~IsGiven(n, given)}
    IN  {Give(n, m, mode) : n \in {x \in free : Cardinality({o \in free : Prefers(m, in, o, x)}) < want}}

\* The bigger model chooses first, and of two of the same size the one whose id
\* comes first; every model has its turn.
Bigger(m, o) == EstRAM(m) > EstRAM(o) \/ (EstRAM(m) = EstRAM(o) /\ IdOrder[m] < IdOrder[o])
Turn == [m \in Models |-> Cardinality({o \in Models : Bigger(o, m)}) + 1]

\* The model whose turn it is takes its nodes.
ClaimsAt(spec, in, mode, given, k) ==
    LET choosing == {m \in PolicyModels(spec, mode) \cap in.ready : Turn[m] = k}
    IN  given \cup UNION {Claim(spec, in, mode, given, m) : m \in choosing}

\* The policies of one mode, in turn.
Claims(spec, in, mode, given) ==
    LET after[k \in 0..Cardinality(Models)] ==
            IF k = 0 THEN given ELSE ClaimsAt(spec, in, mode, after[k - 1], k)
    IN  after[Cardinality(Models)]

\* The one member of a set. Once({F(x) : x \in {e}}) is F(e), with e evaluated
\* once by TLC.
Once(S) == CHOOSE x \in S : TRUE

\* A node that is offline has no assignment.
Unassigned == [model |-> None, reason |-> "none"]

\* Nodes that no policy has taken serve the default, or keep their model.
PlanOf(spec, in, given) ==
    LET Takes(n) == /\ spec.default \in in.ready /\ n \notin in.drained
                    /\ FitsNode[spec.default, n] /\ MeetsSpeed(spec.default, n)
    IN  [n \in Nodes |->
            IF n \notin in.up THEN Unassigned
            ELSE IF IsGiven(n, given)
                 THEN LET a == CHOOSE a \in given : a.node = n IN [model |-> a.model, reason |-> a.reason]
            ELSE IF Takes(n) THEN [model |-> spec.default, reason |-> "default"]
            ELSE [model |-> in.current[n], reason |-> IF in.current[n] = None THEN "none" ELSE "keep"]]

Plan(spec, override, in) ==
    LET pins == Pins(spec, override, in)
        replicas == {Claims(spec, in, "replicas", g) : g \in {pins}}
        percent == {Claims(spec, in, "percent", g) : g \in replicas}
    IN  Once({PlanOf(spec, in, g) : g \in percent})
=============================================================================
