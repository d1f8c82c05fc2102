----------------------------- MODULE MCBigBrain -----------------------------
(* Instances of BigBrain for TLC. Phone b has an alias, so the pools that    *)
(* name b and its alias want the same phone.                                 *)
EXTENDS BigBrain

CONSTANTS a, b, c, alias, m

MCNames == {a, b, c, alias}
MCNodeOf == [x \in MCNames |-> IF x = alias THEN b ELSE x]
MCRequests == {[model |-> m, names |-> {a, b}], [model |-> m, names |-> {alias, c}],
               [model |-> m, names |-> {a}]}
=============================================================================
