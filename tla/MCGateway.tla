----------------------------- MODULE MCGateway -----------------------------
(* Instances of Gateway for TLC. *)
EXTENDS Gateway, TLC

\* Any node, no context or tools in play.
Auto == [nodes |-> Nodes, single |-> FALSE, est |-> 0, tools |-> FALSE]
AutoInputs == {Auto}

\* A node target, a pool and "auto", with a prompt that fits every context,
\* one that fits the large and the unknown one, one that fits none that is
\* known, and tools.
Input(nodes, est, tools) == [nodes |-> nodes, single |-> Cardinality(nodes) = 1, est |-> est, tools |-> tools]
MixedInputs ==
    {Input(Nodes, 1, FALSE), Input(Nodes, 2, TRUE), Input({"a", "c"}, 3, FALSE),
     Input({"a"}, 1, FALSE), Input({"a"}, 2, FALSE)}

\* "a" reports a small context, "b" a large one, "c" none.
MixedContexts == [n \in Nodes |-> CASE n = "a" -> 1 [] n = "b" -> 2 [] OTHER -> 0]
UnknownContexts == [n \in Nodes |-> 0]

Uncapped == [n \in Nodes |-> 0]
\* Nodes and requests are interchangeable where all contexts and caps agree.
Symmetry == Permutations(Nodes) \cup Permutations(Requests)
OneAtATime == [n \in Nodes |-> 1]
=============================================================================
