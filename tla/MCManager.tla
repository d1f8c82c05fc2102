----------------------------- MODULE MCManager -----------------------------
(* Instances of Manager for TLC. *)
EXTENDS Manager

Serve(m) == [rpc |-> FALSE, model |-> m, version |-> "v1"]
Lend(m) == [rpc |-> TRUE, model |-> m, version |-> "v1"]

\* A model, and two Big Brain pools.
SomeWishes == {Serve("b"), Lend("a"), Lend("b")}

\* A phone with another model, one with the wanted model, one with none.
SomeConfigs ==
    {[static |-> "a", rpc |-> TRUE], [static |-> "b", rpc |-> FALSE],
     [static |-> Nothing, rpc |-> TRUE]}
=============================================================================
