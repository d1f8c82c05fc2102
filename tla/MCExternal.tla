----------------------------- MODULE MCExternal -----------------------------
(* Instances of External for TLC: the second configuration has the server of *)
(* the first one, the third another.                                         *)
EXTENDS External

MCUrl == [id \in 1..MaxIds |-> IF id = 3 THEN "u2" ELSE "u1"]
MCAllow == [id \in 1..MaxIds |-> Models]
=============================================================================
