---------------------------- MODULE MCNetSocket ----------------------------
(* Instances of NetSocket for TLC. *)
EXTENDS NetSocket, TLC

CONSTANTS s1, s2, o1

Sockets == {s1, s2}
Ops == {o1}
Sizes == o1 :> 1
=============================================================================
