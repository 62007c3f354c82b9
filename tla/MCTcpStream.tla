---------------------------- MODULE MCTcpStream ----------------------------
(* Instances of TcpStream for TLC. *)
EXTENDS TcpStream, TLC

CONSTANTS s1, s2, o1, o2

Streams2 == {s1, s2}
Ops2 == {o1, o2}
Sizes == o1 :> 2 @@ o2 :> 2

Symmetry == Permutations(Streams2) \cup Permutations(Ops2)
=============================================================================
