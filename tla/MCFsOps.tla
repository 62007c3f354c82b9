------------------------------ MODULE MCFsOps -------------------------------
(* Instances of FsOps for TLC. *)
EXTENDS FsOps, TLC

CONSTANTS f1, f2, o1, o2, o3

Files2 == {f1, f2}
Ops3 == {o1, o2, o3}

Symmetry == Permutations(Files2) \cup Permutations(Ops3)
=============================================================================
