---------------------------- MODULE MCThreadPool ----------------------------
(* Instances of ThreadPool for TLC. *)
EXTENDS ThreadPool, TLC

CONSTANTS w1, w2, w3, t1, t2, t3

Workers2 == {w1, w2}
Workers3 == {w1, w2, w3}
Tasks2 == {t1, t2}
Tasks3 == {t1, t2, t3}

Symmetry == Permutations(Workers3) \cup Permutations(Tasks3)
=============================================================================
