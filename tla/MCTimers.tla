------------------------------ MODULE MCTimers ------------------------------
(* Instances of Timers for TLC. *)
EXTENDS Timers, TLC

CONSTANTS t1, t2

Timers2 == {t1, t2}
=============================================================================
