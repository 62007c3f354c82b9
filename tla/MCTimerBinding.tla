--------------------------- MODULE MCTimerBinding ---------------------------
(* Instances of TimerBinding for TLC. *)
EXTENDS TimerBinding, TLC

(* The delay of setTimeout(f), and an ordinary one. A negative one is left out:
   the loop then sleeps IntMax, see the README. *)
Delays == {0, 2}
=============================================================================
