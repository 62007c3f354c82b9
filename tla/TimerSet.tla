------------------------------ MODULE TimerSet ------------------------------
(***************************************************************************)
(* What the heap of pandio's timers promises timers.c: a set of timers     *)
(* with their deadlines, and at its top, whenever it is not empty, one     *)
(* with the earliest deadline.                                             *)
(***************************************************************************)
EXTENDS Integers

CONSTANTS Timer, Deadline, Null

VARIABLES armed, deadline, top

setVars == <<armed, deadline, top>>

Earliest(t) == t \in armed /\ \A u \in armed : deadline[t] <= deadline[u]

TopOK == IF armed = {} THEN top = Null ELSE Earliest(top)

Init == armed = {} /\ deadline \in [Timer -> Deadline] /\ top = Null

Arm(t, d) ==
  /\ t \notin armed
  /\ armed' = armed \cup {t}
  /\ deadline' = [deadline EXCEPT ![t] = d]
  /\ TopOK'

Disarm(t) ==
  /\ t \in armed
  /\ armed' = armed \ {t}
  /\ UNCHANGED deadline
  /\ TopOK'

Next == \E t \in Timer : Disarm(t) \/ \E d \in Deadline : Arm(t, d)

Spec == Init /\ [][Next]_setVars
=============================================================================
