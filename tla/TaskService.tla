---------------------------- MODULE TaskService -----------------------------
(***************************************************************************)
(* What pandio's thread pool promises the thread of the event loop,        *)
(* without threads, locks or wake-ups: every accepted task is worked on    *)
(* once and then has its done callback called once, callbacks run one at a *)
(* time and only inside the loop, tasks are begun in the order of their    *)
(* submission and delivered in the order they finished, and the loop does  *)
(* not return while a task is unfinished.                                  *)
(***************************************************************************)
EXTENDS Sequences

CONSTANTS Task, None

VARIABLES
  queue,      \* accepted, not begun
  working,    \* begun
  finished,   \* worked on, not delivered
  calling,    \* the task whose done callback runs, or None
  looping     \* pd_io_run is on the stack

serviceVars == <<queue, working, finished, calling, looping>>

ElemsOf(s) == {s[i] : i \in DOMAIN s}

Init ==
  /\ queue = <<>> /\ working = {} /\ finished = <<>>
  /\ calling = None /\ looping = FALSE

Submit(t) ==
  /\ t \notin ElemsOf(queue) \cup working \cup ElemsOf(finished)
  /\ queue' = Append(queue, t)
  /\ UNCHANGED <<working, finished, calling, looping>>

Begin ==
  /\ queue # <<>>
  /\ Head(queue) \notin working
  /\ queue' = Tail(queue)
  /\ working' = working \cup {Head(queue)}
  /\ UNCHANGED <<finished, calling, looping>>

Finish(t) ==
  /\ t \in working
  /\ working' = working \ {t}
  /\ finished' = Append(finished, t)
  /\ UNCHANGED <<queue, calling, looping>>

Deliver ==
  /\ looping /\ calling = None /\ finished # <<>>
  /\ calling' = Head(finished)
  /\ finished' = Tail(finished)
  /\ UNCHANGED <<queue, working, looping>>

Return ==
  /\ calling # None
  /\ calling' = None
  /\ UNCHANGED <<queue, working, finished, looping>>

Enter ==
  /\ ~looping /\ looping' = TRUE
  /\ UNCHANGED <<queue, working, finished, calling>>

Leave ==
  /\ looping /\ looping' = FALSE
  /\ queue = <<>> /\ working = {} /\ finished = <<>> /\ calling = None
  /\ UNCHANGED <<queue, working, finished, calling>>

Next ==
  \/ \E t \in Task : Submit(t) \/ Finish(t)
  \/ Begin \/ Deliver \/ Return \/ Enter \/ Leave

Spec == Init /\ [][Next]_serviceVars
=============================================================================
