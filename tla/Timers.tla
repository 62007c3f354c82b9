------------------------------- MODULE Timers -------------------------------
(***************************************************************************)
(* The timers of pandio (deps/pandio/src/timers.c) and the event loop that *)
(* runs them (pd_io_run of sys/event_epoll.c).                             *)
(*                                                                         *)
(* Time is relative: due[t] is timer->timeout - ctx->now, and lag is what  *)
(* pd_now() would return less ctx->now, the time the loop has not noticed  *)
(* yet.  The heap is the ordered set of TimerSet: pd_timers_run and        *)
(* pd_timers_next see some timer with the earliest deadline.               *)
(***************************************************************************)
EXTENDS Integers, FiniteSets

CONSTANTS
  Timer,
  Null,
  Delay,        \* the delays the program asks for
  Careful,      \* the program obeys the rules in Start, Repeat and Stop
  Width,        \* of an uint64_t: 2^64
  IntMax,       \* INT_MAX
  MaxHandles,   \* bound on the other handles that hold a ref
  MaxLag,       \* bound on the time callbacks take before the next epoll_wait
  MaxSlept,     \* bound on the time one epoll_wait takes
  MaxIntr       \* bound on the signals that interrupt one wait

ASSUME TimersAssumption == IsFiniteSet(Timer) /\ Null \notin Timer
ASSUME DelayAssumption == Delay \subseteq Int
ASSUME CarefulAssumption == Careful \in BOOLEAN
ASSUME WidthAssumption == Width \in Nat /\ IntMax \in Nat /\ 0 < IntMax /\ IntMax < Width
ASSUME BoundAssumption ==
  MaxHandles \in Nat /\ MaxLag \in Nat /\ MaxSlept \in Nat /\ MaxIntr \in Nat

VARIABLES
  active, due, interval,   \* per timer
  refs,                    \* ctx->refs
  handles,                 \* the other handles counted in refs
  lag,
  pc, cur,                 \* where the program is, and the timer whose callback runs
  sleep,                   \* timeout of pd_io_run: -1 is for ever
  slept,                   \* how long the present epoll_wait has lasted
  intr,                    \* signals since ctx->now was last set
  owed                     \* history: what the program asked of each timer and has not had

timerVars == <<active, due, interval, owed>>
loopVars  == <<sleep, slept, intr>>
vars == <<timerVars, refs, handles, lag, pc, cur, loopVars>>

-----------------------------------------------------------------------------
(* Code of the program: before the loop, a handler of epoll, a timer callback,
   or a close callback or after_tick at the end of an iteration. *)
UserPc == {"script", "io", "timercb", "after"}

Armed == {t \in Timer : active[t]}

Earliest(t) == t \in Armed /\ \A u \in Armed : due[t] <= due[u]

Init ==
  /\ active = [t \in Timer |-> FALSE] /\ due = [t \in Timer |-> 0]
  /\ interval = [t \in Timer |-> 0]   /\ owed = [t \in Timer |-> "no"]
  /\ refs = 0 /\ handles = 0 /\ lag = 0
  /\ pc = "script" /\ cur = Null
  /\ sleep = -1 /\ slept = 0 /\ intr = 0

(* pd_timer_start on a timer that is not active: the deadline counts from
   ctx->now, whatever the lag is. *)
Activate(t, d) ==
  /\ active' = [active EXCEPT ![t] = TRUE]
  /\ due' = [due EXCEPT ![t] = d]
  /\ refs' = refs + 1

MutantDeactivate(t) ==
  /\ active' = [active EXCEPT ![t] = FALSE]
  /\ due' = [due EXCEPT ![t] = 0]
  /\ interval' = [interval EXCEPT ![t] = 0]
  /\ refs' = refs - 1

(* pd_timer_stop on an active timer; nothing reads its deadline any more. *)
Deactivate(t) ==
  /\ active' = [active EXCEPT ![t] = FALSE]
  /\ due' = [due EXCEPT ![t] = 0]
  /\ refs' = refs - 1
  /\ UNCHANGED interval

-----------------------------------------------------------------------------
(* Calls of the program.  A careful one does not start as one-shot a timer
   that has been a repeating one, which keeps its interval, does not ask for an
   interval of 0, which is that of a one-shot timer, ... *)
Start(t, d) ==
  /\ pc \in UserPc
  /\ Careful => interval[t] = 0
  /\ ~active[t]                     \* otherwise pd_timer_start returns at once
  /\ Activate(t, d)
  /\ owed' = [owed EXCEPT ![t] = "once"]
  /\ UNCHANGED <<interval, handles, lag, pc, cur, loopVars>>

Repeat(t, d) ==
  /\ pc \in UserPc
  /\ Careful => d # 0
  /\ interval' = [interval EXCEPT ![t] = d]
  /\ owed' = [owed EXCEPT ![t] = "repeat"]
  /\ IF active[t] THEN UNCHANGED <<active, due, refs>> ELSE Activate(t, d)
  /\ UNCHANGED <<handles, lag, pc, cur, loopVars>>

(* ... and does not stop a repeating timer in that timer's own callback, where
   it is not active and pd_timer_stop returns at once. *)
OwnRepeat(t) == pc = "timercb" /\ cur = t /\ interval[t] # 0

Stop(t) ==
  /\ pc \in UserPc
  /\ Careful => ~OwnRepeat(t)
  /\ owed' = [owed EXCEPT ![t] = "no"]
  /\ IF active[t] THEN Deactivate(t) ELSE UNCHANGED <<active, due, interval, refs>>
  /\ UNCHANGED <<handles, lag, pc, cur, loopVars>>

OpenHandle ==
  /\ pc \in UserPc /\ handles < MaxHandles
  /\ handles' = handles + 1 /\ refs' = refs + 1
  /\ UNCHANGED <<timerVars, lag, pc, cur, loopVars>>

CloseHandle ==
  /\ pc \in UserPc /\ handles > 0
  /\ handles' = handles - 1 /\ refs' = refs - 1
  /\ UNCHANGED <<timerVars, lag, pc, cur, loopVars>>

-----------------------------------------------------------------------------
(* pd_io_run *)

MutantClamp(d) == LET wrapped == d % Width IN IF wrapped > IntMax THEN wrapped - Width ELSE wrapped

(* The int pd_timers_next makes of an unsigned 64-bit difference. *)
Clamp(d) == LET wrapped == d % Width IN IF wrapped >= IntMax THEN IntMax ELSE wrapped

TimersNext ==
  \/ Armed = {} /\ sleep' = -1
  \/ \E t \in Timer : Earliest(t) /\ sleep' = Clamp(due[t])

(* pd_timers_next before the loop: ctx->now is still that of pd_io_init, or
   of the last iteration of an earlier call. *)
RunLoop ==
  /\ pc = "script" /\ pc' = "loop"
  /\ TimersNext
  /\ UNCHANGED <<timerVars, refs, handles, lag, cur, slept, intr>>

LoopTest ==
  /\ pc = "loop" /\ pc' = IF refs > 0 THEN "poll" ELSE "script"
  /\ slept' = 0
  /\ UNCHANGED <<timerVars, refs, handles, lag, cur, sleep, intr>>

MutantWake(next) ==
  /\ pc = "poll" /\ pc' = next
  /\ lag' = 0 /\ slept' = 0 /\ intr' = 0
  /\ UNCHANGED <<timerVars, refs, handles, cur, sleep>>

(* epoll_wait returns and ctx->now = pd_now(). *)
Wake(next) ==
  /\ pc = "poll" /\ pc' = next
  /\ due' = [t \in Timer |-> IF active[t] THEN due[t] - lag ELSE 0]
  /\ lag' = 0 /\ slept' = 0 /\ intr' = 0
  /\ UNCHANGED <<active, interval, owed, refs, handles, cur, sleep>>

(* A negative timeout is for ever. *)
WakeTimeout == sleep >= 0 /\ slept >= sleep /\ Wake("run")

WakeEvent == handles > 0 /\ Wake("io")

(* EINTR: the wait starts again, with the whole timeout and the old ctx->now. *)
WakeSignal ==
  /\ pc = "poll" /\ intr < MaxIntr
  /\ pc' = "loop" /\ intr' = intr + 1
  /\ UNCHANGED <<timerVars, refs, handles, lag, cur, sleep, slept>>

IoReturn ==
  /\ pc = "io" /\ pc' = "run"
  /\ UNCHANGED <<timerVars, refs, handles, lag, cur, loopVars>>

MutantFire(t) ==
  /\ pc = "run" /\ Earliest(t)
  /\ Deactivate(t)
  /\ owed' = [owed EXCEPT ![t] = IF @ = "once" THEN "no" ELSE @]
  /\ pc' = "timercb" /\ cur' = t
  /\ UNCHANGED <<handles, lag, loopVars>>

(* pd_timers_run: the loop takes a timer that is due, stops it and calls it. *)
Fire(t) ==
  /\ pc = "run" /\ Earliest(t) /\ due[t] <= 0
  /\ Deactivate(t)
  /\ owed' = [owed EXCEPT ![t] = IF @ = "once" THEN "no" ELSE @]
  /\ pc' = "timercb" /\ cur' = t
  /\ UNCHANGED <<handles, lag, loopVars>>

MutantTimerReturn ==
  /\ pc = "timercb" /\ pc' = "run" /\ cur' = Null
  /\ IF interval[cur] # 0 THEN Activate(cur, interval[cur]) ELSE UNCHANGED <<active, due, refs>>
  /\ UNCHANGED <<interval, owed, handles, lag, loopVars>>

MutantTimerRestart ==
  /\ pc = "timercb" /\ pc' = "run" /\ cur' = Null
  /\ IF ~active[cur] THEN Activate(cur, interval[cur]) ELSE UNCHANGED <<active, due, refs>>
  /\ UNCHANGED <<interval, owed, handles, lag, loopVars>>

(* The callback returned; a timer with an interval is started again, unless
   the callback has done so. *)
TimerReturn ==
  /\ pc = "timercb" /\ pc' = "run" /\ cur' = Null
  /\ IF interval[cur] # 0 /\ ~active[cur]
     THEN Activate(cur, interval[cur]) ELSE UNCHANGED <<active, due, refs>>
  /\ UNCHANGED <<interval, owed, handles, lag, loopVars>>

TimersEnd ==
  /\ pc = "run" /\ \A t \in Armed : due[t] > 0
  /\ pc' = "after"
  /\ UNCHANGED <<timerVars, refs, handles, lag, cur, loopVars>>

MutantAfterReturn ==
  /\ pc = "after" /\ pc' = "loop"
  /\ UNCHANGED <<timerVars, refs, handles, lag, cur, loopVars>>

AfterReturn ==
  /\ pc = "after" /\ pc' = "loop"
  /\ TimersNext
  /\ UNCHANGED <<timerVars, refs, handles, lag, cur, slept, intr>>

(* A millisecond passes, in a callback or in epoll_wait. *)
Tick ==
  /\ \/ pc \in UserPc /\ lag < MaxLag /\ UNCHANGED slept
     \/ pc = "poll" /\ slept < MaxSlept /\ slept' = slept + 1
  /\ lag' = lag + 1
  /\ UNCHANGED <<timerVars, refs, handles, pc, cur, sleep, intr>>

-----------------------------------------------------------------------------
UserCall ==
  \/ \E t \in Timer : Stop(t) \/ \E d \in Delay : Start(t, d) \/ Repeat(t, d)
  \/ OpenHandle \/ CloseHandle

LoopStep ==
  \/ LoopTest \/ WakeTimeout \/ IoReturn \/ (\E t \in Timer : Fire(t))
  \/ TimerReturn \/ TimersEnd \/ AfterReturn

Next == UserCall \/ RunLoop \/ LoopStep \/ WakeEvent \/ WakeSignal \/ Tick

Spec == Init /\ [][Next]_vars

(* Callbacks return, the program enters its loop, the loop goes on, and time
   passes; nothing makes an event or a signal arrive. *)
LiveSpec == Spec /\ WF_vars(RunLoop) /\ WF_vars(LoopStep) /\ SF_vars(Tick)

-----------------------------------------------------------------------------
(* Types; the deadline of a timer outside the heap is normalised. *)
Shape ==
  /\ active \in [Timer -> BOOLEAN] /\ due \in [Timer -> Int]
  /\ interval \in [Timer -> Int] /\ owed \in [Timer -> {"no", "once", "repeat"}]
  /\ handles \in 0..MaxHandles
  /\ lag \in Nat /\ sleep \in -1..IntMax /\ slept \in 0..MaxSlept /\ intr \in 0..MaxIntr
  /\ pc \in UserPc \cup {"loop", "poll", "run"} /\ cur \in Timer \cup {Null}
  /\ cur # Null <=> pc = "timercb"
  /\ \A t \in Timer : ~active[t] => due[t] = 0

TypeOK == Shape /\ refs \in Nat

(* ctx->refs is what it counts, through the stop, the callback and the restart
   of pd_timers_run: the loop ends exactly when nothing can happen any more. *)
TimerRefs == refs = handles + Cardinality(Armed)

(* A wait that nothing ends earlier ends sleep - slept from now, and the
   deadline of t is due[t] - lag from now.  It is late for a timer by no more
   than what ctx->now was late by when it began: the time callbacks took since
   the clock was last read, MaxLag at most, and the waits that a signal
   interrupted meanwhile, MaxSlept each.  No wait is too long for any other
   reason: not for a timer started or stopped since timers last ran, nor by the
   narrowing of the difference to an int. *)
SleepBound ==
  pc = "poll" =>
    \A t \in Armed :
      /\ sleep >= 0
      /\ sleep - slept <= (due[t] - lag) + MaxLag + intr * MaxSlept

(* A timer that was stopped, or was one-shot and fired, stays out of the heap
   until it is started again. *)
StaysStopped == \A t \in Timer : owed[t] = "no" => ~active[t]

(* A repeating timer that nobody stopped is in the heap, except while its own
   callback runs. *)
IntervalKeeps == \A t \in Timer : owed[t] = "repeat" => active[t] \/ cur = t

(* A callback of a timer starts a timer that is due at once. *)
DueAtOnce == pc = "timercb" /\ \E t \in Timer : ~active[t] /\ active'[t] /\ due'[t] <= 0

(* pd_timers_run comes to an end, so that events and closed streams have their
   turn, though callbacks start timers while it runs.  It does only if they
   start just finitely many with a delay of 0: ctx->now stands still while they
   run, and setTimeout(f) asks for 0 unless told otherwise. *)
LoopTurns == []<><<DueAtOnce>>_vars \/ (pc = "run" ~> pc = "loop")

(* A timer in the heap leaves it, its callback runs unless it is stopped, as
   long as each pd_timers_run ends. *)
Fires == (pc = "run" ~> pc = "loop") => \A t \in Timer : active[t] ~> ~active[t]
=============================================================================
