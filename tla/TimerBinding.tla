---------------------------- MODULE TimerBinding ----------------------------
(***************************************************************************)
(* setTimeout, setInterval and clearTimeout of the program: js/bootstrap.js*)
(* makes a Timer object for each call, and core/timer.cc keeps these in    *)
(* active_timers and starts, stops and deletes them over the timers of     *)
(* pandio and its event loop, which are those of Timers.                   *)
(*                                                                         *)
(* A timer is its id. What is read of a deleted one is what it held when   *)
(* it was deleted: the allocator has not given the memory away yet.        *)
(***************************************************************************)
EXTENDS Integers, FiniteSets

CONSTANTS MaxTimers, Delay, Careful, Width, IntMax, MaxHandles, MaxLag, MaxSlept, MaxIntr

ASSUME MaxTimersAssumption == MaxTimers \in Nat
ASSUME DelayAssumption == Delay \subseteq Int
ASSUME WidthAssumption == Width \in Nat /\ IntMax \in Nat /\ 0 < IntMax /\ IntMax < Width
ASSUME BoundAssumption ==
  MaxHandles \in Nat /\ MaxLag \in Nat /\ MaxSlept \in Nat /\ MaxIntr \in Nat

Timer == 1 .. MaxTimers
Null == 0

VARIABLES
  active, due, interval, refs, handles, lag, pc, cur, sleep, slept, intr, owed,  \* see Timers
  counter,         \* the id of the next Timer
  active_timers,   \* ids of the timers that clear() finds
  onInterval,      \* ids of those whose on_timeout is Timer::onInterval
  deletes,         \* per id: how often its Timer was deleted
  cleared,         \* history: the ids the program cleared
  ended            \* an exception has left a callback and unwound the loop

T == INSTANCE Timers WITH Careful <- FALSE

timersVars == <<active, due, interval, refs, handles, lag, pc, cur, sleep, slept, intr, owed>>
bindingVars == <<counter, active_timers, onInterval, deletes, cleared, ended>>
vars == <<timersVars, bindingVars>>

Init ==
  /\ T!Init
  /\ counter = 1 /\ active_timers = {} /\ onInterval = {}
  /\ deletes = [t \in Timer |-> 0] /\ cleared = {} /\ ended = FALSE

(* new Timer(): a fresh id, entered into active_timers. *)
Constructed ==
  /\ counter \in Timer
  /\ counter' = counter + 1 /\ active_timers' = active_timers \cup {counter}

setTimeout(d) ==
  /\ Constructed /\ T!Start(counter, d)
  /\ UNCHANGED <<onInterval, deletes, cleared, ended>>

(* pandio takes an interval of 0 for a timer that does not repeat: a careful
   program gives a delay to setInterval. *)
setInterval(d) ==
  /\ Careful => d # 0
  /\ Constructed /\ T!Repeat(counter, d)
  /\ onInterval' = onInterval \cup {counter}
  /\ UNCHANGED <<deletes, cleared, ended>>

Deleted(t) ==
  /\ active_timers' = active_timers \ {t}
  /\ deletes' = [deletes EXCEPT ![t] = @ + 1]

(* Mutant: clear() forgets to stop the timer. *)
Mutantclear(t) ==
  /\ t \in active_timers /\ pc \in T!UserPc
  /\ Careful => ~(pc = "timercb" /\ cur = t)
  /\ Deleted(t) /\ cleared' = cleared \cup {t}
  /\ UNCHANGED <<timersVars, counter, onInterval, ended>>

(* Timer::clear; an id that is not in active_timers changes nothing. A careful
   program does not clear a timer in that timer's own callback. *)
clear(t) ==
  /\ t \in active_timers
  /\ Careful => ~(pc = "timercb" /\ cur = t)
  /\ T!Stop(t)
  /\ Deleted(t) /\ cleared' = cleared \cup {t}
  /\ UNCHANGED <<counter, onInterval, ended>>

(* Mutant: a timer that has fired stays in the table. *)
MutantTimerReturn ==
  /\ T!TimerReturn
  /\ UNCHANGED bindingVars

(* The callback is over: onTimeout erases and deletes its Timer, whatever the
   callback did, and pd_timers_run looks at the interval of either. *)
TimerReturn ==
  /\ T!TimerReturn
  /\ IF cur \in onInterval THEN UNCHANGED <<active_timers, deletes>> ELSE Deleted(cur)
  /\ UNCHANGED <<counter, onInterval, cleared, ended>>

(* makeCallback throws for an exception of the callback: pd_timers_run and
   pd_io_run are unwound, the Timer stays as it is. *)
Throws ==
  /\ pc = "timercb" /\ ended' = TRUE
  /\ UNCHANGED <<timersVars, counter, active_timers, onInterval, deletes, cleared>>

Script ==
  \/ \E d \in Delay : setTimeout(d) \/ setInterval(d)
  \/ \E t \in Timer : clear(t)

Loop ==
  /\ \/ T!OpenHandle \/ T!CloseHandle \/ T!RunLoop \/ T!LoopTest
     \/ T!WakeTimeout \/ T!WakeEvent \/ T!WakeSignal \/ T!IoReturn
     \/ (\E t \in Timer : T!Fire(t)) \/ T!TimersEnd \/ T!AfterReturn \/ T!Tick
  /\ UNCHANGED bindingVars

Next ==
  \/ ~ended /\ (Script \/ Loop \/ TimerReturn \/ Throws)
  \/ ended /\ UNCHANGED vars

Spec == Init /\ [][Next]_vars

-----------------------------------------------------------------------------
Made == 1 .. counter - 1

TypeOK ==
  /\ counter \in 1 .. MaxTimers + 1 /\ active_timers \subseteq Made
  /\ onInterval \subseteq Made /\ cleared \subseteq Made
  /\ deletes \in [Timer -> Nat] /\ ended \in BOOLEAN

(* The table holds exactly the timers that can still fire, each of which is a
   live object: no timer in the heap or in its callback has been deleted, none
   is deleted twice, and none is left over that would never be. *)
TimerObjects ==
  /\ TypeOK
  /\ \A t \in Made :
       /\ deletes[t] = IF t \in active_timers THEN 0 ELSE 1
       /\ t \in active_timers <=> active[t] \/ cur = t

(* No Timer is deleted twice, or is in the heap after it was deleted. *)
DeletedOnce == \A t \in Timer : deletes[t] <= 1 /\ (active[t] => deletes[t] = 0)

(* The callback of a timer does not run after clearTimeout or clearInterval,
   also when the timer was due in the same pass of pd_timers_run. *)
ClearedSilent == pc = "timercb" => cur \notin cleared
=============================================================================
