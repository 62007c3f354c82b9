---------------------------- MODULE TimersProofs ----------------------------
(***************************************************************************)
(* Theorems of Timers, for any finite set of timers and any bounds: the    *)
(* first invariant, TypeOK and TimerRefs together, holds of any program;   *)
(* the others rest on it and on what their ASSUME says of the program.     *)
(***************************************************************************)
EXTENDS Timers, FiniteSetTheorems, TLAPS

-----------------------------------------------------------------------------
(* Operators. *)

(* pd_timers_next returns an int, and for a deadline that has not passed never
   more than the time that is left. *)
LEMMA ClampRange ==
  ASSUME NEW d \in Int
  PROVE  /\ Clamp(d) \in 0..IntMax
         /\ d \in Nat => Clamp(d) <= d
PROOF
<1> USE WidthAssumption
<1> DEFINE w == d % Width
<1>1. w \in 0..Width - 1
  OBVIOUS
<1>2. ASSUME d \in Nat PROVE w <= d
  <2>1. CASE d < Width
    BY <2>1, <1>2
  <2>2. CASE d >= Width
    BY <2>2, <1>1
  <2> QED BY <2>1, <2>2
<1> QED BY <1>1, <1>2 DEF Clamp

(* The set of armed timers is finite, and its cardinality follows one flag. *)
LEMMA ArmedFinite == IsFiniteSet(Armed) /\ Cardinality(Armed) \in Nat
PROOF
<1>1. IsFiniteSet(Armed)
  BY FS_Subset, TimersAssumption DEF Armed
<1> QED BY <1>1, FS_CardinalityType

LEMMA ArmedGrows ==
  ASSUME NEW t \in Timer, active \in [Timer -> BOOLEAN], ~active[t],
         active' = [active EXCEPT ![t] = TRUE]
  PROVE  Cardinality(Armed') = Cardinality(Armed) + 1
PROOF
<1>1. Armed' = Armed \cup {t} /\ t \notin Armed
  BY DEF Armed
<1> QED BY <1>1, ArmedFinite, FS_AddElement

LEMMA ArmedShrinks ==
  ASSUME NEW t \in Timer, active \in [Timer -> BOOLEAN], active[t],
         active' = [active EXCEPT ![t] = FALSE]
  PROVE  Cardinality(Armed') = Cardinality(Armed) - 1
PROOF
<1>1. Armed' = Armed \ {t} /\ t \in Armed
  BY DEF Armed
<1> QED BY <1>1, ArmedFinite, FS_RemoveElement

(* pd_timers_next leaves a possible argument of epoll_wait. *)
LEMMA TimersNextType ==
  ASSUME due \in [Timer -> Int], TimersNext
  PROVE  sleep' \in -1..IntMax
PROOF
<1>1. CASE sleep' = -1
  BY <1>1, WidthAssumption
<1>2. ASSUME NEW t \in Timer, sleep' = Clamp(due[t])
      PROVE  sleep' \in -1..IntMax
  BY <1>2, ClampRange, WidthAssumption
<1> QED BY <1>1, <1>2 DEF TimersNext

-----------------------------------------------------------------------------
(* Types and the count of references, of any program. *)

Counted == Shape /\ TimerRefs

LEMMA CountedInit == Init => Counted
PROOF
<1> SUFFICES ASSUME Init PROVE Counted
  OBVIOUS
<1>1. Armed = {}
  BY DEF Init, Armed
<1>2. TimerRefs
  BY <1>1, FS_EmptySet DEF Init, TimerRefs
<1> QED BY <1>2, BoundAssumption, WidthAssumption DEF Counted, Shape, Init, UserPc

LEMMA ShapeStep == Shape /\ [Next]_vars => Shape'
PROOF
<1> SUFFICES ASSUME Shape, [Next]_vars PROVE Shape'
  OBVIOUS
<1> USE TimersAssumption, BoundAssumption, DelayAssumption
<1> USE DEF Shape, UserPc, timerVars, loopVars
<1>1. ASSUME NEW t \in Timer, NEW d \in Delay, Start(t, d) PROVE Shape'
  BY <1>1 DEF Start, Activate
<1>2. ASSUME NEW t \in Timer, NEW d \in Delay, Repeat(t, d) PROVE Shape'
  <2>1. CASE active[t]
    BY <1>2, <2>1 DEF Repeat
  <2>2. CASE ~active[t]
    BY <1>2, <2>2 DEF Repeat, Activate
  <2> QED BY <2>1, <2>2
<1>3. ASSUME NEW t \in Timer, Stop(t) PROVE Shape'
  <2>1. CASE active[t]
    <3>1. /\ active' = [active EXCEPT ![t] = FALSE]
          /\ due' = [due EXCEPT ![t] = 0]
      BY <1>3, <2>1 DEF Stop, Deactivate
    <3>4. active' \in [Timer -> BOOLEAN] /\ due' \in [Timer -> Int]
      BY <3>1
    <3>2. owed' \in [Timer -> {"no", "once", "repeat"}]
      BY <1>3 DEF Stop
    <3>3. \A u \in Timer : ~active'[u] => due'[u] = 0
      BY <3>1
    <3> QED BY <1>3, <2>1, <3>2, <3>3, <3>4 DEF Stop, Deactivate
  <2>2. CASE ~active[t]
    BY <1>3, <2>2 DEF Stop
  <2> QED BY <2>1, <2>2
<1>4. CASE OpenHandle \/ CloseHandle
  BY <1>4 DEF OpenHandle, CloseHandle
<1>5. CASE RunLoop \/ AfterReturn
  BY <1>5, TimersNextType DEF RunLoop, AfterReturn
<1>6. CASE LoopTest \/ WakeSignal \/ IoReturn \/ TimersEnd \/ Tick
  BY <1>6 DEF LoopTest, WakeSignal, IoReturn, TimersEnd, Tick
<1>7. CASE WakeTimeout \/ WakeEvent
  BY <1>7 DEF WakeTimeout, WakeEvent, Wake
<1>8. ASSUME NEW t \in Timer, Fire(t) PROVE Shape'
  BY <1>8 DEF Fire, Deactivate
<1>9. CASE TimerReturn
  <2>1. cur \in Timer
    BY <1>9 DEF TimerReturn
  <2>2. CASE interval[cur] # 0 /\ ~active[cur]
    BY <1>9, <2>1, <2>2 DEF TimerReturn, Activate
  <2>3. CASE ~(interval[cur] # 0 /\ ~active[cur])
    BY <1>9, <2>3 DEF TimerReturn
  <2> QED BY <2>2, <2>3
<1>10. CASE UNCHANGED vars
  BY <1>10 DEF vars
<1> QED BY <1>1, <1>2, <1>3, <1>4, <1>5, <1>6, <1>7, <1>8, <1>9, <1>10
        DEF Next, UserCall, LoopStep

LEMMA RefsStep == Counted /\ [Next]_vars => TimerRefs'
PROOF
<1> SUFFICES ASSUME Shape, TimerRefs, [Next]_vars PROVE TimerRefs'
  BY DEF Counted
<1> USE ArmedFinite DEF TimerRefs
<1>a. active \in [Timer -> BOOLEAN] /\ handles \in Nat
  BY BoundAssumption DEF Shape
<1>0. ASSUME UNCHANGED active PROVE Armed' = Armed
  BY <1>0 DEF Armed
<1>b. ASSUME UNCHANGED <<active, refs, handles>> PROVE TimerRefs'
  BY <1>b, <1>0
<1>c. ASSUME NEW t \in Timer, ~active[t], UNCHANGED handles, NEW d, Activate(t, d)
      PROVE  TimerRefs'
  <2>1. Cardinality(Armed') = Cardinality(Armed) + 1
    BY <1>a, <1>c, ArmedGrows DEF Activate
  <2> QED BY <1>a, <1>c, <2>1 DEF Activate
<1>d. ASSUME NEW t \in Timer, active[t], UNCHANGED handles, Deactivate(t)
      PROVE  TimerRefs'
  <2>1. Cardinality(Armed') = Cardinality(Armed) - 1
    BY <1>a, <1>d, ArmedShrinks DEF Deactivate
  <2> QED BY <1>a, <1>d, <2>1 DEF Deactivate
<1>1. ASSUME NEW t \in Timer, NEW d \in Delay, Start(t, d) PROVE TimerRefs'
  BY <1>1, <1>c DEF Start
<1>2. ASSUME NEW t \in Timer, NEW d \in Delay, Repeat(t, d) PROVE TimerRefs'
  BY <1>2, <1>b, <1>c DEF Repeat
<1>3. ASSUME NEW t \in Timer, Stop(t) PROVE TimerRefs'
  BY <1>3, <1>b, <1>d DEF Stop
<1>4. CASE OpenHandle \/ CloseHandle
  <2>1. Armed' = Armed
    BY <1>4, <1>0 DEF OpenHandle, CloseHandle, timerVars
  <2> QED BY <1>4, <2>1, <1>a DEF OpenHandle, CloseHandle
<1>5. CASE RunLoop \/ AfterReturn \/ LoopTest \/ WakeSignal \/ IoReturn \/ TimersEnd \/ Tick
  BY <1>5, <1>b DEF RunLoop, AfterReturn, LoopTest, WakeSignal, IoReturn, TimersEnd, Tick, timerVars
<1>7. CASE WakeTimeout \/ WakeEvent
  BY <1>7, <1>b DEF WakeTimeout, WakeEvent, Wake
<1>8. ASSUME NEW t \in Timer, Fire(t) PROVE TimerRefs'
  <2>1. active[t]
    BY <1>8 DEF Fire, Earliest, Armed
  <2> QED BY <1>8, <2>1, <1>d DEF Fire
<1>9. CASE TimerReturn
  <2>1. cur \in Timer
    BY <1>9 DEF TimerReturn, Shape
  <2> QED BY <1>9, <2>1, <1>b, <1>c DEF TimerReturn
<1>10. CASE UNCHANGED vars
  BY <1>10, <1>b DEF vars, timerVars
<1> QED BY <1>1, <1>2, <1>3, <1>4, <1>5, <1>7, <1>8, <1>9, <1>10
        DEF Next, UserCall, LoopStep

LEMMA CountedInvariant == Spec => []Counted
PROOF
<1>1. Init => Counted
  BY CountedInit
<1>2. Counted /\ [Next]_vars => Counted'
  BY ShapeStep, RefsStep DEF Counted
<1> QED BY <1>1, <1>2, PTL DEF Spec

(* Types: no variable leaves its range, and ctx->refs never drops below zero. *)
THEOREM TimersTypeCorrect == Spec => []TypeOK
PROOF
<1>1. Counted => TypeOK
  BY ArmedFinite, BoundAssumption DEF Counted, TimerRefs, TypeOK, Shape
<1> QED BY <1>1, CountedInvariant, PTL

(* ctx->refs counts the armed timers and the other handles, at every point of
   pd_timers_run and of the callbacks. *)
THEOREM TimersRefsCount == Spec => []TimerRefs
PROOF
<1>1. Counted => TimerRefs
  BY DEF Counted
<1> QED BY <1>1, CountedInvariant, PTL

-----------------------------------------------------------------------------
(* A program whose delays are not negative. *)

(* Outside the part of an iteration where timers are late, none is: the sleep
   is computed there, from a difference that cannot wrap. *)
NoneLate == pc \in {"script", "loop", "poll", "after"} => \A t \in Armed : due[t] \in Nat

LEMMA NoneLateStep ==
  ASSUME Delay \subseteq Nat, Shape, NoneLate, [Next]_vars
  PROVE  NoneLate'
PROOF
<1> USE DEF Shape, NoneLate, Armed, UserPc, timerVars, loopVars
<1>1. ASSUME NEW t \in Timer, NEW d \in Delay, Start(t, d) PROVE NoneLate'
  BY <1>1 DEF Start, Activate
<1>2. ASSUME NEW t \in Timer, NEW d \in Delay, Repeat(t, d) PROVE NoneLate'
  BY <1>2 DEF Repeat, Activate
<1>3. ASSUME NEW t \in Timer, Stop(t) PROVE NoneLate'
  BY <1>3 DEF Stop, Deactivate
<1>4. CASE OpenHandle \/ CloseHandle \/ RunLoop \/ AfterReturn \/ LoopTest \/ WakeSignal \/ Tick
  BY <1>4 DEF OpenHandle, CloseHandle, RunLoop, AfterReturn, LoopTest, WakeSignal, Tick
<1>5. CASE WakeTimeout \/ WakeEvent \/ IoReturn \/ TimerReturn \/ \E t \in Timer : Fire(t)
  BY <1>5 DEF WakeTimeout, WakeEvent, Wake, IoReturn, TimerReturn, Fire
<1>6. CASE TimersEnd
  BY <1>6 DEF TimersEnd
<1>7. CASE UNCHANGED vars
  BY <1>7 DEF vars
<1> QED BY <1>1, <1>2, <1>3, <1>4, <1>5, <1>6, <1>7 DEF Next, UserCall, LoopStep

(* As ctx->now counts, the loop sleeps no longer than until the first deadline. *)
SleepsUntilDue == pc \in {"loop", "poll"} => \A t \in Armed : sleep \in 0..due[t]

LEMMA SleepsUntilDueStep ==
  ASSUME Shape, NoneLate, SleepsUntilDue, [Next]_vars
  PROVE  SleepsUntilDue'
PROOF
<1> USE DEF Shape, SleepsUntilDue, Armed, UserPc, timerVars, loopVars
<1>1. ASSUME NEW t \in Timer, NEW d \in Delay, Start(t, d) \/ Repeat(t, d) PROVE SleepsUntilDue'
  BY <1>1 DEF Start, Repeat
<1>2. ASSUME NEW t \in Timer, Stop(t) PROVE SleepsUntilDue'
  BY <1>2 DEF Stop
<1>3. CASE RunLoop \/ AfterReturn
  <2>1. TimersNext /\ UNCHANGED <<active, due>> /\ \A t \in Armed : due[t] \in Nat
    BY <1>3 DEF RunLoop, AfterReturn, NoneLate
  <2>2. CASE Armed = {}
    BY <2>1, <2>2
  <2>3. ASSUME NEW t \in Timer, Earliest(t), sleep' = Clamp(due[t]) PROVE SleepsUntilDue'
    <3>1. Clamp(due[t]) \in 0..IntMax /\ Clamp(due[t]) <= due[t]
      BY <2>1, <2>3, ClampRange DEF Earliest
    <3>2. ASSUME NEW u \in Armed PROVE sleep' \in 0..due[u]
      BY <2>1, <2>3, <3>1, WidthAssumption DEF Earliest
    <3> QED BY <2>1, <3>2
  <2> QED BY <2>1, <2>2, <2>3 DEF TimersNext
<1>4. CASE LoopTest \/ WakeSignal \/ Tick \/ IoReturn \/ TimersEnd \/ OpenHandle \/ CloseHandle
  BY <1>4 DEF LoopTest, WakeSignal, Tick, IoReturn, TimersEnd, OpenHandle, CloseHandle
<1>5. CASE WakeTimeout \/ WakeEvent \/ TimerReturn \/ \E t \in Timer : Fire(t)
  BY <1>5 DEF WakeTimeout, WakeEvent, Wake, TimerReturn, Fire
<1>6. CASE UNCHANGED vars
  BY <1>6 DEF vars
<1> QED BY <1>1, <1>2, <1>3, <1>4, <1>5, <1>6 DEF Next, UserCall, LoopStep

(* What ctx->now is late by: the callbacks since it was set, the waits that a
   signal interrupted since, and the wait that is under way. *)
Staleness == lag <= MaxLag + intr * MaxSlept + (IF pc = "poll" THEN slept ELSE 0)

LEMMA StalenessStep ==
  ASSUME Shape, Staleness, [Next]_vars
  PROVE  Staleness'
PROOF
<1> USE BoundAssumption DEF Shape, Staleness, UserPc, timerVars, loopVars
<1>1. intr * MaxSlept \in Nat /\ (intr + 1) * MaxSlept = intr * MaxSlept + MaxSlept
  OBVIOUS
<1>2. CASE UserCall \/ RunLoop \/ IoReturn \/ TimerReturn \/ TimersEnd \/ AfterReturn
           \/ (\E t \in Timer : Fire(t)) \/ UNCHANGED vars
  <2>1. \/ UNCHANGED <<lag, intr>> /\ pc # "poll" /\ pc' # "poll"
        \/ UNCHANGED <<lag, intr, pc, slept>>
    BY <1>2 DEF UserCall, Start, Repeat, Stop, OpenHandle, CloseHandle, RunLoop, IoReturn,
       TimerReturn, TimersEnd, AfterReturn, Fire, vars
  <2> QED BY <2>1
<1>3. CASE LoopTest
  BY <1>3, <1>1 DEF LoopTest
<1>4. CASE WakeTimeout \/ WakeEvent
  BY <1>4 DEF WakeTimeout, WakeEvent, Wake
<1>5. CASE WakeSignal
  <2>1. intr' * MaxSlept = intr * MaxSlept + MaxSlept /\ lag' = lag /\ pc = "poll" /\ pc' = "loop"
    BY <1>5, <1>1 DEF WakeSignal
  <2>2. lag <= MaxLag + intr * MaxSlept + slept /\ slept <= MaxSlept
    BY <2>1
  <2> QED BY <2>1, <2>2, <1>1
<1>6. CASE Tick
  BY <1>6, <1>1 DEF Tick
<1> QED BY <1>2, <1>3, <1>4, <1>5, <1>6 DEF Next, LoopStep

(* With no negative delay a wait ends after a deadline by no more than the
   time callbacks took since ctx->now was set and the waits that signals
   interrupted since, and a wait with a timer in the heap always ends. *)
THEOREM TimersSleepBound ==
  ASSUME Delay \subseteq Nat
  PROVE  Spec => []SleepBound
PROOF
<1> DEFINE Inv == Counted /\ NoneLate /\ SleepsUntilDue /\ Staleness
<1>1. Init => Inv
  <2>1. Init => Staleness
    BY BoundAssumption DEF Init, Staleness
  <2> QED BY <2>1, CountedInit DEF Init, NoneLate, SleepsUntilDue, Armed
<1>2. Inv /\ [Next]_vars => Inv'
  BY ShapeStep, RefsStep, NoneLateStep, SleepsUntilDueStep, StalenessStep DEF Counted
<1>3. Inv => SleepBound
  <2> SUFFICES ASSUME Inv, pc = "poll", NEW t \in Armed
               PROVE  sleep >= 0 /\ sleep - slept <= (due[t] - lag) + MaxLag + intr * MaxSlept
    BY DEF SleepBound
  <2>1. sleep \in 0..due[t] /\ due[t] \in Nat
    BY DEF SleepsUntilDue, NoneLate
  <2>2. intr * MaxSlept \in Nat /\ lag \in Nat /\ slept \in Nat /\ MaxLag \in Nat
    BY BoundAssumption DEF Counted, Shape
  <2>3. lag <= MaxLag + intr * MaxSlept + slept
    BY DEF Staleness
  <2> QED BY <2>1, <2>2, <2>3
<1> QED BY <1>1, <1>2, <1>3, PTL DEF Spec

-----------------------------------------------------------------------------
(* A program that obeys the rules of Start and Stop. *)

(* A one-shot timer has no interval, so that TimerReturn leaves alone the one
   that has just fired. *)
OneShot ==
  /\ \A t \in Timer : owed[t] = "once" => interval[t] = 0
  /\ pc = "timercb" /\ owed[cur] = "no" => interval[cur] = 0

LEMMA StoppedStep ==
  ASSUME Careful, Shape, OneShot, StaysStopped, [Next]_vars
  PROVE  OneShot' /\ StaysStopped'
PROOF
<1> USE DEF Shape, OneShot, StaysStopped, UserPc, timerVars, loopVars
<1>1. ASSUME NEW t \in Timer, NEW d \in Delay, Start(t, d) PROVE OneShot' /\ StaysStopped'
  BY <1>1 DEF Start, Activate
<1>2. ASSUME NEW t \in Timer, NEW d \in Delay, Repeat(t, d) PROVE OneShot' /\ StaysStopped'
  <2>1. CASE active[t]
    BY <1>2, <2>1 DEF Repeat
  <2>2. CASE ~active[t]
    BY <1>2, <2>2 DEF Repeat, Activate
  <2> QED BY <2>1, <2>2
<1>3. ASSUME NEW t \in Timer, Stop(t) PROVE OneShot' /\ StaysStopped'
  <2>1. CASE active[t]
    BY <1>3, <2>1 DEF Stop, Deactivate, OwnRepeat
  <2>2. CASE ~active[t]
    BY <1>3, <2>2 DEF Stop, OwnRepeat
  <2> QED BY <2>1, <2>2
<1>4. CASE OpenHandle \/ CloseHandle \/ RunLoop \/ AfterReturn \/ LoopTest \/ WakeSignal
           \/ Tick \/ IoReturn \/ TimersEnd
  BY <1>4 DEF OpenHandle, CloseHandle, RunLoop, AfterReturn, LoopTest, WakeSignal, Tick,
              IoReturn, TimersEnd
<1>5. CASE WakeTimeout \/ WakeEvent
  BY <1>5 DEF WakeTimeout, WakeEvent, Wake
<1>6. ASSUME NEW t \in Timer, Fire(t) PROVE OneShot' /\ StaysStopped'
  <2>1. active[t] /\ owed[t] # "no"
    BY <1>6 DEF Fire, Earliest, Armed
  <2> QED BY <1>6, <2>1 DEF Fire, Deactivate
<1>7. CASE TimerReturn
  <2>1. cur \in Timer
    BY <1>7 DEF TimerReturn
  <2>2. CASE interval[cur] # 0 /\ ~active[cur]
    BY <1>7, <2>1, <2>2 DEF TimerReturn, Activate
  <2>3. CASE ~(interval[cur] # 0 /\ ~active[cur])
    BY <1>7, <2>3 DEF TimerReturn
  <2> QED BY <2>2, <2>3
<1>8. CASE UNCHANGED vars
  BY <1>8 DEF vars
<1> QED BY <1>1, <1>2, <1>3, <1>4, <1>5, <1>6, <1>7, <1>8 DEF Next, UserCall, LoopStep

(* For a careful program a timer that was stopped, or fired once, stays out of
   the heap. *)
THEOREM TimersStayStopped ==
  ASSUME Careful
  PROVE  Spec => []StaysStopped
PROOF
<1> DEFINE Inv == Counted /\ OneShot /\ StaysStopped
<1>1. Init => Inv
  BY CountedInit DEF Init, OneShot, StaysStopped
<1>2. Inv /\ [Next]_vars => Inv'
  BY ShapeStep, RefsStep, StoppedStep DEF Counted
<1> QED BY <1>1, <1>2, PTL DEF Spec

-----------------------------------------------------------------------------
(* A program that asks for no interval of 0. *)

HasInterval == \A t \in Timer : owed[t] = "repeat" => interval[t] # 0

LEMMA KeepsStep ==
  ASSUME Careful \/ 0 \notin Delay, Shape, HasInterval, IntervalKeeps, [Next]_vars
  PROVE  HasInterval' /\ IntervalKeeps'
PROOF
<1> USE TimersAssumption DEF Shape, HasInterval, IntervalKeeps, UserPc, timerVars, loopVars
<1>1. ASSUME NEW t \in Timer, NEW d \in Delay, Start(t, d) PROVE HasInterval' /\ IntervalKeeps'
  BY <1>1 DEF Start, Activate
<1>2. ASSUME NEW t \in Timer, NEW d \in Delay, Repeat(t, d) PROVE HasInterval' /\ IntervalKeeps'
  <2>1. CASE active[t]
    BY <1>2, <2>1 DEF Repeat
  <2>2. CASE ~active[t]
    BY <1>2, <2>2 DEF Repeat, Activate
  <2> QED BY <2>1, <2>2
<1>3. ASSUME NEW t \in Timer, Stop(t) PROVE HasInterval' /\ IntervalKeeps'
  <2>1. CASE active[t]
    BY <1>3, <2>1 DEF Stop, Deactivate
  <2>2. CASE ~active[t]
    BY <1>3, <2>2 DEF Stop
  <2> QED BY <2>1, <2>2
<1>4. CASE OpenHandle \/ CloseHandle \/ RunLoop \/ AfterReturn \/ LoopTest \/ WakeSignal
           \/ Tick \/ IoReturn \/ TimersEnd
  BY <1>4 DEF OpenHandle, CloseHandle, RunLoop, AfterReturn, LoopTest, WakeSignal, Tick,
              IoReturn, TimersEnd
<1>5. CASE WakeTimeout \/ WakeEvent
  BY <1>5 DEF WakeTimeout, WakeEvent, Wake
<1>6. ASSUME NEW t \in Timer, Fire(t) PROVE HasInterval' /\ IntervalKeeps'
  <2>1. cur = Null
    BY <1>6 DEF Fire
  <2>2. HasInterval'
    BY <1>6 DEF Fire, Deactivate
  <2>3. ASSUME NEW u \in Timer, owed'[u] = "repeat" PROVE active'[u] \/ cur' = u
    BY <1>6, <2>1, <2>3 DEF Fire, Deactivate
  <2> QED BY <2>2, <2>3
<1>7. CASE TimerReturn
  <2>1. cur \in Timer
    BY <1>7 DEF TimerReturn
  <2>2. CASE interval[cur] # 0 /\ ~active[cur]
    BY <1>7, <2>1, <2>2 DEF TimerReturn, Activate
  <2>3. CASE ~(interval[cur] # 0 /\ ~active[cur])
    BY <1>7, <2>1, <2>3 DEF TimerReturn
  <2> QED BY <2>2, <2>3
<1>8. CASE UNCHANGED vars
  BY <1>8 DEF vars
<1> QED BY <1>1, <1>2, <1>3, <1>4, <1>5, <1>6, <1>7, <1>8 DEF Next, UserCall, LoopStep

(* Without an interval of 0 a repeating timer that nobody stopped stays in the
   heap, except while its own callback runs. *)
THEOREM TimersIntervalKeeps ==
  ASSUME Careful \/ 0 \notin Delay
  PROVE  Spec => []IntervalKeeps
PROOF
<1> DEFINE Inv == Counted /\ HasInterval /\ IntervalKeeps
<1>1. Init => Inv
  BY CountedInit DEF Init, HasInterval, IntervalKeeps
<1>2. Inv /\ [Next]_vars => Inv'
  BY ShapeStep, RefsStep, KeepsStep DEF Counted
<1> QED BY <1>1, <1>2, PTL DEF Spec
=============================================================================
