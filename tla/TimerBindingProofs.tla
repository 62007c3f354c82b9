------------------------- MODULE TimerBindingProofs -------------------------
(***************************************************************************)
(* The invariants of TimerBinding, for any number of timers, any delays    *)
(* and any bounds on the loop.                                             *)
(***************************************************************************)
EXTENDS TimerBinding, FiniteSetTheorems, TLAPS

Facts == INSTANCE TimersProofs WITH Careful <- FALSE

(* A Timer is in the table while pandio has it in the heap or calls it, and
   was deleted once afterwards. *)
Life(t) ==
  IF t \in active_timers
  THEN deletes[t] = 0 /\ (active[t] <=> cur # t)
  ELSE deletes[t] = (IF t \in Made THEN 1 ELSE 0) /\ ~active[t] /\ cur # t

(* The interval that pd_timers_run looks at says which of the two on_timeouts
   a Timer has: this is what tells onTimeout to delete it. *)
Objects ==
  /\ TypeOK
  /\ active \in [Timer -> BOOLEAN] /\ interval \in [Timer -> Int]
  /\ cur \in Timer \cup {Null} /\ (cur # Null <=> pc = "timercb")
  /\ \A t \in Timer : Life(t) /\ (interval[t] # 0 <=> t \in onInterval)
  /\ cleared \cap active_timers = {}

LEMMA MadeFacts ==
  ASSUME TypeOK
  PROVE  Made \subseteq Timer /\ Null \notin Timer /\ counter \notin Made
  BY MaxTimersAssumption DEF TypeOK, Made, Timer, Null

LEMMA ObjectsInit == Init => Objects
<1> SUFFICES ASSUME Init PROVE Objects OBVIOUS
<1>1. /\ active = [t \in Timer |-> FALSE] /\ interval = [t \in Timer |-> 0] /\ cur = Null
      /\ pc = "script"
  BY DEF Init, T!Init, Timer
<1>2. Made = {} BY DEF Init, Made
<1>3. TypeOK
  <2>1. 1 \in 1..MaxTimers + 1 BY MaxTimersAssumption
  <2> QED BY <2>1 DEF Init, TypeOK
<1>4. \A t \in Timer : Life(t) /\ (interval[t] # 0 <=> t \in onInterval)
  BY <1>1, <1>2, <1>3, MadeFacts DEF Init, Life
<1> QED BY <1>1, <1>3, <1>4 DEF Objects, Init

(* new Timer() *)
LEMMA ConstructedStep ==
  ASSUME Objects, Constructed
  PROVE  /\ counter \in Timer /\ counter \notin Made /\ Made' = Made \cup {counter}
         /\ counter' \in 1..MaxTimers + 1 /\ counter \notin active_timers /\ counter \notin cleared
         /\ ~active[counter] /\ cur # counter /\ deletes[counter] = 0
         /\ counter \notin onInterval /\ interval[counter] = 0
<1>1. counter \in Timer /\ counter' = counter + 1 BY DEF Constructed
<1>2. counter \notin Made /\ Made' = Made \cup {counter} /\ counter' \in 1..MaxTimers + 1
  BY <1>1, MaxTimersAssumption DEF Made, Timer
<1>3. counter \notin active_timers /\ counter \notin cleared /\ counter \notin onInterval
  BY <1>2 DEF Objects, TypeOK
<1>4. Life(counter) BY <1>1 DEF Objects
<1> QED BY <1>1, <1>2, <1>3, <1>4 DEF Objects, Life

LEMMA SetTimerStep ==
  ASSUME Objects, NEW d \in Delay, setTimeout(d) \/ (Careful /\ setInterval(d))
  PROVE  Objects'
<1>1. /\ Constructed /\ UNCHANGED <<pc, cur, deletes, cleared, ended>>
      /\ active' = [active EXCEPT ![counter] = TRUE]
      /\ \/ UNCHANGED <<interval, onInterval>>
         \/ /\ interval' = [interval EXCEPT ![counter] = d] /\ d # 0
            /\ onInterval' = onInterval \cup {counter}
  <2>1. CASE setTimeout(d) BY <2>1 DEF setTimeout, T!Start, T!Activate
  <2>2. CASE Careful /\ setInterval(d)
    <3>1. ~active[counter] BY <2>2, ConstructedStep DEF setInterval
    <3> QED BY <2>2, <3>1 DEF setInterval, T!Repeat, T!Activate
  <2> QED BY <2>1, <2>2
<1>2. /\ counter \in Timer /\ counter \notin Made /\ Made' = Made \cup {counter}
      /\ counter' \in 1..MaxTimers + 1 /\ counter \notin active_timers /\ counter \notin cleared
      /\ ~active[counter] /\ cur # counter /\ deletes[counter] = 0
      /\ counter \notin onInterval /\ interval[counter] = 0
  BY <1>1, ConstructedStep
<1>3. active_timers' = active_timers \cup {counter} BY <1>1 DEF Constructed
<1>4. TypeOK' BY <1>1, <1>2, <1>3 DEF Objects, TypeOK
<1>5. active' \in [Timer -> BOOLEAN] /\ interval' \in [Timer -> Int]
  BY <1>1, <1>2, DelayAssumption DEF Objects
<1>6. ASSUME NEW t \in Timer PROVE Life(t)' /\ (interval'[t] # 0 <=> t \in onInterval')
  <2>1. Life(t) /\ (interval[t] # 0 <=> t \in onInterval) BY DEF Objects
  <2>2. CASE t = counter BY <2>2, <1>1, <1>2, <1>3 DEF Objects, Life
  <2>3. CASE t # counter BY <2>1, <2>3, <1>1, <1>2, <1>3 DEF Objects, Life
  <2> QED BY <2>2, <2>3
<1>7. cleared' \cap active_timers' = {} BY <1>1, <1>2, <1>3 DEF Objects
<1> QED BY <1>1, <1>4, <1>5, <1>6, <1>7 DEF Objects

(* A Timer that pandio has let go of is deleted. *)
LEMMA DeletedStep ==
  ASSUME Objects, NEW t \in active_timers, Deleted(t), UNCHANGED <<counter, onInterval, interval, ended>>,
         active' = [active EXCEPT ![t] = FALSE] \/ (active' = active /\ ~active[t]),
         cur' # t, \A u \in Timer \ {t} : cur' = u <=> cur = u,
         cur' \in Timer \cup {Null}, cur' # Null <=> pc' = "timercb",
         cleared' \in {cleared, cleared \cup {t}}
  PROVE  Objects'
<1>1. t \in Timer /\ t \in Made BY MadeFacts DEF Objects, TypeOK
<1>2. /\ active_timers' = active_timers \ {t} /\ deletes' = [deletes EXCEPT ![t] = @ + 1]
  BY DEF Deleted
<1>3. Life(t) BY <1>1 DEF Objects
<1>4. deletes[t] = 0 BY <1>3 DEF Life
<1>5. Made' = Made BY DEF Made
<1>6. TypeOK' BY <1>1, <1>2, <1>4, <1>5 DEF Objects, TypeOK
<1>7. active' \in [Timer -> BOOLEAN] /\ ~active'[t] /\ \A u \in Timer \ {t} : active'[u] = active[u]
  BY <1>1 DEF Objects
<1>8. ASSUME NEW u \in Timer PROVE Life(u)' /\ (interval'[u] # 0 <=> u \in onInterval')
  <2>1. Life(u) /\ (interval[u] # 0 <=> u \in onInterval) BY DEF Objects
  <2>2. CASE u = t
    <3>1. deletes'[t] = 1 BY <1>1, <1>2, <1>4 DEF Objects, TypeOK
    <3> QED BY <2>1, <2>2, <3>1, <1>1, <1>2, <1>5, <1>7 DEF Life
  <2>3. CASE u # t
    <3>1. deletes'[u] = deletes[u] BY <2>3, <1>2 DEF Objects, TypeOK
    <3>2. cur' = u <=> cur = u BY <2>3
    <3> QED BY <2>1, <2>3, <3>1, <3>2, <1>2, <1>5, <1>7 DEF Life
  <2> QED BY <2>2, <2>3
<1>9. cleared' \cap active_timers' = {} BY <1>2 DEF Objects
<1> QED BY <1>6, <1>7, <1>8, <1>9 DEF Objects

LEMMA ClearStep ==
  ASSUME Objects, Careful, NEW t \in Timer, clear(t)
  PROVE  Objects'
<1>1. t \in active_timers /\ ~(pc = "timercb" /\ cur = t) BY DEF clear
<1>2. cur # t BY <1>1, MadeFacts DEF Objects
<1>3. active[t] BY <1>1, <1>2 DEF Objects, Life
<1>4. active' = [active EXCEPT ![t] = FALSE] /\ UNCHANGED <<interval, pc, cur>>
  BY <1>3 DEF clear, T!Stop, T!Deactivate
<1> QED BY <1>1, <1>2, <1>4, DeletedStep DEF clear, Objects

LEMMA TimerReturnStep ==
  ASSUME Objects, TimerReturn
  PROVE  Objects'
<1>1. pc = "timercb" /\ pc' = "run" /\ cur' = Null /\ UNCHANGED interval
  BY DEF TimerReturn, T!TimerReturn
<1>2. cur \in Timer /\ Null \notin Timer BY <1>1, MadeFacts DEF Objects
<1>3. Life(cur) /\ (interval[cur] # 0 <=> cur \in onInterval) BY <1>2 DEF Objects
<1>4. cur \in active_timers /\ ~active[cur] BY <1>3 DEF Life
<1>5. CASE cur \in onInterval
  <2>1. /\ active' = [active EXCEPT ![cur] = TRUE]
        /\ UNCHANGED <<counter, active_timers, onInterval, deletes, cleared, ended>>
    BY <1>3, <1>4, <1>5 DEF TimerReturn, T!TimerReturn, T!Activate
  <2>2. active' \in [Timer -> BOOLEAN] BY <1>2, <2>1 DEF Objects
  <2>3. Made' = Made BY <2>1 DEF Made
  <2>4. ASSUME NEW u \in Timer PROVE Life(u)' /\ (interval'[u] # 0 <=> u \in onInterval')
    <3>1. Life(u) /\ (interval[u] # 0 <=> u \in onInterval) BY DEF Objects
    <3>2. CASE u = cur BY <3>1, <3>2, <1>1, <1>2, <1>4, <2>1, <2>3 DEF Objects, Life
    <3>3. CASE u # cur BY <3>1, <3>3, <1>1, <1>2, <2>1, <2>3 DEF Objects, Life
    <3> QED BY <3>2, <3>3
  <2>5. TypeOK' BY <2>1, <2>3 DEF Objects, TypeOK
  <2> QED BY <1>1, <2>1, <2>2, <2>4, <2>5 DEF Objects
<1>6. CASE cur \notin onInterval
  <2>1. active' = active /\ Deleted(cur) /\ UNCHANGED <<counter, onInterval, cleared, ended>>
    BY <1>3, <1>6 DEF TimerReturn, T!TimerReturn
  <2>2. \A u \in Timer \ {cur} : cur' = u <=> cur = u BY <1>1, <1>2
  <2>3. cur' # cur BY <1>1, <1>2
  <2> QED BY <1>1, <1>4, <2>1, <2>2, <2>3, DeletedStep
<1> QED BY <1>5, <1>6

(* pd_timers_run calls a Timer that is in the table. *)
LEMMA FireStep ==
  ASSUME Objects, NEW t \in Timer, T!Fire(t), UNCHANGED bindingVars
  PROVE  Objects'
<1>1. /\ pc = "run" /\ pc' = "timercb" /\ cur' = t /\ active[t] /\ UNCHANGED interval
      /\ active' = [active EXCEPT ![t] = FALSE]
  BY DEF T!Fire, T!Deactivate, T!Earliest, T!Armed
<1>2. cur = Null /\ Null \notin Timer BY <1>1, MadeFacts DEF Objects
<1>3. active' \in [Timer -> BOOLEAN] BY <1>1 DEF Objects
<1>4. UNCHANGED <<counter, active_timers, onInterval, deletes, cleared, ended>> BY DEF bindingVars
<1>5. Made' = Made BY <1>4 DEF Made
<1>6. ASSUME NEW u \in Timer PROVE Life(u)' /\ (interval'[u] # 0 <=> u \in onInterval')
  <2>1. Life(u) /\ (interval[u] # 0 <=> u \in onInterval) BY DEF Objects
  <2>2. CASE u = t BY <2>1, <2>2, <1>1, <1>2, <1>4, <1>5 DEF Objects, Life
  <2>3. CASE u # t BY <2>1, <2>3, <1>1, <1>2, <1>4, <1>5 DEF Objects, Life
  <2> QED BY <2>2, <2>3
<1>7. TypeOK' BY <1>4, <1>5 DEF Objects, TypeOK
<1> QED BY <1>1, <1>2, <1>3, <1>4, <1>6, <1>7 DEF Objects

LEMMA ObjectsSame ==
  ASSUME Objects, UNCHANGED bindingVars, UNCHANGED <<active, interval, cur>>,
         pc' = "timercb" <=> pc = "timercb"
  PROVE  Objects'
<1>1. UNCHANGED <<counter, active_timers, onInterval, deletes, cleared, ended>> BY DEF bindingVars
<1>2. Made' = Made BY <1>1 DEF Made
<1>3. TypeOK' BY <1>1, <1>2 DEF Objects, TypeOK
<1>4. ASSUME NEW u \in Timer PROVE Life(u)' /\ (interval'[u] # 0 <=> u \in onInterval')
  BY <1>1, <1>2 DEF Objects, Life
<1> QED BY <1>1, <1>3, <1>4 DEF Objects

LEMMA ObjectsStep ==
  ASSUME Careful, Objects, [Next]_vars
  PROVE  Objects'
<1>1. CASE Script BY <1>1, SetTimerStep, ClearStep DEF Script
<1>2. CASE TimerReturn BY <1>2, TimerReturnStep
<1>3. CASE Throws
  <2>1. /\ UNCHANGED <<active, interval, cur, pc, counter, onInterval, deletes, active_timers, cleared>>
        /\ ended' = TRUE
    BY <1>3 DEF Throws, timersVars
  <2>2. Made' = Made BY <2>1 DEF Made
  <2>3. TypeOK' BY <2>1, <2>2 DEF Objects, TypeOK
  <2>4. ASSUME NEW u \in Timer PROVE Life(u)' /\ (interval'[u] # 0 <=> u \in onInterval')
    BY <2>1, <2>2 DEF Objects, Life
  <2> QED BY <2>1, <2>3, <2>4 DEF Objects
<1>4. CASE Loop
  <2>1. CASE \E t \in Timer : T!Fire(t) BY <1>4, <2>1, FireStep DEF Loop
  <2>2. CASE \/ T!OpenHandle \/ T!CloseHandle \/ T!RunLoop \/ T!LoopTest
             \/ T!WakeTimeout \/ T!WakeEvent \/ T!WakeSignal \/ T!IoReturn
             \/ T!TimersEnd \/ T!AfterReturn \/ T!Tick
    <3>1. UNCHANGED <<active, interval, cur>> /\ (pc' = "timercb" <=> pc = "timercb")
      BY <2>2 DEF T!OpenHandle, T!CloseHandle, T!RunLoop, T!LoopTest, T!WakeTimeout, T!WakeEvent,
                  T!Wake, T!WakeSignal, T!IoReturn, T!TimersEnd, T!AfterReturn, T!Tick,
                  T!timerVars, T!loopVars
    <3> QED BY <1>4, <3>1, ObjectsSame DEF Loop
  <2> QED BY <1>4, <2>1, <2>2 DEF Loop
<1>5. CASE UNCHANGED vars BY <1>5, ObjectsSame DEF vars, timersVars
<1> QED BY <1>1, <1>2, <1>3, <1>4, <1>5 DEF Next

LEMMA ObjectsAlways ==
  ASSUME Careful
  PROVE  Spec => []Objects
<1>1. Objects /\ [Next]_vars => Objects' BY ObjectsStep
<1> QED BY <1>1, ObjectsInit, PTL DEF Spec

(* active_timers holds exactly the Timers that may still be called, and none of
   these was deleted, when the program gives setInterval a delay and clears no
   timer in that timer's own callback. *)
THEOREM BindingTimerObjects ==
  ASSUME Careful
  PROVE  Spec => []TimerObjects
<1>1. Objects => TimerObjects
  <2> SUFFICES ASSUME Objects PROVE TimerObjects OBVIOUS
  <2>1. ASSUME NEW t \in Made
        PROVE  /\ deletes[t] = IF t \in active_timers THEN 0 ELSE 1
               /\ t \in active_timers <=> active[t] \/ cur = t
    <3>1. t \in Timer /\ Life(t) BY MadeFacts DEF Objects
    <3> QED BY <3>1 DEF Life
  <2> QED BY <2>1 DEF TimerObjects, Objects
<1> QED BY <1>1, ObjectsAlways, PTL

(* No callback runs after clearTimeout or clearInterval of its timer. *)
THEOREM BindingClearedSilent ==
  ASSUME Careful
  PROVE  Spec => []ClearedSilent
<1>1. Objects => ClearedSilent
  <2> SUFFICES ASSUME Objects, pc = "timercb", cur \in cleared PROVE FALSE BY DEF ClearedSilent
  <2>1. cur \in Timer /\ Life(cur) BY DEF Objects
  <2> QED BY <2>1 DEF Objects, Life
<1> QED BY <1>1, ObjectsAlways, PTL

-----------------------------------------------------------------------------
(* The binding over the timers of pandio. *)

LEMMA TimersStep == [Next]_vars => [Facts!Next]_(Facts!vars)
<1> SUFFICES ASSUME [Next]_vars PROVE Facts!Next \/ UNCHANGED Facts!vars OBVIOUS
<1> USE DEF Facts!Next, Facts!UserCall, Facts!LoopStep
<1>1. ASSUME NEW d \in Delay, setTimeout(d) PROVE Facts!Next
  <2>1. counter \in Timer /\ T!Start(counter, d) BY <1>1 DEF setTimeout, Constructed
  <2>2. Facts!Start(counter, d)
    BY <2>1 DEF T!Start, Facts!Start, T!Activate, Facts!Activate, T!UserPc, Facts!UserPc,
                T!loopVars, Facts!loopVars
  <2> QED BY <2>1, <2>2
<1>2. ASSUME NEW d \in Delay, setInterval(d) PROVE Facts!Next
  <2>1. counter \in Timer /\ T!Repeat(counter, d) BY <1>2 DEF setInterval, Constructed
  <2>2. Facts!Repeat(counter, d)
    BY <2>1 DEF T!Repeat, Facts!Repeat, T!Activate, Facts!Activate, T!UserPc, Facts!UserPc,
                T!loopVars, Facts!loopVars
  <2> QED BY <2>1, <2>2
<1>3. ASSUME NEW t \in Timer, clear(t) PROVE Facts!Next
  <2>1. T!Stop(t) BY <1>3 DEF clear
  <2>2. Facts!Stop(t)
    BY <2>1 DEF T!Stop, Facts!Stop, T!Deactivate, Facts!Deactivate, T!UserPc, Facts!UserPc,
                T!loopVars, Facts!loopVars, Facts!OwnRepeat
  <2> QED BY <2>2
<1>4. CASE TimerReturn
  <2>1. Facts!TimerReturn
    BY <1>4 DEF TimerReturn, T!TimerReturn, Facts!TimerReturn, T!Activate, Facts!Activate,
                T!loopVars, Facts!loopVars
  <2> QED BY <2>1
<1>5. CASE Throws \/ UNCHANGED vars
  BY <1>5 DEF Throws, vars, timersVars, Facts!vars, Facts!timerVars, Facts!loopVars
<1>6. CASE Loop
  <2> USE DEF T!timerVars, Facts!timerVars, T!loopVars, Facts!loopVars, T!UserPc, Facts!UserPc
  <2>1. CASE T!OpenHandle \/ T!CloseHandle
    BY <2>1 DEF T!OpenHandle, T!CloseHandle, Facts!OpenHandle, Facts!CloseHandle
  <2>2. T!TimersNext <=> Facts!TimersNext
    BY DEF T!TimersNext, Facts!TimersNext, T!Earliest, Facts!Earliest, T!Armed, Facts!Armed,
           T!Clamp, Facts!Clamp
  <2>3. CASE T!RunLoop \/ T!AfterReturn
    BY <2>2, <2>3 DEF T!RunLoop, T!AfterReturn, Facts!RunLoop, Facts!AfterReturn
  <2>4. CASE T!LoopTest \/ T!IoReturn \/ T!TimersEnd
    BY <2>4 DEF T!LoopTest, T!IoReturn, T!TimersEnd, Facts!LoopTest, Facts!IoReturn,
                Facts!TimersEnd, T!Armed, Facts!Armed
  <2>5. CASE T!WakeTimeout \/ T!WakeEvent
    BY <2>5 DEF T!WakeTimeout, T!WakeEvent, T!Wake, Facts!WakeTimeout, Facts!WakeEvent, Facts!Wake
  <2>6. CASE T!WakeSignal \/ T!Tick
    BY <2>6 DEF T!WakeSignal, T!Tick, Facts!WakeSignal, Facts!Tick
  <2>7. ASSUME NEW t \in Timer, T!Fire(t) PROVE Facts!Fire(t)
    BY <2>7 DEF T!Fire, Facts!Fire, T!Earliest, Facts!Earliest, T!Armed, Facts!Armed,
                T!Deactivate, Facts!Deactivate
  <2> QED BY <1>6, <2>1, <2>3, <2>4, <2>5, <2>6, <2>7 DEF Loop
<1> QED BY <1>1, <1>2, <1>3, <1>4, <1>5, <1>6 DEF Next, Script

(* An INSTANCE has FiniteSets of its own: its operators are the same ones. *)
LEMMA SameFiniteSets ==
  \A S : /\ Facts!IsFiniteSet(S) <=> IsFiniteSet(S)
         /\ Facts!Cardinality(S) = Cardinality(S)
         /\ T!Cardinality(S) = Cardinality(S)
BY DEF Facts!IsFiniteSet, IsFiniteSet, Facts!Cardinality, T!Cardinality, Cardinality

(* Whatever the program does with its Timers, exceptions included, the loop of
   pandio has the count of references it decides by. *)
THEOREM BindingRefsCount == Spec => [](T!TimerRefs /\ refs \in Nat)
<1>a. /\ Facts!IsFiniteSet(Timer) /\ Null \notin Timer
      /\ Delay \subseteq Int /\ FALSE \in BOOLEAN
      /\ Width \in Nat /\ IntMax \in Nat /\ 0 < IntMax /\ IntMax < Width
      /\ MaxHandles \in Nat /\ MaxLag \in Nat /\ MaxSlept \in Nat /\ MaxIntr \in Nat
  BY SameFiniteSets, FS_Interval, MaxTimersAssumption, DelayAssumption, WidthAssumption, BoundAssumption
  DEF Timer, Null
<1>1. Init => Facts!Counted
  <2>1. Facts!Init => Facts!Counted BY <1>a, Facts!CountedInit
  <2> QED BY <2>1 DEF Init, T!Init, Facts!Init
<1>2. Facts!Counted /\ [Next]_vars => Facts!Counted'
  <2>1. Facts!Shape /\ [Facts!Next]_(Facts!vars) => Facts!Shape'
    BY <1>a, Facts!ShapeStep
  <2>2. Facts!Counted /\ [Facts!Next]_(Facts!vars) => Facts!TimerRefs'
    BY <1>a, Facts!RefsStep
  <2> QED BY <2>1, <2>2, TimersStep DEF Facts!Counted
<1>3. Facts!Counted => T!TimerRefs /\ refs \in Nat
  <2> SUFFICES ASSUME Facts!Counted PROVE T!TimerRefs /\ refs \in Nat OBVIOUS
  <2>1. Facts!Armed = T!Armed BY DEF Facts!Armed, T!Armed
  <2>2. refs = handles + Cardinality(T!Armed)
    BY <2>1, SameFiniteSets DEF Facts!Counted, Facts!TimerRefs
  <2>3. Cardinality(T!Armed) \in Nat
    <3>1. T!Armed \subseteq Timer BY DEF T!Armed
    <3> QED BY <3>1, <1>a, SameFiniteSets, FS_Subset, FS_CardinalityType
  <2>4. handles \in Nat BY DEF Facts!Counted, Facts!Shape
  <2> QED BY <2>2, <2>3, <2>4, SameFiniteSets DEF T!TimerRefs
<1> QED BY <1>1, <1>2, <1>3, PTL DEF Spec
=============================================================================
