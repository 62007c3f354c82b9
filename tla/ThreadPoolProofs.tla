--------------------------- MODULE ThreadPoolProofs ---------------------------
(***************************************************************************)
(* The invariants of ThreadPool hold for every set of workers and tasks.   *)
(***************************************************************************)
EXTENDS ThreadPool, TLAPS, FiniteSetTheorems

(* Where the program counters tie the other variables down. *)
InSubmit == mpc \in {"sublock", "subpush"}
InDone   == mpc = "cb" \/ (InSubmit /\ ret = "cb")
Ending   == mpc \in {"returned", "endlock", "endabort", "join"}

Control ==
  /\ ntasks = Len(tasks)
  /\ pending # None <=> InSubmit
  /\ calling # None <=> InDone
  /\ \A w \in Worker : wtask[w] # None <=> wpc[w] \in {"work", "relock", "publish"}
  /\ tasks_done # <<>> => InDone \/ mpc = "dones"
  /\ \A w \in Worker : running <=> wpc[w] # "none"
  /\ InSubmit \/ mpc # "script" => running
  /\ InSubmit => ~abort_threads
  /\ running => (abort_threads <=> mpc = "join")
  /\ \A w \in Worker : wpc[w] = "exit" => abort_threads
  /\ task_signaled = FALSE

CInv == Shape /\ MutualExclusion /\ Control

LEMMA SignalledCases ==
  ASSUME NEW f, NEW g \in Signalled(f)
  PROVE  \/ {w \in Worker : f[w] = "asleep"} = {} /\ g = f
         \/ \E v \in Worker : f[v] = "asleep" /\ g = [f EXCEPT ![v] = "woken"]
  BY DEF Signalled

LEMMA ControlInit == Init => CInv
<1> SUFFICES ASSUME Init PROVE CInv
  OBVIOUS
<1> USE ThreadAssumption, HandlesAssumption, WorkerAssumption DEF Init
<1>1. wpc \in [Worker -> WorkerPc] /\ wtask \in [Worker -> Task \cup {None}]
  BY DEF WorkerPc
<1>2. tasks \in Seq(Task) /\ finished_tasks \in Seq(Task) /\ tasks_done \in Seq(Task)
  OBVIOUS
<1>3. Shape
  <2>1. handles \in 0..MaxHandles /\ batch \in SUBSET {"task", "io"}
    OBVIOUS
  <2>2. mpc \in MainPc /\ ret \in UserPc
    BY DEF MainPc, UserPc
  <2>3. running \in BOOLEAN /\ abort_threads \in BOOLEAN /\ task_signaled \in BOOLEAN /\ efd \in BOOLEAN
    OBVIOUS
  <2>4. ntasks \in Nat /\ waiting_threads \in Int /\ refs \in Int
    OBVIOUS
  <2>5. mux \in Worker \cup {Main, None} /\ pending \in Task \cup {None} /\ calling \in Task \cup {None}
    OBVIOUS
  <2> HIDE DEF Init
  <2> QED BY <1>1, <1>2, <2>1, <2>2, <2>3, <2>4, <2>5 DEF Shape
<1>4. MutualExclusion BY DEF MutualExclusion, InCritical, MainInCritical
<1>5. Control BY DEF Control, InSubmit, InDone
<1> QED BY <1>3, <1>4, <1>5 DEF CInv

LEMMA ControlNext == CInv /\ [Next]_vars => CInv'
<1> SUFFICES ASSUME CInv, [Next]_vars PROVE CInv'
  OBVIOUS
<1> USE ThreadAssumption, TaskAssumption, HandlesAssumption, WorkerAssumption
<1> USE DEF CInv, Shape, MutualExclusion, Control, InCritical, MainInCritical, InSubmit, InDone,
      WorkerPc, MainPc, UserPc
<1> USE DEF statics, ctxVars, workVars, mainVars
<1>1. CASE ThreadpoolInit BY <1>1 DEF ThreadpoolInit
<1>2. CASE ThreadpoolEnd BY <1>2, SMTT(30) DEF ThreadpoolEnd, MainGoes
<1>3. CASE EndLock BY <1>3 DEF EndLock, MainTakes
<1>4. CASE EndAbort BY <1>4, SignalledCases DEF EndAbort
<1>5. CASE EndJoin BY <1>5 DEF EndJoin
<1>6. ASSUME NEW t \in Task, SubmitCount(t) PROVE CInv' BY <1>6 DEF SubmitCount, Accepts
<1>7. CASE SubmitLock BY <1>7 DEF SubmitLock, MainTakes
<1>8. CASE SubmitPush BY <1>8, SignalledCases, SMTT(30) DEF SubmitPush, SubmitSignals
<1>9. CASE RunLoop BY <1>9 DEF RunLoop, MainGoes
<1>10. CASE LoopTest BY <1>10 DEF LoopTest, MainGoes
<1>11. CASE Poll BY <1>11 DEF Poll
<1>12. CASE Dispatch BY <1>12 DEF Dispatch
<1>13. CASE TickEnd BY <1>13 DEF TickEnd, MainGoes
<1>14. CASE NotifierRead BY <1>14 DEF NotifierRead
<1>15. CASE DrainLock BY <1>15 DEF DrainLock, MainTakes
<1>16. CASE Drain BY <1>16 DEF Drain, DrainWith
<1>17. CASE DoneCall BY <1>17 DEF DoneCall
<1>18. CASE DoneReturn BY <1>18 DEF DoneReturn
<1>19. CASE DonesEnd BY <1>19 DEF DonesEnd, MainGoes
<1>20. CASE IoReturn BY <1>20 DEF IoReturn, MainGoes
<1>21. CASE OpenHandle BY <1>21 DEF OpenHandle
<1>22. CASE CloseHandle BY <1>22 DEF CloseHandle
<1>23. ASSUME NEW w \in Worker, WorkerLocks(w) PROVE CInv'
  <2>1. CASE Lock(w) BY <2>1 DEF Lock, WorkerTakes
  <2>2. CASE Rewait(w) BY <2>2 DEF Rewait, WorkerTakes
  <2>3. CASE Relock(w) BY <2>3 DEF Relock, WorkerTakes
  <2> QED BY <1>23, <2>1, <2>2, <2>3 DEF WorkerLocks
<1>24. ASSUME NEW w \in Worker, Sleep(w) PROVE CInv'
  <2> USE <1>24 DEF Sleep
  <2>1. Shape' OBVIOUS
  <2>2. MutualExclusion' OBVIOUS
  <2>3. Control' OBVIOUS
  <2> QED BY <2>1, <2>2, <2>3
<1>25. ASSUME NEW w \in Worker, Quit(w) PROVE CInv'
  <2>1. PICK g : g = [wpc EXCEPT ![w] = "exit"]
    OBVIOUS
  <2>2. wpc' \in Signalled(g) BY <1>25, <2>1 DEF Quit
  <2>3. wpc' = g \/ \E v \in Worker : g[v] = "asleep" /\ wpc' = [g EXCEPT ![v] = "woken"]
    BY <2>2, SignalledCases
  <2>4. Shape' BY <1>25, <2>1, <2>3 DEF Quit
  <2>5. MutualExclusion' BY <1>25, <2>1, <2>3 DEF Quit
  <2>6. Control' BY <1>25, <2>1, <2>3 DEF Quit
  <2> QED BY <2>4, <2>5, <2>6
<1>26. ASSUME NEW w \in Worker, Take(w) PROVE CInv' BY <1>26 DEF Take
<1>27. ASSUME NEW w \in Worker, Work(w) PROVE CInv' BY <1>27 DEF Work
<1>28. ASSUME NEW w \in Worker, Publish(w) PROVE CInv' BY <1>28 DEF Publish
<1>29. ASSUME NEW w \in Worker, Send(w) PROVE CInv' BY <1>29 DEF Send
<1>30. ASSUME NEW w \in Worker, SpuriousWakeup(w) PROVE CInv' BY <1>30 DEF SpuriousWakeup
<1>31. CASE UNCHANGED vars BY <1>31 DEF vars
<1> QED
  BY <1>1, <1>2, <1>3, <1>4, <1>5, <1>6, <1>7, <1>8, <1>9, <1>10, <1>11, <1>12, <1>13, <1>14,
     <1>15, <1>16, <1>17, <1>18, <1>19, <1>20, <1>21, <1>22, <1>23, <1>24, <1>25, <1>26, <1>27,
     <1>28, <1>29, <1>30, <1>31
  DEF Next, MainSystem, MainLocks, MainUser, WorkerRuns

-----------------------------------------------------------------------------
(* Counting.  Sets of workers are finite, and a step moves one worker. *)

LEMMA WorkersCount ==
  ASSUME NEW S \in SUBSET Worker
  PROVE  /\ IsFiniteSet(S) /\ Cardinality(S) \in Nat
         /\ Cardinality(S) = 0 <=> S = {}
         /\ \A w \in S : Cardinality(S \ {w}) = Cardinality(S) - 1
         /\ \A w \in Worker \ S : Cardinality(S \cup {w}) = Cardinality(S) + 1
<1>1. IsFiniteSet(S) BY WorkerAssumption, FS_Subset
<1>2. Cardinality(S) \in Nat /\ (Cardinality(S) = 0 <=> S = {})
  BY <1>1, FS_CardinalityType, FS_EmptySet
<1>3. \A w \in S : Cardinality(S \ {w}) = Cardinality(S) - 1
  BY <1>1, FS_RemoveElement
<1>4. \A w \in Worker \ S : Cardinality(S \cup {w}) = Cardinality(S) + 1
  BY <1>1, FS_AddElement
<1> QED BY <1>1, <1>2, <1>3, <1>4

LEMMA OutstandingNat ==
  ASSUME Shape
  PROVE  /\ Outstanding \in Nat
         /\ Outstanding = 0 => /\ tasks = <<>> /\ finished_tasks = <<>> /\ tasks_done = <<>>
                              /\ Busy = {} /\ pending = None /\ calling = None
<1>1. Busy \in SUBSET Worker BY DEF Busy
<1>2. Cardinality(Busy) \in Nat /\ (Cardinality(Busy) = 0 <=> Busy = {})
  BY <1>1, WorkersCount
<1>3. /\ Len(tasks) \in Nat /\ (Len(tasks) = 0 => tasks = <<>>)
      /\ Len(finished_tasks) \in Nat /\ (Len(finished_tasks) = 0 => finished_tasks = <<>>)
      /\ Len(tasks_done) \in Nat /\ (Len(tasks_done) = 0 => tasks_done = <<>>)
  BY DEF Shape
<1> QED BY <1>2, <1>3 DEF Outstanding, One

LEMMA RefsInit == Init => RefsCount
<1> SUFFICES ASSUME Init PROVE RefsCount
  OBVIOUS
<1>1. Busy = {} BY DEF Init, Busy
<1>2. Cardinality(Busy) = 0 BY <1>1, FS_EmptySet
<1>3. Len(tasks) = 0 /\ Len(finished_tasks) = 0 /\ Len(tasks_done) = 0 BY DEF Init
<1>4. handles = 0 /\ refs = 0 /\ One(pending) = 0 /\ One(calling) = 0 BY DEF Init, One
<1> QED BY <1>2, <1>3, <1>4 DEF RefsCount, Outstanding

LEMMA RefsNext == CInv /\ RefsCount /\ [Next]_vars => RefsCount'
<1> SUFFICES ASSUME CInv, RefsCount, [Next]_vars PROVE RefsCount'
  OBVIOUS
<1> USE TaskAssumption
<1> USE DEF CInv, Shape, RefsCount, Outstanding, One, statics, ctxVars, workVars, mainVars
<1>a. Cardinality(Busy) \in Nat /\ (wtask' = wtask => Cardinality(Busy)' = Cardinality(Busy))
  BY WorkersCount DEF Busy
<1>b. /\ \A q \in {tasks, finished_tasks} : \A x : Len(Append(q, x)) = Len(q) + 1
      /\ \A q \in {tasks, tasks_done} : q # <<>> => Len(Tail(q)) = Len(q) - 1
      /\ Len(tasks) \in Nat /\ Len(finished_tasks) \in Nat /\ Len(tasks_done) \in Nat
      /\ Len(<<>>) = 0 /\ (Len(tasks) # 0 => tasks # <<>>)
  OBVIOUS
<1>c. One(pending) \in Nat /\ One(calling) \in Nat /\ handles \in Int /\ refs \in Int
  BY HandlesAssumption
<1>1. ASSUME NEW t \in Task, SubmitCount(t) PROVE RefsCount'
  <2>1. One(pending) = 0 /\ One(pending)' = 1
    BY <1>1 DEF SubmitCount, Control, InSubmit, UserPc
  <2> HIDE DEF One
  <2> QED BY <2>1, <1>1, <1>a, <1>b, <1>c DEF SubmitCount
<1>2. CASE SubmitPush
  <2>1. One(pending) = 1 /\ One(pending)' = 0
    BY <1>2 DEF SubmitPush, Control, InSubmit
  <2>2. Len(tasks') = Len(tasks) + 1 BY <1>2, <1>b DEF SubmitPush
  <2> HIDE DEF One
  <2> QED BY <2>1, <2>2, <1>2, <1>a, <1>b, <1>c DEF SubmitPush
<1>3. CASE Drain
  <2>1. tasks_done = <<>> BY <1>3 DEF Drain, DrainWith, Control, InDone, InSubmit
  <2> QED BY <2>1, <1>3, <1>a, <1>b, <1>c DEF Drain, DrainWith
<1>4. CASE DoneCall
  <2>1. One(calling) = 0 BY <1>4 DEF DoneCall, Control, InDone, InSubmit
  <2>2. One(calling)' = 1 BY <1>4 DEF DoneCall
  <2>3. Len(tasks_done') = Len(tasks_done) - 1 BY <1>4, <1>b DEF DoneCall
  <2> HIDE DEF One
  <2> QED BY <2>1, <2>2, <2>3, <1>4, <1>a, <1>b, <1>c DEF DoneCall
<1>5. CASE DoneReturn
  <2>1. One(calling) = 1 /\ One(calling)' = 0 BY <1>5 DEF DoneReturn, Control, InDone
  <2> HIDE DEF One
  <2> QED BY <2>1, <1>5, <1>a, <1>b, <1>c DEF DoneReturn
<1>6. CASE OpenHandle \/ CloseHandle
  <2>1. Outstanding' = Outstanding
    BY <1>6, <1>a DEF OpenHandle, CloseHandle
  <2>2. \/ handles' = handles + 1 /\ refs' = refs + 1
        \/ handles' = handles - 1 /\ refs' = refs - 1
    BY <1>6 DEF OpenHandle, CloseHandle
  <2>3. refs = handles + Outstanding /\ Outstanding \in Nat
    BY OutstandingNat
  <2> HIDE DEF Outstanding
  <2> QED BY <2>1, <2>2, <2>3, <1>c
<1>7. ASSUME NEW w \in Worker, Take(w) PROVE RefsCount'
  <2>1. Busy' = Busy \cup {w} /\ w \in Worker \ Busy /\ Busy \in SUBSET Worker
    BY <1>7, SMTT(30) DEF Take, Busy, Control
  <2>2. Cardinality(Busy)' = Cardinality(Busy) + 1 BY <2>1, WorkersCount
  <2>3. Len(tasks') = Len(tasks) - 1 BY <1>7, <1>b DEF Take, Control
  <2> HIDE DEF One
  <2> QED BY <2>2, <2>3, <1>7, <1>a, <1>b, <1>c DEF Take
<1>8. ASSUME NEW w \in Worker, Publish(w) PROVE RefsCount'
  <2>1. Busy' = Busy \ {w} /\ w \in Busy /\ Busy \in SUBSET Worker
    BY <1>8 DEF Publish, Busy, Control
  <2>2. Cardinality(Busy)' = Cardinality(Busy) - 1 BY <2>1, WorkersCount
  <2> QED BY <2>2, <1>8, <1>a, <1>b, <1>c DEF Publish
<1>9. CASE UNCHANGED <<tasks, finished_tasks, tasks_done, wtask, pending, calling, refs, handles>>
  BY <1>9, <1>a
<1>10. CASE UNCHANGED vars BY <1>9, <1>10 DEF vars
<1>11. CASE MainSystem
  BY <1>2, <1>3, <1>4, <1>9, <1>11 DEF MainSystem, ThreadpoolEnd, EndAbort, EndJoin, LoopTest, Poll,
     Dispatch, TickEnd, NotifierRead, DonesEnd, MainGoes
<1>12. CASE MainLocks
  BY <1>9, <1>12 DEF MainLocks, SubmitLock, DrainLock, EndLock, MainTakes
<1>13. CASE MainUser
  BY <1>1, <1>5, <1>6, <1>9, <1>13 DEF MainUser, ThreadpoolInit, RunLoop, IoReturn, MainGoes
<1>14. ASSUME NEW w \in Worker, WorkerLocks(w) \/ WorkerRuns(w) \/ SpuriousWakeup(w)
       PROVE RefsCount'
  BY <1>7, <1>8, <1>9, <1>14 DEF WorkerLocks, WorkerRuns, Lock, Rewait, Relock, WorkerTakes, Sleep,
     Quit, Work, Send, SpuriousWakeup
<1> QED BY <1>10, <1>11, <1>12, <1>13, <1>14 DEF Next

-----------------------------------------------------------------------------
(* Sleepers and wake-ups. *)

(* A step wakes v: how the numbers of sleepers, of woken workers and of those
   that come for work change. *)
Wakes(v) ==
  /\ v \in Asleep
  /\ Cardinality(Asleep)' = Cardinality(Asleep) - 1
  /\ Cardinality(Woken)' = Cardinality(Woken) + 1
  /\ Cardinality(Coming)' = Cardinality(Coming) + 1

LEMMA CensusNat ==
  ASSUME Shape
  PROVE  /\ Cardinality(Asleep) \in Nat /\ (Cardinality(Asleep) = 0 <=> Asleep = {})
         /\ Cardinality(Woken) \in Nat /\ Cardinality(Coming) \in Nat
  BY WorkersCount DEF Asleep, Woken, Coming

LEMMA WakeCensus ==
  ASSUME Shape, NEW v \in Worker, wpc[v] = "asleep", wpc' = [wpc EXCEPT ![v] = "woken"]
  PROVE  Wakes(v)
<1> USE DEF Shape
<1>1. Asleep' = Asleep \ {v} /\ v \in Asleep /\ Asleep \in SUBSET Worker
  BY DEF Asleep
<1>2. Woken' = Woken \cup {v} /\ v \in Worker \ Woken /\ Woken \in SUBSET Worker
  BY DEF Woken
<1>3. Coming' = Coming \cup {v} /\ v \in Worker \ Coming /\ Coming \in SUBSET Worker
  BY DEF Coming
<1> QED BY <1>1, <1>2, <1>3, WorkersCount DEF Wakes

LEMMA SignalCensus ==
  ASSUME Shape, wpc' \in Signalled(wpc)
  PROVE  (Asleep = {} /\ wpc' = wpc) \/ \E v \in Worker : Wakes(v)
<1>1. CASE {w \in Worker : wpc[w] = "asleep"} = {} /\ wpc' = wpc
  BY <1>1 DEF Asleep
<1>2. CASE \E v \in Worker : wpc[v] = "asleep" /\ wpc' = [wpc EXCEPT ![v] = "woken"]
  BY <1>2, WakeCensus
<1> QED BY <1>1, <1>2, SignalledCases

Wakeups == WaitingCount /\ WorkConserving

LEMMA WakeupsInit == Init => Wakeups
<1> SUFFICES ASSUME Init PROVE Wakeups
  OBVIOUS
<1>1. Asleep = {} /\ Woken = {} /\ waiting_threads = 0 BY DEF Init, Asleep, Woken
<1> QED BY <1>1, FS_EmptySet DEF Wakeups, WaitingCount, WorkConserving

LEMMA WakeupsNext == CInv /\ Wakeups /\ [Next]_vars => Wakeups'
<1> SUFFICES ASSUME CInv, Wakeups, [Next]_vars PROVE Wakeups'
  OBVIOUS
<1> USE DEF CInv, Wakeups, WaitingCount, WorkConserving
<1>a. /\ Cardinality(Asleep) \in Nat /\ (Cardinality(Asleep) = 0 <=> Asleep = {})
      /\ Cardinality(Woken) \in Nat /\ Cardinality(Coming) \in Nat
      /\ ntasks \in Nat /\ waiting_threads \in Int
  BY CensusNat DEF Shape
<1>b. wpc' = wpc => UNCHANGED <<Asleep, Woken, Coming>>
  BY DEF Asleep, Woken, Coming
<1>1. CASE SubmitPush
  <2> USE <1>1 DEF SubmitPush, SubmitSignals
  <2>1. ntasks' = ntasks + 1 /\ UNCHANGED <<waiting_threads, abort_threads>>
    OBVIOUS
  <2>2. CASE waiting_threads > 0
    <3>1. (Asleep = {} /\ wpc' = wpc) \/ \E v \in Worker : Wakes(v)
      BY <2>2, SignalCensus
    <3> QED BY <3>1, <2>1, <1>a, <1>b DEF Wakes
  <2>3. CASE ~(waiting_threads > 0)
    <3>1. Asleep = {} /\ wpc' = wpc BY <2>3, <1>a
    <3> QED BY <3>1, <2>1, <1>a, <1>b
  <2> QED BY <2>2, <2>3
<1>2. CASE EndAbort
  <2>1. abort_threads' = TRUE /\ waiting_threads' = waiting_threads BY <1>2 DEF EndAbort
  <2>2. (Asleep = {} /\ wpc' = wpc) \/ \E v \in Worker : Wakes(v)
    BY <1>2, SignalCensus DEF EndAbort
  <2> QED BY <2>1, <2>2, <1>a, <1>b DEF Wakes
<1>3. CASE EndJoin
  <2>1. Asleep = {} /\ Woken = {} /\ Asleep' = {} /\ Woken' = {}
    BY <1>3 DEF EndJoin, Asleep, Woken
  <2> QED BY <2>1, <1>3, FS_EmptySet DEF EndJoin
<1>4. CASE ThreadpoolInit
  <2>1. Asleep = {} /\ Woken = {} /\ Asleep' = {} /\ Woken' = {}
    BY <1>4 DEF ThreadpoolInit, Asleep, Woken, Control
  <2> QED BY <2>1, <1>4, FS_EmptySet DEF ThreadpoolInit
<1>5. ASSUME NEW w \in Worker, Lock(w) \/ Relock(w) \/ Work(w) \/ Publish(w) PROVE Wakeups'
  <2>1. UNCHANGED <<Asleep, Woken, Coming, ntasks, waiting_threads, abort_threads>>
    BY <1>5 DEF Lock, Relock, WorkerTakes, Work, Publish, Asleep, Woken, Coming, Shape, statics
  <2> QED BY <2>1
<1>6. ASSUME NEW w \in Worker, Rewait(w) PROVE Wakeups'
  <2>1. Woken' = Woken \ {w} /\ w \in Woken /\ Woken \in SUBSET Worker
    BY <1>6 DEF Rewait, WorkerTakes, Woken, Shape
  <2>2. UNCHANGED <<Asleep, Coming, ntasks, abort_threads>>
    BY <1>6 DEF Rewait, WorkerTakes, Asleep, Coming, Shape
  <2>3. Cardinality(Woken') = Cardinality(Woken) - 1 BY <2>1, WorkersCount
  <2>4. waiting_threads' = waiting_threads - 1 BY <1>6 DEF Rewait
  <2> QED BY <2>2, <2>3, <2>4, <1>a
<1>7. ASSUME NEW w \in Worker, Sleep(w) PROVE Wakeups'
  <2>1. Asleep' = Asleep \cup {w} /\ w \in Worker \ Asleep /\ Asleep \in SUBSET Worker
    BY <1>7 DEF Sleep, Asleep, Shape
  <2>2. Woken' = Woken /\ Coming' \in SUBSET Worker
    BY <1>7 DEF Sleep, Woken, Coming, Shape
  <2>3. Cardinality(Asleep') = Cardinality(Asleep) + 1 /\ Cardinality(Coming') \in Nat
    BY <2>1, <2>2, WorkersCount
  <2>4. waiting_threads' = waiting_threads + 1 /\ ntasks' = 0 BY <1>7 DEF Sleep
  <2> QED BY <2>2, <2>3, <2>4, <1>a
<1>8. ASSUME NEW w \in Worker, SpuriousWakeup(w) PROVE Wakeups'
  <2>1. Wakes(w) BY <1>8, WakeCensus DEF SpuriousWakeup
  <2>2. UNCHANGED <<ntasks, waiting_threads, abort_threads>> BY <1>8 DEF SpuriousWakeup, statics
  <2> QED BY <2>1, <2>2, <1>a DEF Wakes
<1>9. ASSUME NEW w \in Worker, Quit(w) PROVE Wakeups'
  <2>1. PICK g : g = [wpc EXCEPT ![w] = "exit"]
    OBVIOUS
  <2>2. wpc[w] = "test" /\ abort_threads /\ abort_threads' = abort_threads
        /\ waiting_threads' = waiting_threads
    BY <1>9 DEF Quit, statics
  <2>3. CASE wpc' = g
    <3>1. UNCHANGED <<Asleep, Woken>> BY <2>1, <2>2, <2>3 DEF Asleep, Woken, Shape
    <3> QED BY <3>1, <2>2
  <2>4. CASE \E v \in Worker : g[v] = "asleep" /\ wpc' = [g EXCEPT ![v] = "woken"]
    <3>1. PICK v \in Worker : g[v] = "asleep" /\ wpc' = [g EXCEPT ![v] = "woken"]
      BY <2>4
    <3>2. Asleep' = Asleep \ {v} /\ v \in Asleep /\ Asleep \in SUBSET Worker
      BY <2>1, <2>2, <3>1 DEF Asleep, Shape
    <3>3. Woken' = Woken \cup {v} /\ v \in Worker \ Woken /\ Woken \in SUBSET Worker
      BY <2>1, <2>2, <3>1 DEF Woken, Shape
    <3>4. Cardinality(Asleep') = Cardinality(Asleep) - 1
          /\ Cardinality(Woken') = Cardinality(Woken) + 1
      BY <3>2, <3>3, WorkersCount
    <3> QED BY <3>4, <2>2, <1>a
  <2> QED BY <1>9, <2>1, <2>3, <2>4, SignalledCases DEF Quit
<1>10. ASSUME NEW w \in Worker, Take(w) PROVE Wakeups'
  <2>1. Coming' = Coming \ {w} /\ w \in Coming /\ Coming \in SUBSET Worker
    BY <1>10 DEF Take, Coming, Shape
  <2>2. UNCHANGED <<Asleep, Woken, waiting_threads, abort_threads>>
    BY <1>10 DEF Take, Asleep, Woken, Shape
  <2>3. Cardinality(Coming') = Cardinality(Coming) - 1 BY <2>1, WorkersCount
  <2>4. ntasks' = ntasks - 1 BY <1>10 DEF Take
  <2> QED BY <2>2, <2>3, <2>4, <1>a
<1>11. ASSUME NEW w \in Worker, Send(w) PROVE Wakeups'
  <2>1. Coming' = Coming \cup {w} /\ w \in Worker \ Coming /\ Coming \in SUBSET Worker
    BY <1>11 DEF Send, Coming, Shape
  <2>2. UNCHANGED <<Asleep, Woken, ntasks, waiting_threads, abort_threads>>
    BY <1>11 DEF Send, Asleep, Woken, Shape, statics
  <2>3. Cardinality(Coming') = Cardinality(Coming) + 1 BY <2>1, WorkersCount
  <2> QED BY <2>2, <2>3, <1>a
<1>12. CASE UNCHANGED <<wpc, ntasks, waiting_threads, abort_threads>>
  BY <1>12, <1>b
<1>13. CASE UNCHANGED vars BY <1>12, <1>13 DEF vars, statics, workVars
<1>14. CASE MainSystem
  BY <1>1, <1>2, <1>3, <1>12, <1>14 DEF MainSystem, ThreadpoolEnd, LoopTest, Poll, Dispatch,
     TickEnd, NotifierRead, Drain, DrainWith, DoneCall, DonesEnd, MainGoes, statics, workVars
<1>15. CASE MainLocks
  BY <1>12, <1>15 DEF MainLocks, SubmitLock, DrainLock, EndLock, MainTakes, statics, workVars
<1>16. CASE MainUser
  BY <1>4, <1>12, <1>16 DEF MainUser, RunLoop, DoneReturn, IoReturn, OpenHandle, CloseHandle,
     SubmitCount, MainGoes, statics, workVars
<1>17. ASSUME NEW w \in Worker, WorkerLocks(w) \/ WorkerRuns(w) \/ SpuriousWakeup(w)
       PROVE Wakeups'
  BY <1>5, <1>6, <1>7, <1>8, <1>9, <1>10, <1>11, <1>17 DEF WorkerLocks, WorkerRuns
<1> QED BY <1>13, <1>14, <1>15, <1>16, <1>17 DEF Next

-----------------------------------------------------------------------------
(* The notification of the loop and the end of the pool. *)

LEMMA NotificationInit == Init => NoLostNotification
  BY DEF Init, NoLostNotification

LEMMA NotificationNext == CInv /\ NoLostNotification /\ [Next]_vars => NoLostNotification'
<1> SUFFICES ASSUME CInv, NoLostNotification, [Next]_vars PROVE NoLostNotification'
  OBVIOUS
<1> USE DEF CInv, NoLostNotification, ctxVars, workVars, mainVars
<1>1. CASE NotifierRead BY <1>1 DEF NotifierRead
<1>2. CASE Drain BY <1>2 DEF Drain, DrainWith
<1>3. CASE DrainLock BY <1>3 DEF DrainLock, MainTakes
<1>4. CASE EndAbort \/ SubmitPush
  <2>1. /\ wpc' \in Signalled(wpc) \/ wpc' = wpc
        /\ mpc \notin {"drainlock", "drain"} /\ UNCHANGED <<finished_tasks, efd>>
    BY <1>4 DEF EndAbort, SubmitPush
  <2>2. \A w \in Worker : wpc[w] = "send" => wpc'[w] = "send"
    BY <2>1, SignalledCases DEF Shape
  <2> QED BY <2>1, <2>2
<1>5. CASE EndJoin \/ ThreadpoolInit
  BY <1>5 DEF EndJoin, ThreadpoolInit, Control
<1>6. ASSUME NEW w \in Worker, Publish(w) PROVE NoLostNotification'
  BY <1>6 DEF Publish, Shape
<1>7. ASSUME NEW w \in Worker, Send(w) PROVE NoLostNotification'
  BY <1>7 DEF Send, Control
<1>8. ASSUME NEW w \in Worker, Quit(w) PROVE NoLostNotification'
  <2>1. PICK g : g = [wpc EXCEPT ![w] = "exit"]
    OBVIOUS
  <2>2. wpc[w] = "test" /\ wpc' \in Signalled(g) BY <1>8, <2>1 DEF Quit
  <2>3. wpc' = g \/ \E v \in Worker : g[v] = "asleep" /\ wpc' = [g EXCEPT ![v] = "woken"]
    BY <2>2, SignalledCases
  <2>4. \A v \in Worker : wpc[v] = "send" => wpc'[v] = "send"
    BY <2>1, <2>2, <2>3 DEF Shape
  <2> QED BY <2>4, <1>8 DEF Quit
<1>9. ASSUME NEW w \in Worker, WorkerLocks(w) \/ Sleep(w) \/ Take(w) \/ Work(w) \/ SpuriousWakeup(w)
      PROVE NoLostNotification'
  <2>1. UNCHANGED <<finished_tasks, efd, mpc>>
    BY <1>9 DEF WorkerLocks, Lock, Rewait, Relock, WorkerTakes, Sleep, Take, Work, SpuriousWakeup
  <2>2. \A v \in Worker : wpc[v] = "send" => wpc'[v] = "send"
    BY <1>9 DEF WorkerLocks, Lock, Rewait, Relock, WorkerTakes, Sleep, Take, Work, SpuriousWakeup, Shape
  <2> QED BY <2>1, <2>2
<1>10. CASE /\ UNCHANGED <<finished_tasks, efd, wpc>>
            /\ mpc \in {"drainlock", "drain"} => mpc' = mpc
  BY <1>10
<1>11. CASE UNCHANGED vars BY <1>10, <1>11 DEF vars
<1>12. CASE MainSystem
  BY <1>1, <1>2, <1>4, <1>5, <1>10, <1>12 DEF MainSystem, ThreadpoolEnd, LoopTest, Poll, Dispatch,
     TickEnd, DoneCall, DonesEnd, MainGoes
<1>13. CASE MainLocks
  BY <1>3, <1>10, <1>13 DEF MainLocks, SubmitLock, EndLock, MainTakes
<1>14. CASE MainUser
  BY <1>5, <1>10, <1>14 DEF MainUser, RunLoop, DoneReturn, IoReturn, OpenHandle, CloseHandle,
     SubmitCount, MainGoes, UserPc
<1>15. ASSUME NEW w \in Worker, WorkerLocks(w) \/ WorkerRuns(w) \/ SpuriousWakeup(w)
       PROVE NoLostNotification'
  BY <1>6, <1>7, <1>8, <1>9, <1>15 DEF WorkerRuns
<1> QED BY <1>11, <1>12, <1>13, <1>14, <1>15 DEF Next

(* No handle and no task holds the loop while it returns and the pool ends. *)
EndIdle == Ending => refs = 0

LEMMA EndIdleNext == CInv /\ RefsCount /\ EndIdle /\ [Next]_vars => EndIdle'
<1> SUFFICES ASSUME CInv, RefsCount, EndIdle, [Next]_vars PROVE EndIdle'
  OBVIOUS
<1> USE DEF EndIdle, Ending
<1>1. CASE LoopTest
  <2>1. refs \in Nat BY OutstandingNat, HandlesAssumption DEF RefsCount, CInv, Shape
  <2> QED BY <2>1, <1>1 DEF LoopTest, MainGoes, ctxVars
<1>2. CASE SubmitPush \/ SubmitLock
  BY <1>2 DEF SubmitPush, SubmitLock, MainTakes, CInv, Shape, UserPc
<1>3. ASSUME MainSystem \/ MainLocks \/ MainUser PROVE EndIdle'
  BY <1>1, <1>2, <1>3 DEF MainSystem, MainLocks, MainUser, ThreadpoolEnd, EndAbort, EndJoin, Poll,
     Dispatch, TickEnd, NotifierRead, Drain, DrainWith, DoneCall, DonesEnd, DrainLock, EndLock,
     ThreadpoolInit, RunLoop, DoneReturn, IoReturn, OpenHandle, CloseHandle, SubmitCount,
     MainGoes, MainTakes, UserPc, ctxVars
<1>4. ASSUME NEW w \in Worker, WorkerLocks(w) \/ WorkerRuns(w) \/ SpuriousWakeup(w) PROVE EndIdle'
  BY <1>4 DEF WorkerLocks, WorkerRuns, Lock, Rewait, Relock, WorkerTakes, Sleep, Quit, Take, Work,
     Publish, Send, SpuriousWakeup, ctxVars
<1> QED BY <1>3, <1>4 DEF Next, vars, ctxVars

LEMMA SignalChainNext == CInv /\ SignalChain /\ [Next]_vars => SignalChain'
<1> SUFFICES ASSUME CInv, SignalChain, [Next]_vars PROVE SignalChain'
  OBVIOUS
<1> USE DEF CInv, SignalChain, Asleep
<1>1. CASE EndAbort
  <2>1. CASE {w \in Worker : wpc[w] = "asleep"} = {} /\ wpc' = wpc
    BY <2>1
  <2>2. CASE \E v \in Worker : wpc[v] = "asleep" /\ wpc' = [wpc EXCEPT ![v] = "woken"]
    BY <2>2 DEF Shape
  <2> QED BY <1>1, <2>1, <2>2, SignalledCases DEF EndAbort
<1>2. ASSUME NEW w \in Worker, Quit(w) PROVE SignalChain'
  <2>1. PICK g : g = [wpc EXCEPT ![w] = "exit"]
    OBVIOUS
  <2>2. CASE {v \in Worker : g[v] = "asleep"} = {} /\ wpc' = g
    BY <2>2
  <2>3. CASE \E v \in Worker : g[v] = "asleep" /\ wpc' = [g EXCEPT ![v] = "woken"]
    BY <2>1, <2>3 DEF Shape
  <2>4. wpc' \in Signalled(g) BY <1>2, <2>1 DEF Quit
  <2> HIDE DEF SignalChain
  <2> QED BY <2>2, <2>3, <2>4, SignalledCases
<1>3. ASSUME NEW w \in Worker, WorkerLocks(w) \/ WorkerRuns(w) \/ SpuriousWakeup(w),
             ~Quit(w)
      PROVE  SignalChain'
  <2>1. mpc' = mpc
    BY <1>3 DEF WorkerLocks, WorkerRuns, Lock, Rewait, Relock, WorkerTakes, Sleep, Take, Work,
       Publish, Send, SpuriousWakeup
  <2>2. CASE mpc # "join" BY <2>1, <2>2
  <2>3. CASE mpc = "join"
    <3>1. abort_threads BY <2>3 DEF Control
    <3>2. wpc'[w] \notin {"asleep", "exit", "none"}
      BY <1>3, <3>1 DEF WorkerLocks, WorkerRuns, Lock, Rewait, Relock, WorkerTakes, Sleep, Take,
         Work, Publish, Send, SpuriousWakeup, Shape
    <3> QED BY <3>2
  <2> QED BY <2>2, <2>3
<1>4. CASE mpc' # "join" BY <1>4
<1>5. CASE UNCHANGED <<mpc, wpc>> BY <1>5
<1>6. CASE SubmitPush \/ SubmitLock
  BY <1>4, <1>6 DEF SubmitPush, SubmitLock, MainTakes, Shape, UserPc
<1>7. ASSUME MainSystem \/ MainLocks \/ MainUser PROVE SignalChain'
  BY <1>1, <1>4, <1>5, <1>6, <1>7 DEF MainSystem, MainLocks, MainUser, ThreadpoolEnd, EndJoin,
     LoopTest, Poll, Dispatch, TickEnd, NotifierRead, Drain, DrainWith, DoneCall, DonesEnd,
     DrainLock, EndLock, ThreadpoolInit, RunLoop, DoneReturn, IoReturn, OpenHandle, CloseHandle,
     SubmitCount, MainGoes, MainTakes, UserPc, workVars
<1> QED BY <1>2, <1>3, <1>5, <1>7 DEF Next, vars, workVars

-----------------------------------------------------------------------------
(* Queues: what an append and a tail do to the elements of a sequence. *)

LEMMA AppendElems ==
  ASSUME NEW S, NEW s \in Seq(S), NEW x \in S
  PROVE  /\ Elems(Append(s, x)) = Elems(s) \cup {x}
         /\ Injective(s) /\ x \notin Elems(s) => Injective(Append(s, x))
<1> DEFINE a == Append(s, x)
<1>1. /\ DOMAIN s = 1..Len(s) /\ Len(s) \in Nat /\ DOMAIN a = 1..(Len(s) + 1)
      /\ a[Len(s) + 1] = x /\ \A i \in 1..Len(s) : a[i] = s[i]
  OBVIOUS
<1> HIDE DEF a
<1>2. Elems(a) = Elems(s) \cup {x}
  <2>1. \A e \in Elems(a) : e \in Elems(s) \cup {x} BY <1>1 DEF Elems
  <2>2. \A e \in Elems(s) \cup {x} : e \in Elems(a) BY <1>1 DEF Elems
  <2> QED BY <2>1, <2>2
<1>3. Injective(s) /\ x \notin Elems(s) => Injective(a) BY <1>1 DEF Elems, Injective
<1> QED BY <1>2, <1>3 DEF a

LEMMA TailElems ==
  ASSUME NEW S, NEW s \in Seq(S), s # <<>>
  PROVE  /\ Head(s) \in S /\ Tail(s) \in Seq(S)
         /\ Elems(s) = Elems(Tail(s)) \cup {Head(s)}
         /\ Injective(s) => Injective(Tail(s)) /\ Head(s) \notin Elems(Tail(s))
<1> DEFINE r == Tail(s)
<1>1. /\ DOMAIN s = 1..Len(s) /\ Len(s) \in Nat /\ Len(s) > 0 /\ DOMAIN r = 1..(Len(s) - 1)
      /\ s[1] = Head(s) /\ \A i \in 1..(Len(s) - 1) : r[i] = s[i + 1]
  OBVIOUS
<1>2. Head(s) \in S /\ Tail(s) \in Seq(S) OBVIOUS
<1> HIDE DEF r
<1>3. Elems(s) = Elems(r) \cup {Head(s)}
  <2>1. \A i \in 1..Len(s) : i = 1 \/ (i - 1 \in 1..(Len(s) - 1) /\ r[i - 1] = s[i])
    BY <1>1
  <2>2. \A e \in Elems(s) : e \in Elems(r) \cup {Head(s)} BY <1>1, <2>1 DEF Elems
  <2>3. \A e \in Elems(r) \cup {Head(s)} : e \in Elems(s) BY <1>1 DEF Elems
  <2> QED BY <2>2, <2>3
<1>4. ASSUME Injective(s) PROVE Injective(r) /\ Head(s) \notin Elems(r)
  <2>1. \A i \in DOMAIN r : i + 1 \in DOMAIN s /\ r[i] = s[i + 1] /\ i + 1 # 1 BY <1>1
  <2>2. Injective(r)
    <3> SUFFICES ASSUME NEW i \in DOMAIN r, NEW j \in DOMAIN r, r[i] = r[j] PROVE i = j
      BY DEF Injective
    <3>1. i + 1 = j + 1 BY <1>4, <2>1 DEF Injective
    <3> QED BY <3>1, <1>1
  <2>3. Head(s) \notin Elems(r)
    <3> SUFFICES ASSUME NEW i \in DOMAIN r, r[i] = s[1] PROVE FALSE
      BY <1>1 DEF Elems
    <3>1. 1 \in DOMAIN s BY <1>1
    <3> QED BY <1>4, <2>1, <3>1 DEF Injective
  <2> QED BY <2>2, <2>3
<1> QED BY <1>2, <1>3, <1>4 DEF r

WorkedOn == {wtask[w] : w \in Busy}

LEMMA OnePlaceInit == Init => OnePlace
  BY DEF Init, OnePlace, Injective, Elems, Busy

LEMMA OnePlaceNext == CInv /\ OnePlace /\ [Next]_vars => OnePlace'
<1> SUFFICES ASSUME CInv, OnePlace, [Next]_vars PROVE OnePlace'
  OBVIOUS
<1> USE TaskAssumption
<1> USE DEF CInv, statics, ctxVars, workVars, mainVars
<1>a. /\ tasks \in Seq(Task) /\ finished_tasks \in Seq(Task) /\ tasks_done \in Seq(Task)
      /\ wtask \in [Worker -> Task \cup {None}] /\ pending \in Task \cup {None}
  BY DEF Shape
<1>b. wtask' = wtask => Busy' = Busy BY DEF Busy
<1>1. ASSUME NEW t \in Task, SubmitCount(t) PROVE OnePlace'
  BY <1>1, <1>b DEF SubmitCount, InPool, OnePlace
<1>2. CASE SubmitPush
  <2>1. pending \in Task BY <1>2, <1>a DEF SubmitPush, Control, InSubmit
  <2>2. /\ Elems(tasks') = Elems(tasks) \cup {pending}
        /\ Injective(tasks) /\ pending \notin Elems(tasks) => Injective(tasks')
    BY <1>2, <1>a, <2>1, AppendElems DEF SubmitPush
  <2>3. UNCHANGED <<finished_tasks, tasks_done, wtask, Busy>> /\ pending' = None
    BY <1>2, <1>b DEF SubmitPush
  <2> QED BY <2>1, <2>2, <2>3 DEF OnePlace
<1>3. ASSUME NEW w \in Worker, Take(w) PROVE OnePlace'
  <2>1. tasks # <<>> BY <1>3 DEF Take, Control
  <2>2. /\ Head(tasks) \in Task /\ Elems(tasks) = Elems(tasks') \cup {Head(tasks)}
        /\ Injective(tasks) => Injective(tasks') /\ Head(tasks) \notin Elems(tasks')
    BY <1>3, <1>a, <2>1, TailElems DEF Take
  <2>3. /\ w \notin Busy /\ Busy' = Busy \cup {w} /\ wtask'[w] = Head(tasks)
        /\ \A v \in Busy : wtask'[v] = wtask[v]
    BY <1>3, <1>a, <2>2 DEF Take, Busy, Control
  <2>4. UNCHANGED <<finished_tasks, tasks_done, pending>> BY <1>3 DEF Take
  <2>5. pending # None => pending \notin Elems(tasks') /\ pending # Head(tasks)
    BY <2>2 DEF OnePlace
  <2> QED BY <2>2, <2>3, <2>4, <2>5 DEF OnePlace
<1>4. ASSUME NEW w \in Worker, Publish(w) PROVE OnePlace'
  <2>1. w \in Busy /\ wtask[w] \in Task BY <1>4, <1>a DEF Publish, Busy, Control
  <2>2. /\ Elems(finished_tasks') = Elems(finished_tasks) \cup {wtask[w]}
        /\ Injective(finished_tasks) /\ wtask[w] \notin Elems(finished_tasks)
             => Injective(finished_tasks')
    BY <1>4, <1>a, <2>1, AppendElems DEF Publish
  <2>3. Busy' = Busy \ {w} /\ \A v \in Busy' : wtask'[v] = wtask[v]
    BY <1>4, <1>a DEF Publish, Busy
  <2>4. UNCHANGED <<tasks, tasks_done, pending>> BY <1>4 DEF Publish
  <2> QED BY <2>1, <2>2, <2>3, <2>4 DEF OnePlace
<1>5. CASE Drain
  <2>1. Elems(<<>>) = {} /\ Injective(<<>>) BY DEF Elems, Injective
  <2>2. tasks_done' = finished_tasks /\ finished_tasks' = <<>>
        /\ UNCHANGED <<tasks, pending, wtask, Busy>>
    BY <1>5, <1>b DEF Drain, DrainWith
  <2> QED BY <2>1, <2>2 DEF OnePlace
<1>6. CASE DoneCall
  <2>1. /\ Elems(tasks_done) = Elems(tasks_done') \cup {Head(tasks_done)}
        /\ Injective(tasks_done) => Injective(tasks_done')
    BY <1>6, <1>a, TailElems DEF DoneCall
  <2>2. UNCHANGED <<tasks, finished_tasks, pending, wtask, Busy>> BY <1>6, <1>b DEF DoneCall
  <2> QED BY <2>1, <2>2 DEF OnePlace
<1>7. CASE UNCHANGED <<tasks, finished_tasks, tasks_done, wtask, pending>>
  BY <1>7, <1>b DEF OnePlace
<1>8. CASE UNCHANGED vars BY <1>7, <1>8 DEF vars
<1>9. CASE MainSystem
  BY <1>2, <1>5, <1>6, <1>7, <1>9 DEF MainSystem, ThreadpoolEnd, EndAbort, EndJoin, LoopTest, Poll,
     Dispatch, TickEnd, NotifierRead, DonesEnd, MainGoes
<1>10. CASE MainLocks
  BY <1>7, <1>10 DEF MainLocks, SubmitLock, DrainLock, EndLock, MainTakes
<1>11. CASE MainUser
  BY <1>1, <1>7, <1>11 DEF MainUser, ThreadpoolInit, RunLoop, DoneReturn, IoReturn, OpenHandle,
     CloseHandle, MainGoes
<1>12. ASSUME NEW w \in Worker, WorkerLocks(w) \/ WorkerRuns(w) \/ SpuriousWakeup(w)
       PROVE OnePlace'
  BY <1>3, <1>4, <1>7, <1>12 DEF WorkerLocks, WorkerRuns, Lock, Rewait, Relock, WorkerTakes, Sleep,
     Quit, Work, Send, SpuriousWakeup
<1> QED BY <1>8, <1>9, <1>10, <1>11, <1>12 DEF Next

-----------------------------------------------------------------------------
(* The inductive invariant, and what follows from it. *)

PoolInv ==
  /\ CInv
  /\ RefsCount
  /\ Wakeups
  /\ NoLostNotification
  /\ EndIdle
  /\ SignalChain
  /\ OnePlace

LEMMA PoolInvariant == Spec => []PoolInv
<1>1. Init => PoolInv
  <2>1. Init => EndIdle /\ SignalChain BY DEF Init, EndIdle, Ending, SignalChain
  <2> QED
    BY <2>1, ControlInit, RefsInit, WakeupsInit, NotificationInit, OnePlaceInit DEF PoolInv
<1>2. PoolInv /\ [Next]_vars => PoolInv'
  BY ControlNext, RefsNext, WakeupsNext, NotificationNext, EndIdleNext, SignalChainNext, OnePlaceNext
  DEF PoolInv
<1> QED BY <1>1, <1>2, PTL DEF Spec

(* Every variable keeps its type, and the unsigned counters never go below
   zero: no path of threadpool.c decrements refs or waiting_threads without
   having incremented it. *)
THEOREM PoolTypeCorrect == Spec => []TypeOK
<1>1. PoolInv => TypeOK
  <2> SUFFICES ASSUME PoolInv PROVE TypeOK
    OBVIOUS
  <2>1. Shape BY DEF PoolInv, CInv
  <2>2. refs \in Nat
    BY <2>1, OutstandingNat, HandlesAssumption DEF PoolInv, RefsCount, Shape
  <2>3. waiting_threads \in Nat BY <2>1, CensusNat DEF PoolInv, Wakeups, WaitingCount
  <2> QED BY <2>1, <2>2, <2>3 DEF TypeOK
<1> QED BY <1>1, PoolInvariant, PTL

(* The mutex is held by the thread inside a critical section and by no other. *)
THEOREM PoolMutualExclusion == Spec => []MutualExclusion
<1>1. PoolInv => MutualExclusion BY DEF PoolInv, CInv
<1> QED BY <1>1, PoolInvariant, PTL

(* No thread uses the mutex and the condition between the end of a pool and
   the next init: a submit and the loop find the pool there, and every worker
   has left. *)
THEOREM PoolNoUseAfterDestroy == Spec => []NoUseAfterDestroy
<1>1. PoolInv => NoUseAfterDestroy
  BY DEF PoolInv, CInv, Control, NoUseAfterDestroy, InSubmit
<1> QED BY <1>1, PoolInvariant, PTL

(* ctx->refs counts the open handles and the unfinished tasks, so the loop
   returns, and the pool is ended, only when no task is left. *)
THEOREM PoolRefs == Spec => [](RefsCount /\ QuiescentEnd)
<1>1. PoolInv => RefsCount /\ QuiescentEnd
  <2> SUFFICES ASSUME PoolInv PROVE RefsCount /\ QuiescentEnd
    OBVIOUS
  <2>1. Outstanding \in Nat /\ handles \in Nat
    BY OutstandingNat, HandlesAssumption DEF PoolInv, CInv, Shape
  <2> QED BY <2>1 DEF PoolInv, RefsCount, QuiescentEnd, EndIdle, Ending
<1> QED BY <1>1, PoolInvariant, PTL

(* No wake-up of the loop is lost for a finished task, whatever wrote and
   drained the eventfd in between. *)
THEOREM PoolNoLostWakeup == Spec => []NoLostNotification
<1>1. PoolInv => NoLostNotification BY DEF PoolInv
<1> QED BY <1>1, PoolInvariant, PTL

(* No wake-up of a worker is lost for a queued task, though submit signals only
   when waiting_threads, which counts the sleepers and the woken, is not 0. *)
THEOREM PoolWorkConserving == Spec => [](WaitingCount /\ WorkConserving)
<1>1. PoolInv => WaitingCount /\ WorkConserving BY DEF PoolInv, Wakeups
<1> QED BY <1>1, PoolInvariant, PTL

(* The one signal of pd_threadpool_end reaches every worker: one that leaves
   passes it on, so that a sleeper is left over only while one is on its way. *)
THEOREM PoolSignalChain == Spec => []SignalChain
<1>1. PoolInv => SignalChain BY DEF PoolInv
<1> QED BY <1>1, PoolInvariant, PTL

(* No queue node is linked twice: a task is in one place at a time. *)
THEOREM PoolOnePlace == Spec => []OnePlace
<1>1. PoolInv => OnePlace BY DEF PoolInv
<1> QED BY <1>1, PoolInvariant, PTL

-----------------------------------------------------------------------------
(* The refinement: the queues of the loop and of the pool are one service. *)

Looping ==
  \/ mpc \in {"loop", "poll", "dispatch", "read", "drainlock", "drain", "dones", "cb", "iocb"}
  \/ InSubmit /\ ret # "script"

Delivery == tasks_done \o finished_tasks

abstract == <<tasks, WorkedOn, Delivery, calling, Looping>>

LEMMA ConcatFacts ==
  ASSUME NEW S, NEW s \in Seq(S), NEW r \in Seq(S)
  PROVE  /\ Elems(s \o r) \subseteq Elems(s) \cup Elems(r)
         /\ \A x \in S : Append(s \o r, x) = s \o Append(r, x)
         /\ <<>> \o s = s /\ s \o <<>> = s
         /\ s # <<>> => /\ s \o r # <<>>
                       /\ Head(s \o r) = Head(s)
                       /\ Tail(s \o r) = Tail(s) \o r
<1>1. /\ DOMAIN (s \o r) = 1..(Len(s) + Len(r)) /\ Len(s) \in Nat /\ Len(r) \in Nat
      /\ DOMAIN s = 1..Len(s) /\ DOMAIN r = 1..Len(r)
      /\ \A i \in 1..Len(s) : (s \o r)[i] = s[i]
      /\ \A i \in (Len(s) + 1)..(Len(s) + Len(r)) : (s \o r)[i] = r[i - Len(s)] /\ i - Len(s) \in 1..Len(r)
  OBVIOUS
<1>2. Elems(s \o r) \subseteq Elems(s) \cup Elems(r)
  <2> SUFFICES ASSUME NEW i \in 1..(Len(s) + Len(r))
               PROVE  (s \o r)[i] \in Elems(s) \cup Elems(r)
    BY <1>1 DEF Elems
  <2>1. CASE i \in 1..Len(s) BY <2>1, <1>1 DEF Elems
  <2>2. CASE i \in (Len(s) + 1)..(Len(s) + Len(r)) BY <2>2, <1>1 DEF Elems
  <2> QED BY <2>1, <2>2, <1>1
<1>3. \A x \in S : Append(s \o r, x) = s \o Append(r, x) OBVIOUS
<1>4. <<>> \o s = s /\ s \o <<>> = s OBVIOUS
<1>5. s # <<>> => s \o r # <<>> /\ Head(s \o r) = Head(s) /\ Tail(s \o r) = Tail(s) \o r
  OBVIOUS
<1> QED BY <1>2, <1>3, <1>4, <1>5

LEMMA ServiceInit == Init => Service!Init
<1> SUFFICES ASSUME Init PROVE Service!Init
  OBVIOUS
<1>1. WorkedOn = {} BY DEF Init, WorkedOn, Busy
<1>2. <<>> \o <<>> = <<>> OBVIOUS
<1> QED BY <1>1, <1>2 DEF Init, Service!Init, WorkedOn

LEMMA ServiceStep == PoolInv /\ [Next]_vars => [Service!Next]_(Service!serviceVars)
<1> SUFFICES ASSUME PoolInv, [Next]_vars PROVE Service!Next \/ UNCHANGED abstract
  BY DEF abstract, Looping, InSubmit, Delivery, WorkedOn, Service!serviceVars
<1> USE TaskAssumption
<1> USE DEF statics, ctxVars, workVars, mainVars, abstract
<1>a. /\ tasks \in Seq(Task) /\ finished_tasks \in Seq(Task) /\ tasks_done \in Seq(Task)
      /\ wtask \in [Worker -> Task \cup {None}] /\ pending \in Task \cup {None}
      /\ Control /\ OnePlace
  BY DEF PoolInv, CInv, Shape
<1>b. wtask' = wtask => WorkedOn' = WorkedOn BY DEF Busy, WorkedOn
<1>c. UNCHANGED <<tasks_done, finished_tasks>> => Delivery' = Delivery BY DEF Delivery
<1>1. CASE SubmitPush
  <2>1. pending \in Task BY <1>1, <1>a DEF SubmitPush, Control, InSubmit
  <2>2. pending \notin Elems(tasks) \cup WorkedOn \cup Elems(Delivery)
    BY <2>1, <1>a, ConcatFacts DEF OnePlace, WorkedOn, Delivery
  <2>3. tasks' = Append(tasks, pending) /\ UNCHANGED <<WorkedOn, Delivery, calling>>
    BY <1>1, <1>b, <1>c DEF SubmitPush
  <2>4. UNCHANGED Looping
    BY <1>1 DEF SubmitPush, Looping, InSubmit, PoolInv, CInv, Shape, UserPc
  <2>5. Service!Submit(pending)
    BY <2>2, <2>3, <2>4 DEF Service!Submit, Service!ElemsOf, Elems, WorkedOn, Delivery, Looping, InSubmit
  <2> QED BY <2>1, <2>5 DEF Service!Next
<1>2. ASSUME NEW w \in Worker, Take(w) PROVE Service!Next
  <2>1. tasks # <<>> BY <1>2, <1>a DEF Take, Control
  <2>2. Head(tasks) \in Task /\ Head(tasks) \in Elems(tasks) BY <2>1, <1>a, TailElems
  <2>3. Head(tasks) \notin WorkedOn BY <2>2, <1>a DEF OnePlace, WorkedOn
  <2>4. /\ w \notin Busy /\ Busy' = Busy \cup {w} /\ wtask'[w] = Head(tasks)
        /\ \A v \in Busy : wtask'[v] = wtask[v]
    BY <1>2, <1>a, <2>2 DEF Take, Busy, Control
  <2>5. WorkedOn' = WorkedOn \cup {Head(tasks)} BY <2>4 DEF WorkedOn
  <2>6. tasks' = Tail(tasks) /\ UNCHANGED <<Delivery, calling>> BY <1>2, <1>c DEF Take
  <2>7. UNCHANGED Looping BY <1>2 DEF Take, Looping, InSubmit
  <2>8. Service!Begin
    BY <2>1, <2>3, <2>5, <2>6, <2>7 DEF Service!Begin, WorkedOn, Delivery, Looping, InSubmit
  <2> QED BY <2>8 DEF Service!Next
<1>3. ASSUME NEW w \in Worker, Publish(w) PROVE Service!Next
  <2>1. w \in Busy /\ wtask[w] \in Task BY <1>3, <1>a DEF Publish, Busy, Control
  <2>2. Busy' = Busy \ {w} /\ \A v \in Busy' : wtask'[v] = wtask[v]
    BY <1>3, <1>a DEF Publish, Busy
  <2>3. wtask[w] \in WorkedOn /\ WorkedOn' = WorkedOn \ {wtask[w]}
    BY <2>1, <2>2, <1>a, SMTT(30) DEF WorkedOn, OnePlace
  <2>4. Delivery' = Append(Delivery, wtask[w])
    BY <1>3, <2>1, <1>a, ConcatFacts, SMTT(30) DEF Publish, Delivery
  <2>5. UNCHANGED <<tasks, calling>> BY <1>3 DEF Publish
  <2>6. UNCHANGED Looping BY <1>3 DEF Publish, Looping, InSubmit
  <2>7. PICK t \in Task : t = wtask[w] BY <2>1
  <2>8. Service!Finish(t)
    BY <2>3, <2>4, <2>5, <2>6, <2>7 DEF Service!Finish, WorkedOn, Delivery, Looping, InSubmit
  <2> QED BY <2>8 DEF Service!Next
<1>4. CASE Drain
  <2>1. tasks_done = <<>> BY <1>4, <1>a DEF Drain, DrainWith, Control, InDone, InSubmit
  <2>2. Delivery' = Delivery BY <1>4, <2>1, <1>a, ConcatFacts DEF Drain, DrainWith, Delivery
  <2>3. UNCHANGED <<tasks, WorkedOn, calling>> BY <1>4, <1>b, SMTT(30) DEF Drain, DrainWith
  <2>4. UNCHANGED Looping BY <1>4 DEF Drain, DrainWith, Looping, InSubmit
  <2> QED BY <2>2, <2>3, <2>4
<1>5. CASE DoneCall
  <2>1. calling = None BY <1>5, <1>a DEF DoneCall, Control, InDone, InSubmit
  <2>2. Delivery # <<>> /\ calling' = Head(Delivery) /\ Delivery' = Tail(Delivery)
    BY <1>5, <1>a, ConcatFacts, SMTT(30) DEF DoneCall, Delivery
  <2>3. UNCHANGED <<tasks, WorkedOn>> BY <1>5, <1>b DEF DoneCall
  <2>4. Looping /\ UNCHANGED Looping BY <1>5 DEF DoneCall, Looping, InSubmit
  <2>5. Service!Deliver
    BY <2>1, <2>2, <2>3, <2>4 DEF Service!Deliver, WorkedOn, Delivery, Looping, InSubmit
  <2> QED BY <2>5 DEF Service!Next
<1>6. CASE DoneReturn
  <2>1. calling # None /\ calling' = None BY <1>6, <1>a DEF DoneReturn, Control, InDone
  <2>2. UNCHANGED <<tasks, WorkedOn, Delivery>> BY <1>6, <1>b, <1>c DEF DoneReturn
  <2>3. UNCHANGED Looping BY <1>6 DEF DoneReturn, Looping, InSubmit
  <2>4. Service!Return
    BY <2>1, <2>2, <2>3 DEF Service!Return, WorkedOn, Delivery, Looping, InSubmit
  <2> QED BY <2>4 DEF Service!Next
<1>7. CASE RunLoop
  <2>1. UNCHANGED <<tasks, WorkedOn, Delivery, calling>>
    BY <1>7, <1>b, <1>c DEF RunLoop, MainGoes
  <2>2. ~Looping /\ Looping' BY <1>7 DEF RunLoop, MainGoes, Looping, InSubmit
  <2>3. Service!Enter
    BY <2>1, <2>2 DEF Service!Enter, WorkedOn, Delivery, Looping, InSubmit
  <2> QED BY <2>3 DEF Service!Next
<1>8. CASE LoopTest
  <2>1. UNCHANGED <<tasks, WorkedOn, Delivery, calling>>
    BY <1>8, <1>b, <1>c DEF LoopTest, MainGoes
  <2>2. CASE refs > 0
    <3>1. UNCHANGED Looping BY <1>8, <2>2 DEF LoopTest, MainGoes, Looping, InSubmit
    <3> QED BY <2>1, <3>1
  <2>3. CASE ~(refs > 0)
    <3>1. Outstanding = 0
      BY <2>3, OutstandingNat, HandlesAssumption DEF PoolInv, CInv, Shape, RefsCount
    <3>2. tasks = <<>> /\ WorkedOn = {} /\ Delivery = <<>> /\ calling = None
      BY <3>1, <1>a, OutstandingNat, ConcatFacts DEF PoolInv, CInv, WorkedOn, Delivery
    <3>3. Looping /\ ~Looping' BY <1>8, <2>3 DEF LoopTest, MainGoes, Looping, InSubmit
    <3>4. Service!Leave
      BY <2>1, <3>2, <3>3 DEF Service!Leave, WorkedOn, Delivery, Looping, InSubmit
    <3> QED BY <3>4 DEF Service!Next
  <2> QED BY <2>2, <2>3
<1>9. ASSUME UNCHANGED <<tasks, wtask, tasks_done, finished_tasks, calling>>, Looping' = Looping
      PROVE  UNCHANGED abstract
  BY <1>9, <1>b, <1>c
<1>10. CASE UNCHANGED vars BY <1>9, <1>10 DEF vars, Looping, InSubmit
<1>11. ASSUME MainSystem PROVE Service!Next \/ UNCHANGED abstract
  <2>1. CASE ThreadpoolEnd \/ EndAbort \/ EndJoin \/ Poll \/ Dispatch \/ TickEnd \/ NotifierRead \/ DonesEnd
    BY <2>1, <1>9 DEF ThreadpoolEnd, EndAbort, EndJoin, Poll, Dispatch, TickEnd, NotifierRead,
       DonesEnd, MainGoes, Looping, InSubmit
  <2> QED BY <1>1, <1>4, <1>5, <1>8, <1>11, <2>1 DEF MainSystem
<1>12. CASE MainLocks
  BY <1>9, <1>12 DEF MainLocks, SubmitLock, DrainLock, EndLock, MainTakes, Looping, InSubmit
<1>13. ASSUME MainUser PROVE Service!Next \/ UNCHANGED abstract
  <2>1. CASE ThreadpoolInit \/ IoReturn \/ OpenHandle \/ CloseHandle
    BY <2>1, <1>9 DEF ThreadpoolInit, IoReturn, OpenHandle, CloseHandle, MainGoes, Looping, InSubmit
  <2>2. ASSUME NEW t \in Task, SubmitCount(t) PROVE UNCHANGED abstract
    BY <2>2, <1>9 DEF SubmitCount, Looping, InSubmit, UserPc
  <2> QED BY <1>6, <1>7, <1>13, <2>1, <2>2 DEF MainUser
<1>14. ASSUME NEW w \in Worker, WorkerLocks(w) \/ WorkerRuns(w) \/ SpuriousWakeup(w)
       PROVE Service!Next \/ UNCHANGED abstract
  <2>1. CASE WorkerLocks(w) \/ Sleep(w) \/ Quit(w) \/ Work(w) \/ Send(w) \/ SpuriousWakeup(w)
    BY <2>1, <1>9 DEF WorkerLocks, Lock, Rewait, Relock, WorkerTakes, Sleep, Quit, Work, Send,
       SpuriousWakeup, Looping, InSubmit
  <2> QED BY <1>2, <1>3, <1>14, <2>1 DEF WorkerRuns
<1> QED BY <1>10, <1>11, <1>12, <1>13, <1>14 DEF Next

(* The pool implements TaskService: every task accepted is begun in submission
   order, delivered once and in the order of finishing, inside the loop, and
   the loop does not return before. *)
THEOREM PoolImplementsService == Spec => ImplementsService
<1>1. Init => Service!Init BY ServiceInit
<1>2. PoolInv /\ [Next]_vars => [Service!Next]_(Service!serviceVars) BY ServiceStep
<1> QED BY <1>1, <1>2, PoolInvariant, PTL DEF Spec, ImplementsService, Service!Spec
=============================================================================
