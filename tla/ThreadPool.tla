----------------------------- MODULE ThreadPool -----------------------------
(***************************************************************************)
(* The thread pool of pandio (deps/pandio/src/threadpool.c) with the part  *)
(* of the event loop that delivers its results (notifier_unix.c,           *)
(* event_epoll.c).  The main thread submits tasks, runs the loop and calls *)
(* the done callbacks; the workers share the task queue, its counters, one *)
(* mutex and one condition variable.                                       *)
(*                                                                         *)
(* A thread is a program counter.  A critical section is two steps: taking *)
(* the mutex, and its body, which ends by releasing it.  The eventfd and   *)
(* ctx->refs are used outside the mutex, as in the code.                   *)
(***************************************************************************)
EXTENDS Integers, Sequences, FiniteSets

CONSTANTS
  Worker,      \* the threads pd_threadpool_init creates
  Task,        \* the pd_task_t structures of the program
  Main,        \* the thread of the event loop
  None,
  MaxHandles   \* bound on the other handles (timers, streams) that hold a ref

ASSUME WorkerAssumption == IsFiniteSet(Worker) /\ Worker # {}
ASSUME ThreadAssumption == Main \notin Worker /\ None \notin Worker /\ Main # None
ASSUME TaskAssumption == None \notin Task
ASSUME HandlesAssumption == MaxHandles \in Nat

VARIABLES
  \* statics of threadpool.c
  running,          \* nthreads # 0
  tasks,            \* queue of submitted tasks
  ntasks,
  waiting_threads,
  abort_threads,
  mux,              \* the thread that holds the mutex, or None
  \* fields of pd_io_t
  finished_tasks,   \* queue from the workers to the loop
  task_signaled,
  refs,
  efd,              \* the eventfd of task_signal is readable
  handles,          \* the other handles counted in refs
  \* threads
  wpc, wtask,       \* per worker: where it is, the task it took
  mpc,              \* where the main thread is
  ret,              \* where pd_task_submit returns to
  pending,          \* the task inside pd_task_submit, or None
  batch,            \* events epoll_wait returned and not yet dispatched
  tasks_done,       \* local queue of pd__task_done
  calling           \* the task whose done callback is running, or None

statics  == <<running, tasks, ntasks, waiting_threads, abort_threads>>
ctxVars  == <<finished_tasks, task_signaled, refs, efd, handles>>
workVars == <<wpc, wtask>>
mainVars == <<ret, pending, batch, tasks_done, calling>>
vars == <<statics, mux, ctxVars, workVars, mpc, mainVars>>

-----------------------------------------------------------------------------
Elems(s) == {s[i] : i \in DOMAIN s}

Busy == {w \in Worker : wtask[w] # None}

(* The tasks whose queue node is linked somewhere, or that a worker runs. *)
InPool == Elems(tasks) \cup {wtask[w] : w \in Busy}
            \cup Elems(finished_tasks) \cup Elems(tasks_done) \cup ({pending} \ {None})

(* The main thread runs code of the program: the script before the loop, a
   done callback, or a callback of another handle. *)
UserPc == {"script", "cb", "iocb"}
MainPc == UserPc \cup {"sublock", "subpush", "loop", "poll", "dispatch", "read", "drainlock",
                       "drain", "dones", "returned", "endlock", "endabort", "join"}
WorkerPc == {"none", "lock", "test", "asleep", "woken", "work", "relock", "publish", "send", "exit"}

(* pd_cond_signal wakes one sleeper, if there is one. *)
Signalled(f) ==
  LET asleep == {w \in Worker : f[w] = "asleep"}
  IN  IF asleep = {} THEN {f} ELSE {[f EXCEPT ![w] = "woken"] : w \in asleep}

(* The main thread, or a worker, takes the mutex and changes nothing else. *)
MainTakes(from, to) ==
  /\ mpc = from /\ mux = None
  /\ mux' = Main /\ mpc' = to
  /\ UNCHANGED <<statics, ctxVars, workVars, mainVars>>

WorkerTakes(w, from, to) ==
  /\ wpc[w] = from /\ mux = None
  /\ mux' = w /\ wpc' = [wpc EXCEPT ![w] = to]
  /\ UNCHANGED <<running, tasks, ntasks, abort_threads, ctxVars, wtask, mpc, mainVars>>

MainGoes(from, to) ==
  /\ mpc = from /\ mpc' = to
  /\ UNCHANGED <<statics, mux, ctxVars, workVars, mainVars>>

Init ==
  /\ running = FALSE /\ tasks = <<>> /\ ntasks = 0 /\ waiting_threads = 0
  /\ abort_threads = FALSE /\ mux = None
  /\ finished_tasks = <<>> /\ task_signaled = FALSE /\ refs = 0 /\ efd = FALSE /\ handles = 0
  /\ wpc = [w \in Worker |-> "none"] /\ wtask = [w \in Worker |-> None]
  /\ mpc = "script" /\ ret = "script" /\ pending = None /\ batch = {}
  /\ tasks_done = <<>> /\ calling = None

-----------------------------------------------------------------------------
(* The main thread: starting and ending the pool. *)

ThreadpoolInit ==
  /\ mpc = "script" /\ ~running
  /\ abort_threads' = FALSE /\ running' = TRUE
  /\ wpc' = [w \in Worker |-> "lock"]
  /\ UNCHANGED <<tasks, ntasks, waiting_threads, mux, ctxVars, wtask, mpc, mainVars>>

(* pd_threadpool_end, called once pd_io_run has returned (core/pand.cc:70). *)
ThreadpoolEnd == MainGoes("returned", IF running THEN "endlock" ELSE "script")

EndLock == MainTakes("endlock", "endabort")

MutantEndWithoutSignal ==
  /\ mpc = "endabort" /\ mpc' = "join"
  /\ abort_threads' = TRUE /\ mux' = None
  /\ UNCHANGED <<running, tasks, ntasks, waiting_threads, ctxVars, workVars, mainVars>>

EndAbort ==
  /\ mpc = "endabort" /\ mpc' = "join"
  /\ abort_threads' = TRUE
  /\ wpc' \in Signalled(wpc)
  /\ mux' = None
  /\ UNCHANGED <<running, tasks, ntasks, waiting_threads, ctxVars, wtask, mainVars>>

(* Every pd_thread_join has returned; the mutex and the condition go away. *)
EndJoin ==
  /\ mpc = "join" /\ mpc' = "script"
  /\ \A w \in Worker : wpc[w] = "exit"
  /\ running' = FALSE
  /\ wpc' = [w \in Worker |-> "none"]
  /\ UNCHANGED <<tasks, ntasks, waiting_threads, abort_threads, mux, ctxVars, wtask, mainVars>>

-----------------------------------------------------------------------------
(* The main thread: pd_task_submit.  A task may be submitted when its queue
   node is free; from its own done callback it may be submitted again. *)

MutantAccepts == ~abort_threads

Accepts == ~abort_threads /\ running

(* When the pool does not accept, submit returns PD_ECANCELED and changes
   nothing. *)
SubmitCount(t) ==
  /\ mpc \in UserPc /\ t \notin InPool
  /\ Accepts
  /\ refs' = refs + 1
  /\ pending' = t /\ ret' = mpc /\ mpc' = "sublock"
  /\ UNCHANGED <<statics, mux, finished_tasks, task_signaled, efd, handles, workVars,
                 batch, tasks_done, calling>>

SubmitLock == MainTakes("sublock", "subpush")

MutantSubmitSignals == ntasks = 0

SubmitSignals == waiting_threads > 0

SubmitPush ==
  /\ mpc = "subpush" /\ mpc' = ret
  /\ tasks' = Append(tasks, pending) /\ ntasks' = ntasks + 1
  /\ wpc' \in IF SubmitSignals THEN Signalled(wpc) ELSE {wpc}
  /\ mux' = None /\ pending' = None
  /\ UNCHANGED <<running, waiting_threads, abort_threads, ctxVars, wtask,
                 ret, batch, tasks_done, calling>>

-----------------------------------------------------------------------------
(* A worker: pd__threadpool_exec. *)

Lock(w) == WorkerTakes(w, "lock", "test") /\ UNCHANGED waiting_threads

(* pd_cond_wait: give up the mutex and fall asleep, in one step. *)
Sleep(w) ==
  /\ wpc[w] = "test" /\ ntasks = 0 /\ ~abort_threads
  /\ waiting_threads' = waiting_threads + 1
  /\ mux' = None
  /\ wpc' = [wpc EXCEPT ![w] = "asleep"]
  /\ UNCHANGED <<running, tasks, ntasks, abort_threads, ctxVars, wtask, mpc, mainVars>>

(* A wait may also return without a signal. *)
SpuriousWakeup(w) ==
  /\ wpc[w] = "asleep"
  /\ wpc' = [wpc EXCEPT ![w] = "woken"]
  /\ UNCHANGED <<statics, mux, ctxVars, wtask, mpc, mainVars>>

Rewait(w) == WorkerTakes(w, "woken", "test") /\ waiting_threads' = waiting_threads - 1

MutantQuitKeepsMutex(w) ==
  /\ wpc[w] = "test" /\ abort_threads
  /\ wpc' \in Signalled([wpc EXCEPT ![w] = "exit"])
  /\ UNCHANGED <<statics, mux, ctxVars, wtask, mpc, mainVars>>

(* On abort a worker passes the signal on and leaves. *)
Quit(w) ==
  /\ wpc[w] = "test" /\ abort_threads
  /\ wpc' \in Signalled([wpc EXCEPT ![w] = "exit"])
  /\ mux' = None
  /\ UNCHANGED <<statics, ctxVars, wtask, mpc, mainVars>>

Take(w) ==
  /\ wpc[w] = "test" /\ ~abort_threads /\ ntasks # 0
  /\ wtask' = [wtask EXCEPT ![w] = Head(tasks)]
  /\ tasks' = Tail(tasks) /\ ntasks' = ntasks - 1
  /\ mux' = None
  /\ wpc' = [wpc EXCEPT ![w] = "work"]
  /\ UNCHANGED <<running, waiting_threads, abort_threads, ctxVars, mpc, mainVars>>

(* task->work returns; it runs outside the mutex. *)
Work(w) ==
  /\ wpc[w] = "work"
  /\ wpc' = [wpc EXCEPT ![w] = "relock"]
  /\ UNCHANGED <<statics, mux, ctxVars, wtask, mpc, mainVars>>

Relock(w) == WorkerTakes(w, "relock", "publish") /\ UNCHANGED waiting_threads

MutantPublishFirst(w) ==
  /\ wpc[w] = "publish"
  /\ finished_tasks' = <<wtask[w]>> \o finished_tasks
  /\ wtask' = [wtask EXCEPT ![w] = None]
  /\ wpc' = [wpc EXCEPT ![w] = "send"]
  /\ UNCHANGED <<statics, mux, task_signaled, refs, efd, handles, mpc, mainVars>>

Publish(w) ==
  /\ wpc[w] = "publish"
  /\ finished_tasks' = Append(finished_tasks, wtask[w])
  /\ wtask' = [wtask EXCEPT ![w] = None]
  /\ wpc' = [wpc EXCEPT ![w] = "send"]
  /\ UNCHANGED <<statics, mux, task_signaled, refs, efd, handles, mpc, mainVars>>

(* pd_notifier_send, still inside the critical section, and its end. *)
Send(w) ==
  /\ wpc[w] = "send"
  /\ efd' = (efd \/ ~task_signaled)
  /\ mux' = None
  /\ wpc' = [wpc EXCEPT ![w] = "lock"]
  /\ UNCHANGED <<statics, finished_tasks, task_signaled, refs, handles, wtask, mpc, mainVars>>

-----------------------------------------------------------------------------
(* The main thread: the loop, the notifier and pd__task_done. *)

(* Pand::run enters the loop with the pool that Pand::Pand started.  A program
   that does so without one breaks pd__task_done: a wake-up that the pool before
   has left in the eventfd sends it to a mutex that is destroyed. *)
RunLoop == running /\ MainGoes("script", "loop")

LoopTest == MainGoes("loop", IF refs > 0 THEN "poll" ELSE "returned")

(* epoll_wait returns with every ready event: the notifier's when the eventfd
   is readable, and another handle's when the program has one. *)
Poll ==
  /\ mpc = "poll" /\ mpc' = "dispatch"
  /\ \E io \in SUBSET (IF handles > 0 THEN {"io"} ELSE {}) :
       batch' = io \cup (IF efd THEN {"task"} ELSE {})
  /\ batch' # {}
  /\ UNCHANGED <<statics, mux, ctxVars, workVars, ret, pending, tasks_done, calling>>

Dispatch ==
  /\ mpc = "dispatch"
  /\ \E e \in batch :
       /\ batch' = batch \ {e}
       /\ mpc' = IF e = "task" THEN "read" ELSE "iocb"
  /\ UNCHANGED <<statics, mux, ctxVars, workVars, ret, pending, tasks_done, calling>>

TickEnd == batch = {} /\ MainGoes("dispatch", "loop")

(* pd__notifier_io: the read takes the whole count of the eventfd; a failed
   read calls nothing. *)
NotifierRead ==
  /\ mpc = "read" /\ mpc' = IF efd THEN "drainlock" ELSE "dispatch"
  /\ efd' = FALSE
  /\ UNCHANGED <<statics, mux, finished_tasks, task_signaled, refs, handles, workVars, mainVars>>

DrainLock == MainTakes("drainlock", "drain")

DrainWith(local, left, signaled) ==
  /\ mpc = "drain" /\ mpc' = "dones"
  /\ tasks_done' = local /\ finished_tasks' = left /\ task_signaled' = signaled
  /\ mux' = None
  /\ UNCHANGED <<statics, refs, efd, handles, workVars, ret, pending, batch, calling>>

MutantDrainKeeps == DrainWith(finished_tasks, finished_tasks, FALSE)

MutantDrainOne ==
  DrainWith(SubSeq(finished_tasks, 1, 1), SubSeq(finished_tasks, 2, Len(finished_tasks)), FALSE)

MutantDrainSignaled == DrainWith(finished_tasks, <<>>, TRUE)

Drain == DrainWith(finished_tasks, <<>>, FALSE)

DoneCall ==
  /\ mpc = "dones" /\ mpc' = "cb"
  /\ tasks_done # <<>>
  /\ calling' = Head(tasks_done) /\ tasks_done' = Tail(tasks_done)
  /\ UNCHANGED <<statics, mux, ctxVars, workVars, ret, pending, batch>>

MutantDoneReturn ==
  /\ mpc = "cb" /\ mpc' = "dones" /\ calling' = None
  /\ UNCHANGED <<statics, mux, ctxVars, workVars, ret, pending, batch, tasks_done>>

DoneReturn ==
  /\ mpc = "cb" /\ mpc' = "dones"
  /\ calling' = None /\ refs' = refs - 1
  /\ UNCHANGED <<statics, mux, finished_tasks, task_signaled, efd, handles, workVars,
                 ret, pending, batch, tasks_done>>

DonesEnd == tasks_done = <<>> /\ MainGoes("dones", "dispatch")

IoReturn == MainGoes("iocb", "dispatch")

(* The program starts or stops another handle. *)
OpenHandle ==
  /\ mpc \in UserPc /\ handles < MaxHandles
  /\ handles' = handles + 1 /\ refs' = refs + 1
  /\ UNCHANGED <<statics, mux, finished_tasks, task_signaled, efd, workVars, mpc, mainVars>>

CloseHandle ==
  /\ mpc \in UserPc /\ handles > 0
  /\ handles' = handles - 1 /\ refs' = refs - 1
  /\ UNCHANGED <<statics, mux, finished_tasks, task_signaled, efd, workVars, mpc, mainVars>>

-----------------------------------------------------------------------------
(* Every step of the main thread that is not a choice of the program. *)
MainSystem ==
  \/ ThreadpoolEnd \/ EndAbort \/ EndJoin
  \/ SubmitPush \/ LoopTest \/ Poll \/ Dispatch \/ TickEnd
  \/ NotifierRead \/ Drain \/ DoneCall \/ DonesEnd

MainLocks == SubmitLock \/ DrainLock \/ EndLock

MainUser ==
  \/ ThreadpoolInit \/ RunLoop \/ DoneReturn \/ IoReturn \/ OpenHandle \/ CloseHandle
  \/ \E t \in Task : SubmitCount(t)

WorkerLocks(w) == Lock(w) \/ Rewait(w) \/ Relock(w)

WorkerRuns(w) == Sleep(w) \/ Quit(w) \/ Take(w) \/ Work(w) \/ Publish(w) \/ Send(w)

Next ==
  \/ MainSystem \/ MainLocks \/ MainUser
  \/ \E w \in Worker : WorkerLocks(w) \/ WorkerRuns(w) \/ SpuriousWakeup(w)

Spec == Init /\ [][Next]_vars

(* Threads run on, work functions and callbacks return, the script ends by
   running the loop; a thread that waits for the mutex gets it in the end.
   Nothing makes the program submit, or makes another handle ready. *)
Fairness ==
  /\ WF_vars(MainSystem) /\ SF_vars(MainLocks)
  /\ WF_vars(RunLoop) /\ WF_vars(DoneReturn) /\ WF_vars(IoReturn)
  /\ \A w \in Worker : WF_vars(WorkerRuns(w)) /\ SF_vars(WorkerLocks(w))

LiveSpec == Spec /\ Fairness

-----------------------------------------------------------------------------
Shape ==
  /\ running \in BOOLEAN /\ abort_threads \in BOOLEAN
  /\ tasks \in Seq(Task) /\ finished_tasks \in Seq(Task) /\ tasks_done \in Seq(Task)
  /\ ntasks \in Nat /\ waiting_threads \in Int
  /\ mux \in Worker \cup {Main, None}
  /\ task_signaled \in BOOLEAN /\ efd \in BOOLEAN
  /\ refs \in Int /\ handles \in 0..MaxHandles
  /\ wpc \in [Worker -> WorkerPc] /\ wtask \in [Worker -> Task \cup {None}]
  /\ mpc \in MainPc /\ ret \in UserPc
  /\ pending \in Task \cup {None} /\ calling \in Task \cup {None}
  /\ batch \in SUBSET {"task", "io"}

(* Every variable has its type; the unsigned counters ctx->refs and
   waiting_threads, which are decremented far from where they are incremented,
   never wrap below zero. *)
TypeOK == Shape /\ refs \in Nat /\ waiting_threads \in Nat

InCritical(w) == wpc[w] \in {"test", "publish", "send"}
MainInCritical == mpc \in {"subpush", "drain", "endabort"}

(* The mutex is held by exactly the thread that is between pd_mutex_lock and
   pd_mutex_unlock: every unlock of threadpool.c, that of an early exit
   included, releases what its own thread took. *)
MutualExclusion ==
  /\ \A w \in Worker : InCritical(w) <=> mux = w
  /\ MainInCritical <=> mux = Main

(* The mutex and the condition are not used while they do not exist: without a
   pool no thread of it is left, and the main thread is not about to lock them
   or inside a critical section: not in pd_task_submit, pd_threadpool_end or
   pd__task_done. *)
NoUseAfterDestroy ==
  ~running =>
    /\ \A w \in Worker : wpc[w] = "none"
    /\ mpc \notin {"sublock", "subpush", "endlock", "endabort", "drainlock", "drain"}

Injective(s) == \A i, j \in DOMAIN s : s[i] = s[j] => i = j

(* A task is in one place at a time: a queue node is never linked into a queue
   while another queue, a worker or a submit still uses it. *)
OnePlace ==
  /\ Injective(tasks) /\ Injective(finished_tasks) /\ Injective(tasks_done)
  /\ Elems(tasks) \cap (Elems(finished_tasks) \cup Elems(tasks_done)) = {}
  /\ Elems(finished_tasks) \cap Elems(tasks_done) = {}
  /\ \A w \in Busy :
       /\ wtask[w] \notin Elems(tasks) \cup Elems(finished_tasks) \cup Elems(tasks_done)
       /\ \A v \in Busy : wtask[v] = wtask[w] => v = w
  /\ pending # None =>
       pending \notin Elems(tasks) \cup {wtask[w] : w \in Busy}
                        \cup Elems(finished_tasks) \cup Elems(tasks_done)

One(x) == IF x = None THEN 0 ELSE 1

Outstanding ==
  Len(tasks) + Cardinality(Busy) + Len(finished_tasks) + Len(tasks_done) + One(pending) + One(calling)

(* ctx->refs counts exactly the open handles and the tasks whose done callback
   has not returned, wherever the workers have them. *)
RefsCount == refs = handles + Outstanding

(* The loop returns to pd_threadpool_end only when no task is left anywhere. *)
QuiescentEnd ==
  mpc \in {"returned", "endlock", "endabort", "join"} => Outstanding = 0

(* No finished task sits in finished_tasks without a wake-up on its way: the
   eventfd is readable, a worker is about to write it, or the loop has read it
   and not drained the queue yet. *)
NoLostNotification ==
  finished_tasks # <<>> =>
    \/ efd
    \/ \E w \in Worker : wpc[w] = "send"
    \/ mpc \in {"drainlock", "drain"}

Asleep == {w \in Worker : wpc[w] = "asleep"}
Woken  == {w \in Worker : wpc[w] = "woken"}
Coming == {w \in Worker : wpc[w] \in {"lock", "woken", "test"}}

(* waiting_threads counts the threads inside pd_cond_wait, so that submit's
   test of it never skips a signal somebody waits for. *)
WaitingCount == waiting_threads = Cardinality(Asleep) + Cardinality(Woken)

(* A worker sleeps only if the queued tasks have each an awake worker coming
   for them: no wake-up is lost although submit signals conditionally. *)
WorkConserving ==
  Asleep # {} /\ ~abort_threads => ntasks <= Cardinality(Coming)

(* While the main thread joins, a sleeping worker has an awake one that will
   pass the signal on: pd_threadpool_end signals once, for all of them. *)
SignalChain ==
  mpc = "join" /\ Asleep # {} =>
    \E w \in Worker : wpc[w] \notin {"asleep", "exit", "none"}

(* A task that was accepted has its done callback called. *)
EveryTaskDone ==
  \A t \in Task : (t \in InPool) ~> (calling = t)

(* pd_threadpool_end returns: all its joins succeed. *)
EndReturns == (mpc = "endlock") ~> (mpc = "script")

(* The pool keeps the promise of TaskService: what the loop and the workers do
   to the three queues looks, to the program, like one ordered task service. *)
Service == INSTANCE TaskService WITH
  queue <- tasks,
  working <- {wtask[w] : w \in Busy},
  finished <- tasks_done \o finished_tasks,
  looping <- \/ mpc \in {"loop", "poll", "dispatch", "read", "drainlock", "drain", "dones", "cb", "iocb"}
             \/ mpc \in {"sublock", "subpush"} /\ ret # "script"

ImplementsService == Service!Spec
=============================================================================
