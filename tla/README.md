# Verification of pand and pandio

pand is a small JavaScript runtime: V8, bindings in C++ (`core/`), a standard
library in JavaScript (`js/`), and pandio (`deps/pandio/`), the project's own C
library for timers, TCP, a thread pool and files under one event loop. The
logic that is hard to get right is in pandio, where callbacks call back into
the library, worker threads meet the loop, and the kernel reuses descriptor
numbers. This directory models that logic in TLA+, checks it with TLC and
proves what matters most with TLAPS. Paths below are relative to the
repository; the Linux build is the one modelled.

## The system

| part | state | operations | who calls whom |
|---|---|---|---|
| Event loop, `pandio/src/sys/event_epoll.c` | `refs`, `now`, the epoll set, `pending_closes`, `after_tick` | `pd_io_init`, `pd_io_run`, `pd__event_add/set/del` | calls every handler, then due timers, then close callbacks, then `after_tick`; runs while `refs > 0` |
| Timers, `pandio/src/timers.c`, over the heap, `include/pandio/heap.h` | per timer `active`, `timeout`, `interval`; an intrusive binary heap | start, repeat, stop, run, next | the loop sleeps for `pd_timers_next`; callbacks start and stop timers while `pd_timers_run` runs |
| Thread pool, `pandio/src/threadpool.c` | queue, two counters, abort flag, mutex, condition; `finished_tasks` and an eventfd towards the loop | init, submit, end, the worker loop, `pd__task_done` | workers wake the loop through the notifier; the loop calls the done callbacks |
| TCP streams, `pandio/src/sys/tcp_unix.c` | per stream `status`, handler, flags, descriptor, queue of writes | connect, accept, write, pause, resume, shutdown, close; two handlers | any callback may call any operation on any stream |
| TCP listener, same file | status, descriptor | listen, close, handler | hands descriptors to `pd_tcp_accept` |
| File operations, `pandio/src/sys/fs_unix.c`, `core/fs.cc`, `js/fs.js` | per operation its result; per file `fd`, `isClosing`, `isClosed` | open, read, write, stat, close | each is a task of the pool that settles a promise |
| Timer binding, `core/timer.cc`, `js/bootstrap.js` | table of ids, one object per timer | `setTimeout`, `setInterval`, `clear` | over the timers |
| Socket binding, `core/tcp.cc`, `core/tcp_server.cc`, `core/writer.h`, `js/net.js` | socket state, queue of readers and their promises | connect, read, write, shutdown, destroy, listen | over the streams |
| Module loader, `core/loader.cc` | two caches | static import, dynamic import | called by V8 |
| Errors, `core/errors.cc` | table of rejected promises | V8's notification, `after_tick` | called by V8 and the loop |
| Start and stop, `core/pand.cc` | the one loop | constructor, `run` | pool init, script, loop, pool end |

The rest (buffers, transcoding, `path.js`, `inspect.js`, random numbers, error
tables, shared libraries) is pure or a thin wrapper. ada, fmt, simdutf and
sqlite are vendored. kqueue and Windows have files of their own beside the
Linux ones.

What is hard: the pool's conditional signal and its shutdown by a chain of
signals; results that cross two queues under running callbacks; a timer that is
stopped or started inside its own callback; unsigned time differences; a heap of
linked nodes; a stream closed by a callback in the middle of the code that
called it; events of a batch that outlive their stream; descriptor numbers that
come back for another stream; partial writes, and a shutdown that waits for
them; system calls of one file that run on different workers while it is
closed. `hazards` in PROJECT.json lists them line by line, with the property that
is there for each.

What makes each part correct, in a line:

- loop: it runs exactly while something can still happen (`RefsCount`, `QuiescentEnd`, `TimerRefs`, `StreamRefs`), and waits only when it may (`SleepBound`, `NoWaitOnClose`);
- pool: each accepted task is worked on once and delivered once, in order, and every worker leaves in the end (`TaskService`, `EveryTaskDone`, `EndReturns`);
- timers: each fires, a wait is late only by callbacks and interrupted waits, each stays stopped, repeats (`Fires`, `StaysStopped`, `IntervalKeeps`), over a heap that is one (`CompleteTree`, `HeapOrder`, `TimerSet`);
- streams: each write has one callback and its bytes in order, each stream one on_close, and no event reaches another stream (`EachWriteOnce`, `WireOrder`, `ClosingOnce`, `EventsReachOwner`);
- files: a system call meets the descriptor of its own file, a finished operation a File that still exists, and `readFile` leaves nothing open (`OwnDescriptor`, `FileLives`, `ReadFileCloses`);
- timer binding: the table of ids, the heap and the C++ objects agree, and a cleared timer is silent (`TimerObjects`, `ClearedSilent`);
- sockets: the C++ object lives as long as the loop may call it back, each promise of `connect` and `read` is answered to a program that keeps to the rules, each close is told (`StreamLife`, `ConnectAnswered`, `ReadsServed`, `ClosesTold`);
- loader and errors: the two tables agree, an import gets the module it named, exactly the unhandled rejections end the program, and the exit status says so (`CachesAgree`, `RightModule`, `PendingExact`, `ExitStatus`, `CleanExit`).

## Modules

| module | models | kind |
|---|---|---|
| `TaskService` | what the pool promises the loop's thread, without threads | abstract specification |
| `ThreadPool` | `threadpool.c`, `notifier_unix.c` and the loop around them | specification |
| `ThreadPoolProofs` | invariants of `ThreadPool`, and that it implements `TaskService` | proofs |
| `TimerSet` | an ordered set of timers | abstract specification |
| `TimerHeap` | `heap.h` as `timers.c` uses it | specification, implements `TimerSet` |
| `TimerHeapProofs` | the tree, its order, and that `TimerHeap` implements `TimerSet` | proofs |
| `Timers` | `timers.c` and the loop that runs it, over the ordered set | specification |
| `TimersProofs` | invariants of `Timers` | proofs |
| `TcpStream` | the streams of `tcp_unix.c`, epoll and the loop | specification |
| `TcpStreamProofs` | invariants of `TcpStream` | proofs |
| `FsOps` | `fs_unix.c`, `core/fs.cc` and `js/fs.js`, over `TaskService` | specification |
| `FsOpsProofs` | what a client of `TaskService` may build on, and invariants of `FsOps` | proofs |
| `TimerBinding` | `core/timer.cc` and `js/bootstrap.js`, over `Timers` | composition |
| `TimerBindingProofs` | invariants of `TimerBinding`, on `TimersProofs` | proofs |
| `NetSocket` | `js/net.js`, `core/tcp.cc`, `core/tcp_server.cc`, `core/writer.h`, over `TcpStream` | composition |
| `NetSocketProofs` | invariants of `NetSocket`, on `TcpStreamProofs` | proofs |
| `Errors` | `rejected_promises` of `core/errors.cc` | part of `Loader` |
| `Loader` | `core/loader.cc`, and from `core/pand.cc` and `runtime.cc` the life of a program | specification |
| `LoaderProofs` | invariants of `Loader`, and which paths never share a url | proofs |
| `MC*` | small values for the constants | TLC |

### ThreadPool

A thread is a program counter: `mpc` for the loop's thread, `wpc[w]` per worker.
A critical section is two steps, taking the mutex and the body that ends by
releasing it; a worker that publishes a result has three, since the eventfd,
which it writes before it unlocks, is visible outside the mutex. `pd_cond_wait`
releases the mutex and falls asleep at once; a sleeper is woken by a signal or,
as POSIX allows, by nothing. The main thread's steps follow `Pand::run`: init,
script, `pd_io_run`, `pd_threadpool_end`, in a circle, so that the pool is
started and ended again. `pd_io_run` is entered with a pool, as `Pand::run` does:
an eventfd that the pool before has left readable would send `pd__task_done` to a
destroyed mutex. Tasks are submitted from the script, from done
callbacks (the callback's own task included) and from other callbacks; a task
whose node is linked somewhere is not submitted, as its memory is in use.
`handles` stands for everything else that counts in `ctx->refs`.

`ImplementsService` maps the three queues and the tasks in the workers' hands to
the state of `TaskService`: `finished` is `tasks_done \o finished_tasks`, and a
task being submitted is not yet in `queue`, so that the order of the promise is
the order of the critical sections.

### TimerHeap and Timers

`TimerHeap` is the code's pointers: a record of three functions, left, right and
parent, the root and the size. Each loop of the code is a recursive function
that applies its body until it stops, and `Swap` keeps the order of the code's
assignments, on which its handling of neighbours depends. `TimerSet` is what
`timers.c` needs of it: after each operation the root is an earliest timer.

`Timers` therefore takes some earliest timer where the code takes the root. Time
is relative to `ctx->now`, so that it needs no bound: `due[t]` is
`timeout - now`, `lag` is what `ctx->now` is late by. `sleep` is the value that
`pd_timers_next` returned, made from an unsigned difference by `Clamp`; `Width`
stands for 2^64, `IntMax` for INT_MAX. Time passes in callbacks and in
`epoll_wait`, which may end at the timeout, by an event, or by a signal.

The code does not support everything a program may do, and the properties that
depend on it are stated for a careful program (`Careful`): it does not stop a
repeating timer inside that timer's own callback, does not start as one-shot
a timer that used to repeat, and asks for no interval of 0, which the code takes
for that of a one-shot timer. `TimerCleared` shows what the first comes to in a script.

`ctx->now` is read once an iteration, so that a loop with slow callbacks cannot
be on time: a timer started late in a callback counts its delay from an old
clock, and the wait is computed from the same one. `SleepBound` says how late
a wait can be for a timer in real time: `sleep - slept` is what is left of the
wait, `due - lag` what is left of the delay, and the difference is at most the
lag that callbacks may have built up and the waits that signals cut short,
since the code starts each of these again in full. Nothing else, neither a timer started or
stopped after the last pass nor the narrowing to an int, may add to it.
`LoopTurns` says that a pass of `pd_timers_run` ends, unless callbacks start
timers that are due at once for ever: `ctx->now` stands still during a pass, and
a callback that calls `setTimeout(f)`, whose delay is 0, again and again keeps
the loop in it. `Fires` therefore speaks of executions in which each pass ends.

### TcpStream

One thread, but every callback may call everything. `stack` holds the calls of
the library that are waiting for a callback, and what each has still to do: a
handler with the events it has not looked at, `pd__tcp_write` in its loop,
`pd_tcp_close` between the callbacks of the writes it cancels. The program runs
in a frame of its own on top. Each action is a stretch of code between two
callbacks, so a callback that changes the state under the code that called it
is an ordinary behaviour of the model.

Descriptors are numbers; the kernel gives out the lowest free one, and `reg` is
what epoll has for a number, including the pointer it will report. A batch is
taken at once and handled event by event; the network moves between handlers.
A write of some units may be accepted in part; an error, a reset or a FIN may
come while the loop polls and between two handlers of a batch, when no call is in progress. `wire` and `order` are history
variables for the properties alone.

`Rules` names what the program refrains from, one rule for each use that the
code does not guard against: `early` (close where the loop waits next),
`closed` (pause or resume a closed stream), `inside` (close a stream in the
callback of one of its queued writes), `unopened` (close a stream that was
never opened).

Left out: a `pd_tcp_connect` that fails at once, a null `on_data`, a failed
allocation, socket options, and what `on_close` does beyond giving the
structure back.

### FsOps

The pool is `INSTANCE TaskService WITH Task <- Op`: each action of `FsOps` that
touches the pool conjoins the action of the promise that `ThreadPool` is shown
to keep, and no thread, lock or eventfd appears. Between `Begin` and `Finish` an
operation makes its system call (`Work`); the descriptors in the kernel are
`table`, which remembers for each number the File that opened it. Numbers are
few and the lowest free one is given out, so that a number comes back. The pool
here has as many workers as tasks, which allows every order fewer would.

`op` has what the C structure and the FileOperation around it hold, `file` the
fields of the File, and `frame` who on the JavaScript side has the object: a
variable of the program (`held`; `spent` once it has closed it), or an
asynchronous function at one of its awaits (`open`; for readFile `opening`,
`stat`, `read`, `close`). `Deliver` is `onDone` up to `Resolve` or `Reject`; V8
runs the continuation inside that call (`micro`), and `Return` is the rest, with
`delete wrap`. `Collect` may happen whenever nothing but operations has the
object and none of them keeps a handle to it; read, write, fstat and close keep
one, open does not. A File that is collected with an open descriptor leaves it
open for good (`Lost`), as the TODO in `File::onCleanup` says.

`Rules` is again what the program refrains from, since nothing in the code reads
`isClosing` and `isClosed`: `during` (close a file with operations in flight)
and `after` (use a file it has closed). `OwnDescriptor` fails without either,
and `CloseResults` leaves out `intr`: `pd__fs_close_work` calls `close` again
after EINTR, when Linux has freed the number and another worker's `open` may
have it. `FileLives` and the types need none of this.

The program starts operations while two are free and leaves one to the
continuations; entering the loop again after it returned stands for nothing the
program does and only makes the behaviours longer.

### TimerBinding

`INSTANCE Timers` brings `pd_timers_run` and the loop; its actions that a script
calls are conjoined with what `core/timer.cc` does around them. A timer is its
id: `active_timers` is the table that `clear` looks in, `onInterval` the choice
between the two `on_timeout` functions, and `deletes` counts how often the C++
object was deleted. `TimerReturn` is the end of `Timer::onTimeout` with its
`erase` and `delete` and the rest of `pd_timers_run`, which still reads
`min->interval`; a deleted object is read as what it last held. An exception
that leaves the callback ends the program and leaves everything as it is.

`Careful` is two rules. The program does not clear a timer inside that timer's
own callback: `onTimeout` then deletes it a second time, and an interval is
started again after it was deleted (`TimerCleared`). It gives `setInterval` a
delay other than 0: pandio takes an interval of 0 for a timer that does not
repeat, so that `setInterval(f, 0)` runs once and its object is left over.

### NetSocket

`T == INSTANCE TcpStream WITH Stream <- Socket`: a Socket has one TcpStream in
its life. Every action of `TcpStream` at which pandio calls the binding is
conjoined with what the binding and `js/net.js` do there. `code` runs beside
`stack`: for each callback that runs it says whether it runs JavaScript
(`js`), nothing (`nothing`), or is between the close and the reject of a failed
connect (`close`, `error`). `socket` has `#state`, whether `#handle` is set,
the `#queue` of readers and the promise of `connect()`; `reads` the promises of
`read()`; `native` the C++ object. Which handler an `onError` reaches depends on
`#state`, as `__init` replaces those of `connect()`. `onClose` and `onCloseEnd`
are the two halves of `TcpStream::onClose`: JavaScript may run between them, and
the object is deleted in the second. A listener adds one reference, and each of
its events is one `accept`, which may find nobody. `ended` is the loop's return
or a CriticalException that unwinds it.

Rules: the four of `TcpStream`, and `Careful`, three more: the program leaves a
socket alone until `connect()` has settled, does not read one whose `connect()`
was rejected, and awaits each `read()` before the next. Without the first the
promise of `connect()` is never settled; without the second, the `read()`, since
`#handle` is still set and nothing will come of it; without the third, all readers
but one. `ConnectAnswered` needs the first, `ReadsServed` all three; the hazards list them. A write,
shutdown or destroy after a rejected `connect()` is allowed: it finds the `TcpStream`
gone and returns at once, or is made in the moments before that.

### Errors and Loader

`Errors` is the table alone: what V8's notification adds and takes away, and
what the loader takes out by hand. `Loader` extends it. `modules` and
`resolve_cache` are the two tables; a path is a short sequence of characters,
because `pathURL` must keep "x " and "x%20" apart. `Href` is ada's conversion
(`ada.cpp:10398`), character by character: a space, which stands for all that are
percent-coded, becomes its code, tabs and line ends are dropped, a backslash
becomes a slash. So two paths may share a url, and
`FileSystemsAssumption` leaves out those with a character of `Merging` (these, and the bar,
which becomes a colon in a segment like `c|`): what is checked and
proved of the loader holds for paths without them. Paths are absolute and in
normal form, as `resolveModulePath` makes them; an absolute path on the command
line is not normalised by the code. `files` is what is on disk: per path whether
the module is missing, does not parse, throws, awaits or is fine, and what it
requests. `v8` is the list of compiled modules with V8's status for each, so
that the position in it is the ScriptId, and linking and evaluation (depth
first, every order of the requests) are V8's as the code relies on them.

`stack` holds `Loader::evaluate` for the entry (`exec`), `dynamicImport`
(`import`), the body of a module, and a callback of the loop. `phase` follows
`Pand::run`: bootstrap, entry script, loop, exit, destroyed. A
CriticalException empties the stack; `exit()` does not, since `Runtime::exit`
destroys everything below frames that are never unwound, and `Owned` are the
Modules such a frame still has. `status` says which end of `main` it was.

`Careful`: no `exit()` while the entry script is being evaluated. Otherwise its
Module outlives `~Loader`, and its url stays in `resolve_cache` with a handle of
an isolate that is gone; `CleanExit` fails. `Ordinary` in `MCLoader` limits the
files: a module that throws is on no import cycle and one that awaits is reached
by `import()` only, because V8's rules for these two are left out.

## What the runs check

| run | instance | states | shows |
|---|---|---|---|
| `ThreadPoolSafety` | 3 workers, 3 tasks, 1 handle, symmetric | 62 thousand | locking, counters, wake-ups and `TaskService` in every interleaving |
| `ThreadPoolLive` | 2 workers, 2 tasks, 1 handle | 49 thousand | every task is delivered, `pd_threadpool_end` returns |
| `TimerHeap` | 6 timers, 3 deadlines, symmetric | 381 | the heap is a heap |
| `Timers` | 2 timers, delays 0, 1 and 3, INT_MAX 2, lag up to 2, one signal per wait | 102 thousand | sleeping, firing, stopping, repeating |
| `TcpStream` | 2 streams, 2 descriptors, 2 writes of 2 units, callbacks 2 deep, symmetric | 4.7 million | closing, writing, registration |
| `TcpGraceful` | two buffers unread | violation | data is dropped after a shutdown |
| `TcpStale` | as `TcpStream` | violation | a stale event reads another stream's descriptor |
| `FsOps` | 2 files, 3 operations, 2 descriptors, both rules, symmetric | 82 thousand | files, their descriptors and their objects |
| `TimerBinding` | 3 timers, delays 0 and 2, lag up to 1 | 122 thousand | ids, objects and the heap agree |
| `TimerCleared` | as `TimerBinding`, not careful | violation | a timer cleared in its own callback is deleted twice |
| `NetSocket` | 2 sockets on 1 descriptor, 1 write of 1 unit, 2 reads, 1 listener, callbacks 2 deep | 703 thousand | objects, promises and states of sockets; every close is told |
| `Loader` | entry, 2 files of every kind with every request, 2 imports, 2 callbacks, 1 own promise | 743 thousand | caches, rejections and the exit status |

Why the bounds are enough. Pool: three workers give one that sleeps, one that is
woken and one that works at the same time, which the conditional signal and the
signal chain need; three tasks put one into each queue. Liveness needs two of
each: a signal can then go to the wrong one. Heap: six nodes are a tree of three
levels with a last level that is partly full, so that the removed node can be
the last one's parent, its uncle or its cousin, and a node can have to move up
or down after a removal; three deadlines give an earlier one, an equal one and a
later one. `HeapView` leaves out fields that are overwritten before they are
read. Timers: two timers are enough for one to be touched by the other's
callback; a lag longer than the shorter delay and shorter than the longer makes
one due and one not; a delay of 0 is due in the pass that starts it, an INT_MAX of
2 is below the delay of 3, so that the clamp is reached, and a `Width` of 8 is above all. Streams: two streams and two descriptors are the least for
a number to come back for another stream; a write of two units can be accepted
in part; depth two is a callback inside a callback. Files: two files and two numbers
let a number come back for the other file while an operation of the first is in
flight, and three operations are two that overtake each other and one that a
continuation submits. Timer binding: three ids let one fire, one be cleared by it
and one be made meanwhile; delays 0 and 2 make timers due in the same pass and in
different ones. Sockets: two on one descriptor are one after the other, so that
the second gets the number of the first while events and callbacks of the first
are still to come; one write, as `TcpStream` has the partial ones. Loader: two
files give chains, diamonds with the entry and cycles of requests, and their
names are the ones `pathURL` could confuse; two imports can be of the same
module, or one inside the other. `MaxLag`, `MaxSlept`,
`MaxIntr`, `MaxHandles`, `MaxIn`, `MaxDepth`, `MaxReads`, `MaxListens`, `MaxTimers`,
`MaxImports`, `MaxCallbacks` and `MaxRejects` bound what is unbounded in the
code.

`CHECK_DEADLOCK FALSE` is set where the system may really stop: with TCP
sockets alone, a loop whose peers are silent waits for ever.

Some invariants are in no run because a theorem states them for every instance,
and they can still be added to a cfg: `TypeOK` of `ThreadPool`, `Timers` and
`FsOps`, `WaitingCount`, `QuiescentEnd` and `SignalChain` of the pool, and
`RefsCount` and `QuiescentEnd` of `NetSocket`.

### Where the code and its words part

Each of the runs that expect a violation states what the repository says itself:
pandio's README that its timers work like `setTimeout` (`TimerCleared`), the
comment on a graceful shutdown in `tcp.h` (`TcpGraceful`), and the one on stale
events in `tcp_unix.c` (`TcpStale`); PROJECT.json quotes them. Met while modelling, and in no run:

- `js/net.js:206`: `Server.listen` keeps no handle, so that a second listen is not refused and `close()` always throws;
- `js/net.js:54`: a close rejects one reader, the others wait for ever; hence a rule of `NetSocket`;
- `js/net.js:149`: a failed `connect()` leaves `#handle` set, so that the socket cannot connect again and a `read()` then is never settled; one to something that is not an IPv4 address fails at once, which `core/tcp.cc:106` does not look at, and its promise stays pending;
- `js/net.js:45`: without `onerror` a handler throws, through the frames of V8 when the write or destroy of a script called it; `core/errors.h:32` forbids that inside microtasks, where the continuation of an `await` runs;
- `core/loader.cc:221`: a module that is in the cache is not used by `import()`, which rejects it as not found;
- `threadpool.c:108`: a loop that is run again after `pd_threadpool_end`, without a new pool, may lock a destroyed mutex: a wake-up that a worker wrote between the read of the eventfd and the drain is still there;
- `core/loader.cc:388`: `./a<tab>b.js` and `./ab.js`, or two names that differ in a backslash and a slash, have one url, and the second request gets the module of the first;
- `core/timer.cc:63`: a negative delay becomes a deadline before `ctx->now`, and `pd_timers_next` sleeps for INT_MAX milliseconds;
- a stream closed by the script before the loop, or in `after_tick`, has its `on_close` called only when `epoll_wait` next returns, which other streams may never let happen: rule `early`;
- `core/main.cc`: a `std::bad_alloc` ends with success.

### Fairness

`ThreadPool`: a thread that can run does (weak fairness per worker and for the
main thread), work functions and callbacks return, the script ends in
`pd_io_run`. A thread that waits for the mutex is not passed over for ever
(strong fairness of the steps that take it): POSIX promises no order, but each
critical section is short and none is entered again without other work in
between. Nothing is assumed of submits, of other handles or of spurious wakeups.
`Timers`: callbacks return, the loop goes on and time passes; strong fairness of
`Tick`, as callbacks stop the clock of the model again and again where in the
code they only delay it. No event and no signal is assumed to come, and the
signals between two returns of one wait are bounded by `MaxIntr`: the code
starts the whole wait again after each, so endless signals would hold a timer up.
`NetSocket`: weak fairness of `Step`, which is everything the code does by itself:
callbacks return, events of a batch are handled one after the other, the loop
turns until it waits. No event of the network, no call of the program and no
return of `epoll_wait` is assumed: `ClosesTold` needs none, which is the point of it.

## What is proved

Every theorem is for any value of the constants that the named `ASSUME`s of the
modules allow: any finite set of workers and any tasks (`ThreadPoolProofs`), any timers, delays, widths and bounds (`TimersProofs`,
`TimerBindingProofs`), any timers and deadlines (`TimerHeapProofs`), any streams,
writes of any sizes, descriptor numbers and depth of callbacks
(`TcpStreamProofs`), any sockets on top of these, with any number of reads and
servers (`NetSocketProofs`), any files, descriptors and operations (`FsOpsProofs`), any
files with any requests, any imports, callbacks and rejections (`LoaderProofs`).
Where a theorem needs the program to keep to a rule, it is a hypothesis of the
theorem, named below. Every safety property of the runs is such a theorem; what
only TLC checks is at the end of this section.

The pool. The safety properties are not inductive one by one. `PoolInv`, the
inductive invariant, is built in layers, each proved with the ones before it:

1. `CInv`: the types, `MutualExclusion`, and `Control`, which says for each
   variable that belongs to one phase (`pending`, `calling`, `tasks_done`, the
   worker's task, `abort_threads`) in which phase of its thread it is set. It
   has that a worker left only on abort, and that abort is set only while the
   main thread joins.
2. `RefsCount`, by the cardinality of the set of busy workers.
3. `WaitingCount` with `WorkConserving`: submit decides by `waiting_threads`, so
   the second needs the first.
4. `NoLostNotification`.
5. `EndIdle`, that `refs` is 0 from the return of `pd_io_run` to the end of the
   joins, so that with `RefsCount` nothing is outstanding; and `SignalChain`, which needs that abort is set while the
   main thread joins.
6. `OnePlace`.

Under each there is one step per action. From the invariant follow
`PoolTypeCorrect`, `PoolMutualExclusion`, `PoolNoUseAfterDestroy`, `PoolRefs`,
`PoolWorkConserving`, `PoolSignalChain`, `PoolNoLostWakeup` and `PoolOnePlace`;
`PoolImplementsService` matches each action with an action of
`TaskService` or a stutter.

Timers. `TimersTypeCorrect` and `TimersRefsCount` hold without any assumption on
the program; `TimersRefsCount` follows `refs` through the stop, the callback and
the restart of `pd_timers_run`. `TimersSleepBound` assumes delays that are not
negative: a negative one becomes a huge unsigned number on its way to
`pd_timer_start` and makes the loop sleep for INT_MAX milliseconds. Three
invariants are behind it: after `pd_timers_run` no deadline is before
`ctx->now` (`NoneLate`); when the loop is about to wait, `sleep` is no more than
any timer's `due`, and not for ever when there is one (`SleepsUntilDue`); and
`lag` is at most what callbacks took, the part of this wait that has passed, and
the interrupted ones (`Staleness`). `TimersStayStopped` assumes a careful program and
`TimersIntervalKeeps` a careful one or no delay of 0: TLC refutes both properties
without their assumption.

The heap. Pointers are awkward to reason about, so the tree is described by the
array `a` of its nodes: `a[p]` is the timer at position `p`, its children are at
`2p` and `2p + 1`, and `Tree(h, a, n)` says that every pointer of `h` is what
the array says. Lemmas turn each operation of the code into one on the array:
`Swap` exchanges two entries, neighbours included; the bits of the size lead to
the last position; insertion adds an entry there; removal overwrites an entry
with the last. On the array the order is simple: `Ordered` says that no entry is
before its parent's, and the two loops that restore it have each an invariant,
"ordered but for one entry that may be too small" on the way up and "but for
one that may be too large" on the way down. The code's loops are recursive
functions of the model, which are followed round by round. The inductive
invariant `HInv` is that the active timers are exactly the entries of an ordered
tree; it gives `HeapWellFormed`, and `HeapIsTimerSet` with the lemma that nothing
in an ordered tree is before its root.

Timer binding. `Objects` says of each id: while it is in the table its object was not
deleted, and it is in the heap or in its callback; otherwise it was deleted once,
if it was ever made, and pandio has it nowhere. It also says that
`interval` tells an interval from a timeout as the two `on_timeout`s do, on which
the deletion rests. With it `BindingTimerObjects` and `BindingClearedSilent`,
under `Careful`. `BindingRefsCount` assumes nothing of the program: every step
of the binding is shown to be a step of `Timers` or a stutter, and
`TimersProofs`, instantiated with the binding's constants, says the rest.

Streams. `Core` is the layer under everything, in three parts:

1. `Streams`: from its opening to its closing a stream has its descriptor to
   itself, epoll watches just that descriptor, for that stream and with its
   flags, and no other; which handler a stream has says in which half of its
   life it is.
2. `Calls`: what a call on the stack can rely on when it goes on after a
   callback: its stream was opened and not given back, the handler of an event is
   the first call and the loop is dispatching, and a stream whose writes are
   being flushed is still open.
3. `Closing`: a closed stream is in `pending_closes` once, or one `pd_tcp_close` of it
   is in progress.

On `Core` rest, each with its own invariant: the count of open streams
(`TcpStreamRefs`), the place of each write (`Writes`, `TcpEachWriteOnce`), what
is polled for (`AllArmed`, `TcpWritesArmed`), the end of a stream that was shut
down (`AllEndsSent`, `TcpShutdownKept`), the order of what is sent,
and the depth of the stack (`TcpTypeOK`). For `TcpWireOrder` the invariant
`AllWired` says exactly what is on the wire: the units of the writes that are
done, in order, then the units of the first queued write that are already sent;
and that nothing is sent any more once the connection was reset or closed. The
hypothesis of all is that the program keeps to the rules `closed`, `inside` and
`unopened`, that is, makes no use of a stream that the code does not guard
against. `TcpNoWaitOnClose` needs `early` besides.

Sockets. `LInv`, the inductive invariant of the composition, has three parts:

1. `Core` of the streams. Every call of the binding is a step of `TcpStream` but
   for three things: a stream is accepted inside a callback, that of the
   listener; the callback of a failed connection closes its own stream; and a
   listener takes part in `refs` and wakes the loop. `TcpStreamProofs` ends with
   lemmas for these.
2. `Lives`: the C++ object is there while its stream is open, and until the
   `on_close` that was its last callback returns; `#state` is `active` exactly
   while the stream has the handler of an active one, `#handle` is set exactly
   in the states before the end.
3. `Codes`: there is one `code` for each callback on the stack, and a callback
   that is between the close and the reject of a failed connection (`Failing`)
   is the only one. Without it nothing would keep JavaScript from running between
   the two, when the stream is closed and `#state` still `connecting`.

From it `NetStreamLife`, which assumes of the program what the streams do
(`closed`, `inside` and `unopened`). On it rest `Promises`, that a pending
`connect()` has its attempt watched or its failure being reported
(`NetConnectAnswered`), and `Queues`, that a queue holds the one read that is
pending, that it is in no other, and that its socket is active (`NetReadsServed`);
both assume `Careful` besides. `Promises` also has what becomes of the socket after
`connect()`: `active` or `destroyed` when it was resolved, `connecting` for good
when it was rejected; `Queues` needs the second, as such a socket is not read. `NetRefsCount` adds to the count of open streams
that of the listeners, and `NetQuiescentEnd` says that `pd_io_run` therefore does
not return while either is left. `NetStreamsKept` lifts the invariants under
`TcpEachWriteOnce`, `TcpWireOrder`, `TcpWritesArmed` and `TcpShutdownKept`, so that
these hold of sockets too.

The service. `ServicePlaces`: a task is in one place, and in it once. It is
stated of `TaskService`, for any tasks, so that each client of the pool can cite
it (in `FsOpsProofs`, the one client modelled); with `PoolImplementsService` it
holds of the pool.

Files. Three layers:

1. `CInv`: the types, `ServicePlaces` for the operations, and that an operation
   in a place of the pool is in use and one that is delivered has its result.
   `PoolStep` shows that a step of `FsOps` is a step of the service, which makes
   `ServicePlaces` apply. `FsTypeCorrect`.
2. `Frames`: an asynchronous function that awaits has exactly one operation in
   flight, of the type it asked for; only `open` is in flight without a handle,
   and then the asynchronous function has the object. `FsFileLives`.
3. `Descriptors`: the close of a file is its last operation in flight; a file has
   one entry in the table at most, none before it is opened or after it is
   closed, and `File::fd` is its number while the file may be used. With it
   `FsOwnDescriptor` and `FsReadFileCloses`, under `Careful`: both rules and no
   interrupted close.

Layers 1 and 2 assume nothing of the program.

The loader. First, that `pathURL` is injective on the paths allowed (`UrlsDiffer`): since a percent
sign is escaped too, what was written for a character can be read off the
url again. The paths are sequences of any characters but those of `Merging`, for
which it is false. Then `LInv`, thirteen parts that
need one another:

- the tables: `Shape` (types), `Tables` (the two tables and V8's list hold the
  same modules, each path once), `Graph` (a linked module is linked to the
  modules of the paths it requests);
- the calls: `Nesting` (which call can be inside which), `Bodies` and `Links`
  (the module a call is at, and what V8 says of it and of those it requests);
- the promises: `Settlements` and `Answers` (what an `import()` gives, and of which
  module), `PendingExact`;
- the program: `Beginning`, `EntryRuns`, `ExitStatus` and `Cleaned`.

`LoaderInvariant` states them all; `LoaderCachesAgree`, `LoaderRightModule`,
`LoaderPendingExact`, `LoaderExitStatus` and, under `Careful`, `LoaderCleanExit`
follow. What is assumed of the files is `FileSystemsAssumption`: the bootstrap
module and the entry are among the paths, no path has a character of `Merging`,
no module statically requests one that
awaits at its top level, and the modules of the binary, the bootstrap module
among them, request only each other.

The library's induction theorems take a predicate as a parameter, which the
provers cannot instantiate. Where an induction is needed, over the rounds of a
loop or the characters of a path, the proofs take a least counterexample instead
(`Numbers`, from `WFMin`): a set that has 0, and with each number the next, has all.

Model-checked only: all liveness (`EveryTaskDone`, `EndReturns`, `Fires`,
`LoopTurns`, `ClosesTold`), as fairness and ENABLED are beyond the prover.

## Not modelled

- Files: argument checks, the bytes, and a submit refused for want of a pool (the scripts run while it exists).
- Streams and sockets: a `pd_tcp_connect` that fails at once, socket options, the chunks' contents. `pd_tcp_server_close` and `TcpServer::close` cannot be reached from JavaScript, as `Server.close` throws first.
- Timer binding: negative delays, and the arguments kept for a callback.
- Loader: `import.meta`, which only reads; how an error is printed; V8's rules for a module that awaits inside a graph of static imports, and for one that throws on a cycle.
- Start and stop: the setting up of V8, and an allocation that fails.
- `core/bytes/` and `core/buffer.cc` convert strings and bytes and keep no state; the same holds of `path.js`, `inspect.js` and the tables of errors and system information.
- One module with timers, pool and streams under the same loop: each has its own loop with the parts it needs, and what they share is `refs`, which each counts.
- kqueue and Windows are other implementations of the same interfaces.
- V8 and the vendored libraries are external; where the code depends on what V8 does (the order of evaluation, microtasks, notifications of rejections), it is modelled from how the code uses it.

## Plan

1. Done: `TaskService`, `ThreadPool`, `ThreadPoolProofs`; `TimerSet`,
   `TimerHeap`, `TimerHeapProofs`; `Timers`, `TimersProofs`; `TcpStream`,
   `TcpStreamProofs`; `FsOps`, `FsOpsProofs`; `TimerBinding`, `TimerBindingProofs`;
   `NetSocket`, `NetSocketProofs`; `Errors`, `Loader`, `LoaderProofs`.
2. Next, if the code grows there: negative delays in `Timers` and
   `TimerBinding`; a `pd_tcp_connect` that fails at once; and `Server.close`, once
   `Server.listen` keeps its handle.
