----------------------------- MODULE TcpStream -----------------------------
(***************************************************************************)
(* The TCP streams of pandio (deps/pandio/src/sys/tcp_unix.c) under its    *)
(* event loop (event_epoll.c): opening, reading, queued writing, graceful  *)
(* and forced closing.                                                     *)
(*                                                                         *)
(* Everything runs on one thread, but any callback may call any operation  *)
(* on any stream, inside the code that called it: stack holds the calls    *)
(* that wait for a callback to return, and the program runs on its top.    *)
(* Descriptors are numbers that the kernel gives out again, and epoll      *)
(* reports a descriptor with the stream that was last registered for it.   *)
(***************************************************************************)
EXTENDS Integers, Sequences, FiniteSets, SequencesExt

CONSTANTS
  Stream,       \* the pd_tcp_t structures
  Op,           \* the pd_write_t structures, each used once
  Size,         \* per write: its length, in units
  Fd,           \* the free descriptor numbers
  None,
  Rules,        \* the rules the program obeys, see Allowed
  MaxIn,        \* bound on unread units: a unit is one buffer of pd__tcp_read
  MaxDepth      \* bound on the nesting of callbacks

ASSUME StreamAssumption == IsFiniteSet(Stream) /\ None \notin Stream
ASSUME OpAssumption == Size \in [Op -> Nat \ {0}]
ASSUME FdAssumption == Fd \subseteq Nat /\ IsFiniteSet(Fd) /\ None \notin Fd
ASSUME RulesAssumption == Rules \subseteq {"early", "closed", "inside", "unopened"}
ASSUME BoundAssumption == MaxIn \in Nat /\ MaxDepth \in Nat \ {0}

VARIABLES
  stream,          \* per stream: the fields of pd_tcp_t
  written, calls,  \* per write: units written, callbacks called
  pending_closes,
  refs,
  conn,            \* per descriptor: the connection in the kernel
  reg,             \* per descriptor: what epoll watches
  pc, stack, batch,
  wire,            \* history, per stream: the write each unit sent came from
  order            \* history, per stream: its writes as they were accepted

opVars   == <<written, calls>>
ctxVars  == <<pending_closes, refs>>
sysVars  == <<conn, reg>>
loopVars == <<pc, stack, batch>>
history  == <<wire, order>>
vars == <<stream, opVars, ctxVars, sysVars, loopVars, history>>

-----------------------------------------------------------------------------
Fresh == [status |-> "NONE", handler |-> "none", flags |-> {}, fd |-> None, writes |-> <<>>]

NoConn == [owner |-> None, up |-> FALSE, in |-> 0, fin |-> FALSE, rst |-> FALSE, shut |-> FALSE]

NoReg == [stream |-> None, mask |-> {}]

Init ==
  /\ stream = [s \in Stream |-> Fresh]
  /\ written = [o \in Op |-> 0] /\ calls = [o \in Op |-> 0]
  /\ pending_closes = <<>> /\ refs = 0
  /\ conn = [f \in Fd |-> NoConn] /\ reg = [f \in Fd |-> NoReg]
  /\ pc = "script" /\ stack = <<>> /\ batch = {}
  /\ wire = [s \in Stream |-> <<>>] /\ order = [s \in Stream |-> <<>>]

Top == stack[Len(stack)]
Under == SubSeq(stack, 1, Len(stack) - 1)
Runs(fn) == stack # <<>> /\ Top.fn = fn

Frame(fn, s) == [fn |-> fn, stream |-> s, events |-> {}]
Push(fn, s) == Append(stack, Frame(fn, s))

(* The program has control: before the loop, in timers, on_close or after_tick,
   or in a callback of the call on top of the stack. *)
ProgramPc == {"script", "timers", "closecb", "after"}

InProgram == IF stack = <<>> THEN pc \in ProgramPc ELSE Top.fn = "user"

(* The program may make a call that calls back. *)
Nesting == Cardinality({i \in DOMAIN stack : stack[i].fn = "user"})
MayCall == InProgram /\ Nesting < MaxDepth

Inside(fn, s) == \E i \in DOMAIN stack : stack[i].fn = fn /\ stack[i].stream = s

(* Rules of a careful program: "early", it closes no stream where the next
   thing the loop does is to wait; "closed", it pauses and resumes no closed
   stream; "inside", it closes no stream in a callback of its queued writes;
   "unopened", nor one that was never connected or accepted. *)
Allowed(rule, broken) == rule \in Rules => ~broken

Open(f) == conn[f].owner # None
FreeFd == {f \in Fd : ~Open(f)}
LowestFree(f) == f \in FreeFd /\ \A g \in FreeFd : f <= g

(* pd__event_set: epoll_ctl(EPOLL_CTL_MOD) on the number in r.fd; it fails if
   that number is not registered. *)
EventSet(s, r) ==
  IF r.fd \in Fd /\ reg[r.fd] # NoReg
  THEN [reg EXCEPT ![r.fd] = [stream |-> s, mask |-> r.flags]] ELSE reg

-----------------------------------------------------------------------------
(* The kernel and the peer. *)

Settled(f) == Open(f) /\ conn[f].up

(* An attempt to connect succeeds; a reset ends it otherwise. *)
Established(f) ==
  /\ Open(f) /\ ~conn[f].up /\ ~conn[f].rst
  /\ conn' = [conn EXCEPT ![f].up = TRUE]

PeerSend(f) ==
  /\ Settled(f) /\ ~conn[f].fin /\ ~conn[f].rst /\ conn[f].in < MaxIn
  /\ conn' = [conn EXCEPT ![f].in = @ + 1]

PeerFin(f) ==
  /\ Settled(f) /\ ~conn[f].fin /\ ~conn[f].rst
  /\ conn' = [conn EXCEPT ![f].fin = TRUE]

(* What was received can still be read; the rest of the state has no more say. *)
Reset(f) ==
  /\ Open(f) /\ ~conn[f].rst
  /\ conn' = [conn EXCEPT ![f] = [@ EXCEPT !.rst = TRUE, !.up = TRUE, !.fin = FALSE, !.shut = TRUE]]

(* The network moves while the loop waits, and between two handlers. *)
Network ==
  /\ pc \in {"poll", "dispatch"} /\ stack = <<>>
  /\ \E f \in Fd : Established(f) \/ PeerSend(f) \/ PeerFin(f) \/ Reset(f)
  /\ UNCHANGED <<stream, opVars, ctxVars, reg, loopVars, history>>

(* What epoll_wait reports of descriptor f: EPOLLHUP comes unasked, once both
   directions are shut or the connection failed. *)
Ready(f, room) ==
  LET c == conn[f]
  IN  {e \in reg[f].mask : \/ e = "IN" /\ (c.in > 0 \/ c.fin \/ c.rst)
                           \/ e = "OUT" /\ (c.rst \/ (c.up /\ room))}
        \cup {e \in {"CLOSE"} : c.rst \/ (c.fin /\ c.shut)}

(* read(): what it returns on the number the caller holds. *)
ReadResult(f) ==
  CASE f \notin Fd \/ ~Open(f)      -> "error"
    [] Open(f) /\ conn[f].in > 0    -> "data"
    [] Open(f) /\ conn[f].in = 0    -> IF conn[f].rst THEN "error"
                                       ELSE IF conn[f].fin THEN "eof" ELSE "again"

(* write() of n units: the numbers it may return, 0 for EAGAIN, -1 for an error. *)
WriteResults(f, n) == IF conn[f].rst THEN {-1} ELSE 0..n

-----------------------------------------------------------------------------
(* Calls of the program: opening. *)

Register(s, f, new, up) ==
  /\ stream' = [stream EXCEPT ![s] = new]
  /\ conn' = [conn EXCEPT ![f] = [NoConn EXCEPT !.owner = s, !.up = up]]
  /\ reg' = [reg EXCEPT ![f] = [stream |-> s, mask |-> new.flags]]
  /\ refs' = refs + 1
  /\ UNCHANGED <<opVars, pending_closes, history>>

(* pd_tcp_connect that returns 0; one that fails leaves a stream that nothing
   watches, and is left out. *)
Connect(s) ==
  /\ InProgram /\ stream[s] = Fresh
  /\ \E f \in FreeFd :
       /\ LowestFree(f)
       /\ Register(s, f, [stream[s] EXCEPT !.fd = f, !.handler = "connect", !.flags = {"IN", "OUT"}],
                   FALSE)
  /\ UNCHANGED loopVars

(* pd_tcp_accept, of the descriptor that accept() has just returned. *)
AcceptOver(s) ==
  \E f \in FreeFd :
    /\ LowestFree(f)
    /\ Register(s, f, [Fresh EXCEPT !.fd = f, !.handler = "client", !.flags = {"IN"},
                                   !.status = "ACTIVE"], TRUE)

Accept(s) == InProgram /\ stream[s] = Fresh /\ AcceptOver(s) /\ UNCHANGED loopVars

-----------------------------------------------------------------------------
(* Calls of the program: writing. *)

Unused(o) == calls[o] = 0 /\ \A s \in Stream : o \notin Range(order[s])

(* A write is over: its callback runs. *)
CallBack(s, o) ==
  /\ calls' = [calls EXCEPT ![o] = @ + 1]
  /\ stack' = Push("user", s)

Send(s, o, n) ==
  /\ written' = [written EXCEPT ![o] = @ + n]
  /\ wire' = [wire EXCEPT ![s] = @ \o [i \in 1..n |-> o]]

MutantWriteAsync(s, o) ==
  /\ stream' = [stream EXCEPT ![s].writes = Append(@, o)]
  /\ UNCHANGED <<reg, calls, stack>>

(* pd_tcp_write_async on an active stream *)
WriteAsync(s, o) ==
  LET r == [stream[s] EXCEPT !.writes = Append(@, o), !.flags = @ \cup {"OUT"}]
  IN  /\ stream' = [stream EXCEPT ![s] = r]
      /\ reg' = IF "OUT" \in stream[s].flags THEN reg ELSE EventSet(s, r)
      /\ UNCHANGED <<calls, stack>>

WriteRefused(s, o) ==
  /\ stream[s].status # "ACTIVE"
  /\ CallBack(s, o)
  /\ UNCHANGED <<stream, written, reg, wire, order>>

MutantWriteDirect(s, o) ==
  /\ stream[s].status = "ACTIVE"
  /\ order' = [order EXCEPT ![s] = Append(@, o)]
  /\ \E n \in WriteResults(stream[s].fd, Size[o]) :
       IF n = -1 THEN CallBack(s, o) /\ UNCHANGED <<stream, written, reg, wire>>
       ELSE /\ Send(s, o, n)
            /\ IF n = Size[o] THEN CallBack(s, o) /\ UNCHANGED <<stream, reg>> ELSE WriteAsync(s, o)

WriteDirect(s, o) ==
  /\ stream[s].status = "ACTIVE" /\ stream[s].writes = <<>>
  /\ order' = [order EXCEPT ![s] = Append(@, o)]
  /\ \E n \in WriteResults(stream[s].fd, Size[o]) :
       IF n = -1 THEN CallBack(s, o) /\ UNCHANGED <<stream, written, reg, wire>>
       ELSE /\ Send(s, o, n)
            /\ IF n = Size[o] THEN CallBack(s, o) /\ UNCHANGED <<stream, reg>> ELSE WriteAsync(s, o)

WriteQueued(s, o) ==
  /\ stream[s].status = "ACTIVE" /\ stream[s].writes # <<>>
  /\ order' = [order EXCEPT ![s] = Append(@, o)]
  /\ WriteAsync(s, o)
  /\ UNCHANGED <<written, wire>>

(* pd_tcp_write *)
Write(s, o) ==
  /\ MayCall /\ Unused(o) /\ stream[s].fd # None
  /\ WriteRefused(s, o) \/ WriteDirect(s, o) \/ WriteQueued(s, o)
  /\ UNCHANGED <<ctxVars, conn, pc, batch>>

-----------------------------------------------------------------------------
(* Calls of the program: pausing and closing. *)

SetFlags(s, flags) ==
  LET r == [stream[s] EXCEPT !.flags = flags]
  IN  /\ InProgram /\ stream[s].fd # None
      /\ Allowed("closed", stream[s].status = "CLOSED")
      /\ stream' = [stream EXCEPT ![s] = r]
      /\ reg' = EventSet(s, r)
      /\ UNCHANGED <<opVars, ctxVars, conn, loopVars, history>>

Pause(s) == SetFlags(s, stream[s].flags \ {"IN"})
Resume(s) == SetFlags(s, stream[s].flags \cup {"IN"})

(* pd_tcp_shutdown *)
Shutdown(s) ==
  /\ InProgram /\ stream[s].status = "ACTIVE"
  /\ LET r == [stream[s] EXCEPT !.status = "SHUTDOWN"]
         w == [r EXCEPT !.flags = @ \cup {"OUT"}]
     IN  IF r.writes = <<>>
         THEN /\ stream' = [stream EXCEPT ![s] = r]
              /\ conn' = [conn EXCEPT ![r.fd].shut = TRUE]
              /\ UNCHANGED reg
         ELSE /\ stream' = [stream EXCEPT ![s] = w]
              /\ reg' = EventSet(s, w)
              /\ UNCHANGED conn
  /\ UNCHANGED <<opVars, ctxVars, loopVars, history>>

MutantCloseOver(s, rest) ==
  /\ stream' = [stream EXCEPT ![s].status = "CLOSED"]
  /\ reg' = [f \in Fd |-> IF f = stream[s].fd THEN NoReg ELSE reg[f]]
  /\ conn' = [f \in Fd |-> IF f = stream[s].fd THEN NoConn ELSE conn[f]]
  /\ stack' = Append(rest, Frame("cancel", s))
  /\ UNCHANGED <<opVars, ctxVars, pc, batch, history>>

(* pd_tcp_close, up to the loop that cancels the writes; rest is the stack it
   returns to. *)
CloseOver(s, rest) ==
  /\ IF stream[s].status = "CLOSED"
     THEN stack' = rest /\ UNCHANGED <<stream, sysVars>>
     ELSE /\ stream' = [stream EXCEPT ![s].status = "CLOSED"]
          /\ reg' = [f \in Fd |-> IF f = stream[s].fd THEN NoReg ELSE reg[f]]
          /\ conn' = [f \in Fd |-> IF f = stream[s].fd THEN NoConn ELSE conn[f]]
          /\ stack' = Append(rest, Frame("cancel", s))
  /\ UNCHANGED <<opVars, ctxVars, pc, batch, history>>

Close(s) ==
  /\ MayCall
  /\ Allowed("early", pc \in {"script", "after"})
  /\ Allowed("inside", Inside("flush", s))
  /\ Allowed("unopened", stream[s].fd = None)
  /\ CloseOver(s, stack)

MutantCancel ==
  /\ Runs("cancel")
  /\ LET s == Top.stream
     IN  /\ pending_closes' = Append(pending_closes, s)
         /\ IF stream[s].writes # <<>>
            THEN /\ stream' = [stream EXCEPT ![s].writes = Tail(@)]
                 /\ calls' = [calls EXCEPT ![Head(stream[s].writes)] = @ + 1]
                 /\ stack' = Append(Under, Frame("user", s))
            ELSE stack' = Under /\ UNCHANGED <<stream, calls>>
  /\ UNCHANGED <<written, refs, sysVars, pc, batch, history>>

(* The rest of pd_tcp_close: every queued write is cancelled, and the stream
   waits for its on_close. *)
Cancel ==
  /\ Runs("cancel")
  /\ LET s == Top.stream
     IN  IF stream[s].writes # <<>>
         THEN /\ stream' = [stream EXCEPT ![s].writes = Tail(@)]
              /\ CallBack(s, Head(stream[s].writes))
              /\ UNCHANGED pending_closes
         ELSE /\ pending_closes' = Append(pending_closes, s)
              /\ stack' = Under
              /\ UNCHANGED <<stream, calls>>
  /\ UNCHANGED <<written, refs, sysVars, pc, batch, history>>

-----------------------------------------------------------------------------
(* Handlers. *)

Call(s, events) == <<[fn |-> "io", stream |-> s, events |-> events]>>

(* pd__tcp_connect_io *)
ConnectIo(s, events) ==
  LET r == [stream[s] EXCEPT !.status = "ACTIVE", !.handler = "client", !.flags = @ \ {"OUT"}]
  IN  IF stream[s].status = "CLOSED" \/ events = {"IN"}
      THEN UNCHANGED <<stream, reg, stack>>
      ELSE /\ stack' = Push("user", s)
           /\ IF "CLOSE" \in events THEN UNCHANGED <<stream, reg>>
              ELSE stream' = [stream EXCEPT ![s] = r] /\ reg' = EventSet(s, r)

Dispatch ==
  /\ pc = "dispatch" /\ stack = <<>>
  /\ \E e \in batch :
       /\ batch' = batch \ {e}
       /\ IF stream[e.stream].handler = "connect" THEN ConnectIo(e.stream, e.events)
          ELSE stack' = Call(e.stream, e.events) /\ UNCHANGED <<stream, reg>>
  /\ UNCHANGED <<opVars, ctxVars, conn, pc, history>>

(* pd__tcp_read: one read of one buffer, whatever the status of the stream. *)
Read ==
  /\ Runs("io") /\ "IN" \in Top.events
  /\ LET s == Top.stream
         f == stream[s].fd
         result == ReadResult(f)
         io == Append(Under, [Top EXCEPT !.events = @ \ {"IN"}])
         eof == IF result = "eof" THEN Append(io, Frame("eof", s)) ELSE io
     IN  /\ conn' = IF result = "data" THEN [conn EXCEPT ![f].in = @ - 1] ELSE conn
         /\ stack' = Append(eof, Frame("user", s))
  /\ UNCHANGED <<stream, opVars, ctxVars, reg, pc, batch, history>>

Eof == Runs("eof") /\ CloseOver(Top.stream, Under)

(* The rest of pd__tcp_client_io, and the test that pd__tcp_write starts with. *)
AfterRead ==
  /\ Runs("io") /\ "IN" \notin Top.events
  /\ IF "CLOSE" \in Top.events THEN CloseOver(Top.stream, Under)
     ELSE /\ stack' = IF Top.events = {} \/ stream[Top.stream].status = "CLOSED" THEN Under
                      ELSE Append(Under, Frame("flush", Top.stream))
          /\ UNCHANGED <<stream, opVars, ctxVars, sysVars, pc, batch, history>>

MutantFlushWrite ==
  /\ Runs("flush") /\ stream[Top.stream].writes # <<>>
  /\ LET s == Top.stream
         o == Head(stream[s].writes)
         rest == Size[o] - written[o]
     IN  \E n \in WriteResults(stream[s].fd, rest) :
           IF n = -1
           THEN /\ calls' = [calls EXCEPT ![o] = @ + 1]
                /\ stack' = Append(Under, Frame("user", s))
                /\ UNCHANGED <<stream, written, wire>>
           ELSE /\ Send(s, o, n)
                /\ IF n = rest THEN CallBack(s, o) /\ stream' = [stream EXCEPT ![s].writes = Tail(@)]
                   ELSE /\ stack' = IF n = 0 THEN Under ELSE stack
                        /\ UNCHANGED <<stream, calls>>
  /\ UNCHANGED <<ctxVars, sysVars, pc, batch, order>>

(* pd__tcp_write: one turn of its loop. *)
FlushWrite ==
  /\ Runs("flush") /\ stream[Top.stream].writes # <<>>
  /\ LET s == Top.stream
         o == Head(stream[s].writes)
         rest == Size[o] - written[o]
         popped == [stream EXCEPT ![s].writes = Tail(@)]
     IN  \E n \in WriteResults(stream[s].fd, rest) :
           IF n = -1
           THEN /\ stream' = popped /\ calls' = [calls EXCEPT ![o] = @ + 1]
                /\ stack' = Append(Under, Frame("user", s))
                /\ UNCHANGED <<written, wire>>
           ELSE /\ Send(s, o, n)
                /\ IF n = rest THEN stream' = popped /\ CallBack(s, o)
                   ELSE /\ stack' = IF n = 0 THEN Under ELSE stack
                        /\ UNCHANGED <<stream, calls>>
  /\ UNCHANGED <<ctxVars, sysVars, pc, batch, order>>

MutantFlushStillArmed ==
  /\ Runs("flush") /\ stream[Top.stream].writes = <<>>
  /\ LET s == Top.stream
     IN  /\ stream' = [stream EXCEPT ![s].flags = @ \ {"OUT"}]
         /\ conn' = IF stream[s].status = "SHUTDOWN"
                    THEN [conn EXCEPT ![stream[s].fd].shut = TRUE] ELSE conn
  /\ stack' = Under
  /\ UNCHANGED <<opVars, ctxVars, reg, pc, batch, history>>

MutantFlushNoShutdown ==
  /\ Runs("flush") /\ stream[Top.stream].writes = <<>>
  /\ LET s == Top.stream
         r == [stream[s] EXCEPT !.flags = @ \ {"OUT"}]
     IN  /\ stream' = [stream EXCEPT ![s] = r]
         /\ reg' = EventSet(s, r)
  /\ stack' = Under
  /\ UNCHANGED <<opVars, ctxVars, conn, pc, batch, history>>

FlushDone ==
  /\ Runs("flush") /\ stream[Top.stream].writes = <<>>
  /\ LET s == Top.stream
         r == [stream[s] EXCEPT !.flags = @ \ {"OUT"}]
     IN  /\ stream' = [stream EXCEPT ![s] = r]
         /\ reg' = EventSet(s, r)
         /\ conn' = IF r.status = "SHUTDOWN" THEN [conn EXCEPT ![r.fd].shut = TRUE] ELSE conn
  /\ stack' = Under
  /\ UNCHANGED <<opVars, ctxVars, pc, batch, history>>

Return ==
  /\ Runs("user") /\ stack' = Under
  /\ UNCHANGED <<stream, opVars, ctxVars, sysVars, pc, batch, history>>

-----------------------------------------------------------------------------
(* pd_io_run *)

Go(from, to) ==
  /\ pc = from /\ stack = <<>> /\ pc' = to
  /\ UNCHANGED <<stream, opVars, ctxVars, sysVars, stack, batch, history>>

RunLoop == Go("script", "loop")

LoopTest == Go("loop", IF refs > 0 THEN "poll" ELSE "script")

(* epoll_wait returns the descriptors that are ready; which sockets have room
   for writes is up to the peers. *)
Poll ==
  /\ pc = "poll" /\ pc' = "dispatch"
  /\ \E room \in SUBSET Fd :
       batch' = {[stream |-> reg[f].stream, events |-> Ready(f, f \in room)] :
                   f \in {g \in Fd : reg[g] # NoReg /\ Ready(g, g \in room) # {}}}
  /\ batch' # {}
  /\ UNCHANGED <<stream, opVars, ctxVars, sysVars, stack, history>>

DispatchEnd == batch = {} /\ Go("dispatch", "timers")

TimersEnd == Go("timers", "closes")

(* pd__tcp_pending_close calls on_close, which gives the structure back. *)
CloseCb ==
  /\ pc = "closes" /\ pending_closes # <<>> /\ pc' = "closecb"
  /\ LET s == Head(pending_closes)
     IN  /\ stream' = [stream EXCEPT ![s] = Fresh]
         /\ wire' = [wire EXCEPT ![s] = <<>>] /\ order' = [order EXCEPT ![s] = <<>>]
  /\ pending_closes' = Tail(pending_closes)
  /\ UNCHANGED <<opVars, refs, sysVars, stack, batch>>

MutantCloseReturn == Go("closecb", "closes")

CloseReturn ==
  /\ pc = "closecb" /\ stack = <<>> /\ pc' = "closes"
  /\ refs' = refs - 1
  /\ UNCHANGED <<stream, opVars, pending_closes, sysVars, stack, batch, history>>

MutantClosesEnd == Go("closes", "after")

ClosesEnd == pending_closes = <<>> /\ Go("closes", "after")

AfterReturn == Go("after", "loop")

-----------------------------------------------------------------------------
UserCall ==
  \E s \in Stream :
    \/ Connect(s) \/ Accept(s) \/ Pause(s) \/ Resume(s) \/ Shutdown(s) \/ Close(s)
    \/ \E o \in Op : Write(s, o)

LoopStep ==
  \/ Return \/ Cancel \/ Read \/ Eof \/ AfterRead \/ FlushWrite \/ FlushDone
  \/ LoopTest \/ Dispatch \/ DispatchEnd \/ TimersEnd \/ CloseCb \/ CloseReturn \/ ClosesEnd
  \/ AfterReturn

Next == UserCall \/ RunLoop \/ LoopStep \/ Poll \/ Network

Spec == Init /\ [][Next]_vars

-----------------------------------------------------------------------------
TypeOK ==
  /\ \A s \in Stream :
       /\ stream[s].status \in {"NONE", "ACTIVE", "SHUTDOWN", "CLOSED"}
       /\ stream[s].handler \in {"none", "connect", "client"}
       /\ stream[s].flags \subseteq {"IN", "OUT"} /\ stream[s].fd \in Fd \cup {None}
       /\ Range(stream[s].writes) \subseteq Op
  /\ \A o \in Op : written[o] \in 0..Size[o] /\ calls[o] \in Nat
  /\ Range(pending_closes) \subseteq Stream /\ refs \in Nat
  /\ \A f \in Fd : conn[f].in \in 0..MaxIn
  /\ pc \in ProgramPc \cup {"loop", "poll", "dispatch", "closes"} /\ Nesting <= MaxDepth

(* ctx->refs counts each stream from its opening until its on_close returned. *)
StreamRefs ==
  refs = Cardinality({s \in Stream : stream[s].fd # None}) + (IF pc = "closecb" THEN 1 ELSE 0)

(* A closed stream waits for its on_close exactly once, with no write left that
   a cancelled write's callback could have added. *)
ClosingOnce ==
  \A s \in Stream :
    /\ stream[s].status = "CLOSED" /\ ~Inside("cancel", s) <=> s \in Range(pending_closes)
    /\ s \in Range(pending_closes) => stream[s].writes = <<>>
    /\ Cardinality({i \in DOMAIN pending_closes : pending_closes[i] = s}) <= 1

(* Each write the program handed over is in one queue or had its callback
   called, once. *)
EachWriteOnce ==
  /\ \A o \in Op : calls[o] <= 1
  /\ \A s \in Stream : \A o \in Range(order[s]) :
       Cardinality({i \in DOMAIN stream[s].writes : stream[s].writes[i] = o}) + calls[o] = 1

(* What a stream has sent is the beginning of its writes, one after another
   and each complete, however they were split and whoever added one when. *)
WireOrder ==
  \A s \in Stream :
    IsPrefix(wire[s], FlattenSeq([i \in DOMAIN order[s] |->
                                    [j \in 1..Size[order[s][i]] |-> order[s][i]]]))

(* epoll watches each open descriptor for the stream that owns it, and for
   what that stream waits for. *)
EventsReachOwner ==
  \A f \in Fd :
    reg[f] = IF Open(f) THEN [stream |-> conn[f].owner, mask |-> stream[conn[f].owner].flags]
             ELSE NoReg

(* No queued write is forgotten: while there is one the stream waits for room. *)
WritesArmed ==
  \A s \in Stream :
    stream[s].status # "CLOSED" /\ stream[s].writes # <<>> => "OUT" \in stream[s].flags

(* The end of the stream is sent once its last write is, though that write was
   queued when pd_tcp_shutdown was called, or its callback called it. *)
ShutdownKept ==
  \A s \in Stream :
    stream[s].status = "SHUTDOWN" /\ stream[s].writes = <<>> /\ ~Inside("flush", s) =>
      conn[stream[s].fd].shut \/ conn[stream[s].fd].rst

(* The loop does not wait for events while a closed stream waits for on_close. *)
NoWaitOnClose == pc = "poll" => pending_closes = <<>>

ClosedByLoop(s) ==
  /\ stream[s].status = "SHUTDOWN" /\ stream'[s].status = "CLOSED"
  /\ ~InProgram

(* pd_tcp_shutdown leaves the reading side alone: unless the connection was
   reset or the program paused the stream, the loop closes the stream when
   there is nothing left to read. *)
GracefulRead ==
  [][\A s \in Stream :
       ClosedByLoop(s) /\ "IN" \in stream[s].flags =>
         conn[stream[s].fd].in = 0 \/ conn[stream[s].fd].rst]_vars

(* No stream reads from its descriptor after it gave it back. *)
ReadsOpenStream ==
  Runs("io") /\ "IN" \in Top.events => stream[Top.stream].status # "CLOSED"
=============================================================================
