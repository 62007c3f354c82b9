----------------------------- MODULE NetSocket -----------------------------
(***************************************************************************)
(* Sockets of the program: the Socket and Server classes of js/net.js over *)
(* the TcpStream and TcpServer objects of core/tcp.cc and tcp_server.cc,   *)
(* over the streams of pandio and its event loop, which are those of the   *)
(* module TcpStream.                                                       *)
(*                                                                         *)
(* A Socket has one TcpStream in its life, so that both have one name. A   *)
(* "user" frame of TcpStream is a callback of the binding; code says, for  *)
(* each of them, whether it runs JavaScript. V8 runs the microtasks, which *)
(* are JavaScript too, at the end of the outermost callback.               *)
(***************************************************************************)
EXTENDS Integers, Sequences, FiniteSets, SequencesExt

CONSTANTS
  Socket, Op, Size, Fd, None, Rules, MaxIn, MaxDepth,   \* see TcpStream
  MaxReads,     \* bound on the calls of Socket.read
  MaxListens,   \* bound on the calls of Server.listen
  Careful       \* the program keeps to the rules in Patient and read

ASSUME SocketAssumption == IsFiniteSet(Socket) /\ None \notin Socket
ASSUME OpAssumption == Size \in [Op -> Nat \ {0}]
ASSUME FdAssumption == Fd \subseteq Nat /\ IsFiniteSet(Fd) /\ None \notin Fd
ASSUME RulesAssumption == Rules \subseteq {"early", "closed", "inside", "unopened"}
ASSUME BoundAssumption ==
  MaxIn \in Nat /\ MaxDepth \in Nat \ {0} /\ MaxReads \in Nat /\ MaxListens \in Nat
ASSUME CarefulAssumption == Careful \in BOOLEAN

VARIABLES
  stream, written, calls, pending_closes, refs, conn, reg, pc, stack, batch, wire, order,
  socket,      \* per Socket: #state, whether #handle is set, #queue, the promise of connect()
  reads,       \* the promises of read(), in the order of the calls
  native,      \* per Socket: whether its TcpStream is "none", "live" or "deleted"
  code,        \* per "user" frame of stack: what it does
  closing,     \* the Socket whose onClose runs
  listening,   \* how many TcpServers listen
  ready,       \* the batch has an event of one of them
  ended        \* the loop is over, or an exception has unwound it

T == INSTANCE TcpStream WITH Stream <- Socket

tcpVars == <<stream, written, calls, pending_closes, refs, conn, reg, pc, stack, batch, wire, order>>
jsVars == <<socket, reads>>
listenVars == <<listening, ready>>
bindingVars == <<native, closing, listenVars>>
vars == <<tcpVars, jsVars, bindingVars, code, ended>>

Empty == [state |-> "empty", handle |-> FALSE, queue |-> <<>>, connected |-> "none"]

Init ==
  /\ T!Init
  /\ socket = [s \in Socket |-> Empty] /\ reads = <<>>
  /\ native = [s \in Socket |-> "none"]
  /\ code = <<>> /\ closing = None
  /\ listening = 0 /\ ready = FALSE /\ ended = FALSE

-----------------------------------------------------------------------------
(* Where JavaScript of the program runs: the entry script, a timer, and a
   callback that calls or settles something of the program. onClose does so
   for a Socket that was active; after_tick never does. *)
Script ==
  /\ ~ended
  /\ IF stack = <<>> THEN pc \in {"script", "timers"} \/ (pc = "closecb" /\ socket[closing].state = "destroyed")
     ELSE T!Runs("user") /\ Last(code) = "js"

(* The callback is called from JavaScript: microtasks wait. *)
Nested == code # <<>> \/ pc \notin {"dispatch", "closes"}

Calls(what) == code' = Append(code, what)

(* The first reader, if there is one, is settled. *)
Shift(s, how) ==
  LET q == socket[s].queue IN
  /\ socket' = [socket EXCEPT ![s].queue = IF q = <<>> THEN q ELSE Tail(q)]
  /\ reads' = IF q = <<>> THEN reads ELSE [reads EXCEPT ![Head(q)] = how]

SettleConnect(s, how) ==
  socket' = [socket EXCEPT ![s].connected = IF @ = "pending" THEN how ELSE @]

(* onError of the handle: that of connect() until __init has put #onError in
   its place, which throws the error unless the program has set onerror. *)
onError(s) ==
  IF socket[s].state = "connecting"
  THEN /\ SettleConnect(s, "rejected") /\ Calls(IF Nested THEN "nothing" ELSE "js")
       /\ UNCHANGED <<reads, ended>>
  ELSE Shift(s, "rejected") /\ Calls("js") /\ ended' \in BOOLEAN

(* afterWrite of a Writer; #onWrite does nothing. *)
Called == {o \in Op : calls'[o] # calls[o]}

onWrite(s) ==
  \/ Called = {} /\ UNCHANGED <<jsVars, code, ended>>
  \/ \E o \in Called : written'[o] = Size[o] /\ Calls("nothing") /\ UNCHANGED <<jsVars, ended>>
  \/ \E o \in Called : written'[o] # Size[o] /\ onError(s)

onData(s, result) ==
  \/ result = "data" /\ Shift(s, "resolved") /\ Calls("js") /\ UNCHANGED ended
  \/ result \in {"again", "eof"} /\ Calls("nothing") /\ UNCHANGED <<jsVars, ended>>
  \/ result = "error" /\ onError(s)

-----------------------------------------------------------------------------
(* Calls of the program. One that finds no #handle throws or does nothing, and
   one that reaches a TcpStream that has been deleted returns at once. *)
Usable(s) == Script /\ socket[s].handle /\ native[s] = "live"

(* A careful program leaves a socket alone until connect() has settled. *)
Patient(s) == Careful => socket[s].connected # "pending"

(* Socket.__init: the handlers of the Socket become those of the handle. *)
init(s, connected) ==
  socket' = [socket EXCEPT ![s] = [@ EXCEPT !.state = "active", !.handle = TRUE, !.connected = connected]]

(* new TcpStream() *)
Constructed(s) == native' = [native EXCEPT ![s] = "live"]

(* Socket.connect; pd_tcp_connect does not fail at once. *)
connect(s) ==
  /\ Script /\ socket[s] = Empty
  /\ T!Connect(s)
  /\ socket' = [socket EXCEPT ![s] = [Empty EXCEPT !.state = "connecting", !.handle = TRUE,
                                                   !.connected = "pending"]]
  /\ Constructed(s)
  /\ UNCHANGED <<reads, code, closing, listenVars, ended>>

pause(s) ==
  /\ Usable(s) /\ Patient(s)
  /\ T!Pause(s) \/ T!Resume(s)
  /\ UNCHANGED <<jsVars, code, ended, bindingVars>>

shutdown(s) ==
  /\ Usable(s) /\ Patient(s) /\ T!Shutdown(s)
  /\ UNCHANGED <<jsVars, code, ended, bindingVars>>

(* Mutant: the TcpStream is deleted at once, as TcpServer::close does. *)
Mutantdestroy(s) ==
  /\ Usable(s) /\ Patient(s)
  /\ T!Close(s)
  /\ native' = [native EXCEPT ![s] = "deleted"]
  /\ UNCHANGED <<jsVars, code, ended, closing, listenVars>>

destroy(s) ==
  /\ Usable(s) /\ Patient(s)
  /\ T!Close(s)
  /\ UNCHANGED <<jsVars, code, ended, bindingVars>>

write(s, o) ==
  /\ Usable(s) /\ Patient(s)
  /\ T!Write(s, o) /\ onWrite(s)
  /\ UNCHANGED bindingVars

(* read asks for #handle alone, which a Socket whose connect() was rejected
   keeps for good. A careful program reads no such Socket, and awaits each
   read() before the next one. *)
read(s) ==
  /\ Script /\ socket[s].handle /\ Patient(s) /\ Len(reads) < MaxReads
  /\ Careful => socket[s].connected # "rejected" /\ socket[s].queue = <<>>
  /\ reads' = Append(reads, "pending")
  /\ socket' = [socket EXCEPT ![s].queue = Append(@, Len(reads'))]
  /\ UNCHANGED <<tcpVars, code, ended, bindingVars>>

(* Server.listen on a port that is free; the handle is not kept, so that a
   second call is not refused and close() cannot find it. *)
listen ==
  /\ Script /\ listening < MaxListens
  /\ listening' = listening + 1 /\ refs' = refs + 1
  /\ UNCHANGED <<stream, written, calls, pending_closes, conn, reg, pc, stack, batch, wire, order>>
  /\ UNCHANGED <<jsVars, native, code, closing, ready, ended>>

Throws ==
  /\ Script /\ ended' = TRUE
  /\ UNCHANGED <<tcpVars, jsVars, code, bindingVars>>

-----------------------------------------------------------------------------
(* Callbacks of pandio. *)

(* A listener accepts one connection for an event, and #handleConnection gives
   it a Socket. accept() may also find that the peer has gone. *)
onConnection ==
  /\ ~ended /\ ready /\ pc = "dispatch" /\ stack = <<>> /\ ready' = FALSE
  /\ \/ \E s \in Socket :
          /\ socket[s] = Empty
          /\ T!AcceptOver(s) /\ stack' = T!Push("user", s) /\ Calls("js")
          /\ init(s, "none") /\ Constructed(s)
          /\ UNCHANGED <<pc, batch>>
     \/ UNCHANGED <<tcpVars, code, socket, native>>
  /\ UNCHANGED <<reads, closing, listening, ended>>

(* TcpStream::onConnect, or the handler of an active stream is entered. *)
Dispatch ==
  /\ ~ended /\ T!Dispatch
  /\ IF stack' = stack \/ Last(stack').fn # "user" THEN UNCHANGED <<socket, code>>
     ELSE LET s == Last(stack').stream IN
          IF stream'[s].status = "ACTIVE"
          THEN /\ init(s, IF socket[s].connected = "pending" THEN "resolved" ELSE socket[s].connected)
               /\ Calls("js")
          ELSE Calls("close") /\ UNCHANGED socket
  /\ UNCHANGED <<reads, ended, bindingVars>>

Becomes(what) == code' = Append(Front(code), what)

ConnectFailed ==
  /\ T!Runs("user") /\ Last(code) = "close"
  /\ T!CloseOver(T!Top.stream, stack) /\ Becomes("error")
  /\ UNCHANGED <<jsVars, ended, bindingVars>>

(* Mutant: the reject of connect() is not called. *)
MutantConnectRejected ==
  /\ T!Runs("user") /\ Last(code) = "error"
  /\ Becomes("js")
  /\ UNCHANGED <<tcpVars, jsVars, ended, bindingVars>>

ConnectRejected ==
  /\ T!Runs("user") /\ Last(code) = "error"
  /\ SettleConnect(T!Top.stream, "rejected") /\ Becomes("js")
  /\ UNCHANGED <<tcpVars, reads, ended, bindingVars>>

Read ==
  /\ ~ended /\ T!Read
  /\ onData(T!Top.stream, T!ReadResult(stream[T!Top.stream].fd))
  /\ UNCHANGED bindingVars

Written ==
  /\ ~ended /\ (T!FlushWrite \/ T!Cancel)
  /\ onWrite(T!Top.stream)
  /\ UNCHANGED bindingVars

Return ==
  /\ ~ended /\ T!Return /\ Last(code) \in {"js", "nothing"}
  /\ code' = Front(code)
  /\ UNCHANGED <<jsVars, ended, bindingVars>>

(* Mutant: #onClose forgets the readers. *)
MutantonClose ==
  /\ ~ended /\ T!CloseCb /\ closing' = Head(pending_closes)
  /\ LET s == closing' IN
     IF socket[s].state = "active"
     THEN socket' = [socket EXCEPT ![s].handle = FALSE, ![s].state = "destroyed"] /\ UNCHANGED reads
     ELSE UNCHANGED jsVars
  /\ UNCHANGED <<code, ended, native, listenVars>>

(* TcpStream::onClose calls #onClose, or the empty onClose of connect(): ... *)
onClose ==
  /\ ~ended /\ T!CloseCb /\ closing' = Head(pending_closes)
  /\ LET s == closing' q == socket[s].queue IN
     IF socket[s].state = "active"
     THEN /\ socket' = [socket EXCEPT ![s] = [@ EXCEPT !.handle = FALSE, !.state = "destroyed",
                                                       !.queue = IF q = <<>> THEN q ELSE Tail(q)]]
          /\ reads' = IF q = <<>> THEN reads ELSE [reads EXCEPT ![Head(q)] = "rejected"]
     ELSE UNCHANGED jsVars
  /\ UNCHANGED <<code, ended, native, listenVars>>

(* ... and deletes the object. *)
onCloseEnd ==
  /\ ~ended /\ T!CloseReturn
  /\ native' = [native EXCEPT ![closing] = "deleted"] /\ closing' = None
  /\ UNCHANGED <<jsVars, code, ended, listenVars>>

-----------------------------------------------------------------------------
(* The loop. *)
Poll ==
  /\ ~ended /\ T!Poll /\ ready' \in {FALSE, listening > 0}
  /\ UNCHANGED <<jsVars, native, code, closing, listening, ended>>

(* Only a listener has an event. *)
PollListener ==
  /\ ~ended /\ pc = "poll" /\ listening > 0
  /\ pc' = "dispatch" /\ ready' = TRUE
  /\ UNCHANGED <<stream, written, calls, pending_closes, refs, conn, reg, stack, batch, wire, order>>
  /\ UNCHANGED <<jsVars, native, code, closing, listening, ended>>

(* pd_io_run returns when nothing is left, and the program ends. *)
LoopTest ==
  /\ ~ended /\ T!LoopTest /\ ended' = (pc' = "script")
  /\ UNCHANGED <<jsVars, code, bindingVars>>

LoopStep ==
  /\ ~ended
  /\ \/ T!Eof \/ T!AfterRead \/ T!FlushDone \/ (~ready /\ T!DispatchEnd)
     \/ T!TimersEnd \/ T!ClosesEnd \/ T!AfterReturn
  /\ UNCHANGED <<jsVars, code, ended, bindingVars>>

Outside ==
  /\ ~ended /\ (T!RunLoop \/ T!Network)
  /\ UNCHANGED <<jsVars, code, ended, bindingVars>>

Call ==
  \/ listen \/ Throws
  \/ \E s \in Socket : connect(s) \/ pause(s) \/ shutdown(s) \/ destroy(s) \/ read(s) \/ \E o \in Op : write(s, o)

Step ==
  \/ onConnection \/ Dispatch \/ ConnectFailed \/ ConnectRejected \/ Read \/ Written \/ Return
  \/ onClose \/ onCloseEnd \/ LoopTest \/ LoopStep

Next == Call \/ Step \/ Poll \/ PollListener \/ Outside

Spec == Init /\ [][Next]_vars

(* The loop runs on: callbacks return, and it turns until it waits. *)
LiveSpec == Spec /\ WF_vars(Step)

-----------------------------------------------------------------------------
(* What the event loop still holds of a stream. *)
Held(s) ==
  \/ \E f \in Fd : reg[f].stream = s
  \/ \E e \in batch : e.stream = s
  \/ s \in Range(pending_closes) \cup {closing}
  \/ \E i \in DOMAIN stack : stack[i].stream = s

(* The TcpStream object lives exactly as long as the event loop may call it
   back, and its Socket is active exactly until it has been told of the end:
   no callback meets a deleted object, and no object is left over. *)
StreamLife ==
  \A s \in Socket :
    /\ native[s] = "live" <=> Held(s)
    /\ socket[s].state = "active" <=> native[s] = "live" /\ stream[s].handler = "client"
    /\ socket[s].state = "destroyed" => ~socket[s].handle

(* A program that keeps to the rules of Patient and read does not wait in vain
   for read(): a promise that is pending is in the queue of one Socket, and that
   Socket has a stream, whose data or end will settle it. *)
ReadsServed ==
  /\ \A r \in DOMAIN reads :
       reads[r] = "pending" <=> Cardinality({s \in Socket : r \in Range(socket[s].queue)}) = 1
  /\ \A s \in Socket : socket[s].queue # <<>> => stream[s].fd # None

(* Nobody waits in vain for connect(): while its promise is pending epoll
   watches the attempt, unless its failure is being reported; it is resolved
   only for a Socket that became active, and rejected only for one that never
   did. *)
ConnectAnswered ==
  \A s \in Socket :
    /\ socket[s].connected = "pending" =>
         \/ stream[s].handler = "connect" /\ stream[s].status = "NONE" /\ \E f \in Fd : reg[f].stream = s
         \/ T!Inside("user", s)
    /\ socket[s].connected = "resolved" => socket[s].state \in {"active", "destroyed"}
    /\ socket[s].connected = "rejected" => socket[s].state = "connecting"

(* ctx->refs counts each stream from its opening until its on_close returned,
   and each listener, which nothing closes. *)
RefsCount ==
  refs = Cardinality({s \in Socket : stream[s].fd # None}) + (IF pc = "closecb" THEN 1 ELSE 0)
           + listening

(* pd_io_run returns, and with it the program, only when no socket is open and
   no server listens. *)
QuiescentEnd ==
  [][LoopTest /\ ended' => listening = 0 /\ \A s \in Socket : stream[s].fd = None]_vars

(* Each stream that was closed is deleted, and its Socket told. *)
ClosesTold ==
  \A s \in Socket : stream[s].status = "CLOSED" ~> native[s] = "deleted" \/ ended
=============================================================================
