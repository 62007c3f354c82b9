-------------------------- MODULE NetSocketProofs ---------------------------
(***************************************************************************)
(* The invariants of NetSocket, for any sockets, writes and descriptors,   *)
(* any depth of callbacks and any number of reads and listeners.           *)
(*                                                                         *)
(* They rest on the core of the invariant of TcpStream, which the calls of *)
(* the binding keep: P is that module with its proofs.                     *)
(***************************************************************************)
EXTENDS NetSocket, FiniteSetTheorems, SequenceTheorems, TLAPS

P == INSTANCE TcpStreamProofs WITH Stream <- Socket

-----------------------------------------------------------------------------
(* The inductive invariant. *)

Promised == {"pending", "resolved", "rejected"}
SocketRec == [state : {"empty", "connecting", "active", "destroyed"}, handle : BOOLEAN,
              queue : Seq(Nat), connected : {"none"} \cup Promised]

(* The native object lives while its stream is open, and until the on_close
   that was its last callback returns; the state of the Socket is that of the
   handler of the stream. *)
Life(s) ==
  /\ native[s] = "live" <=> P!Opened(s) \/ closing = s
  /\ native[s] # "none" => socket[s].state # "empty"
  /\ socket[s].state = "active" <=> P!Opened(s) /\ stream[s].handler = "client"
  /\ socket[s].handle <=> socket[s].state \in {"connecting", "active"}
  /\ P!Opened(s) /\ stream[s].handler = "connect" => socket[s].state = "connecting"
  /\ closing = s => ~P!Opened(s)

Typed == socket \in [Socket -> SocketRec] /\ reads \in Seq(Promised)

Lives ==
  /\ Typed /\ native \in [Socket -> {"none", "live", "deleted"}]
  /\ closing \in Socket \cup {None} /\ (closing # None <=> pc = "closecb")
  /\ \A s \in Socket : Life(s)

(* The callback of a connection that failed is all that runs: it closes the
   stream, which has no write to cancel, and then rejects connect(). *)
Failing(s) ==
  /\ stream[s].handler = "connect" /\ P!Opened(s)
  /\ Len(code) = 1 /\ stack # <<>> /\ stack[1] = P!Frame("user", s)
  /\ \/ code[1] = "close" /\ Len(stack) = 1
     \/ /\ code[1] = "error" /\ ~P!Live(s)
        /\ Len(stack) = 1 \/ (Len(stack) = 2 /\ stack[2] = P!Frame("cancel", s))

Scripts == {"js", "nothing"}
Plain == \A i \in 1..Len(code) : code[i] \in Scripts

(* Each callback on the stack has its code. *)
Codes ==
  /\ code \in Seq(Scripts \cup {"close", "error"}) /\ Len(code) = P!Nesting
  /\ calls \in [Op -> Nat]
  /\ \A s \in Socket : stream[s].handler = "connect" => stream[s].writes = <<>>
  /\ Plain \/ \E s \in Socket : Failing(s)

-----------------------------------------------------------------------------
(* The assumptions on the constants are those of the streams. *)

LEMMA Given ==
  /\ P!IsFiniteSet(Socket) /\ None \notin Socket /\ Size \in [Op -> Nat \ {0}]
  /\ Fd \subseteq Nat /\ P!IsFiniteSet(Fd) /\ None \notin Fd
  /\ Rules \subseteq {"early", "closed", "inside", "unopened"}
  /\ MaxIn \in Nat /\ MaxDepth \in Nat \ {0}
<1>1. \A S : P!IsFiniteSet(S) <=> IsFiniteSet(S) BY DEF P!IsFiniteSet, IsFiniteSet
<1> QED BY <1>1, SocketAssumption, OpAssumption, FdAssumption, RulesAssumption, BoundAssumption

-----------------------------------------------------------------------------
(* An INSTANCE has definitions of its own: they are the same ones. *)

LEMMA SameTests ==
  /\ T!Top = P!Top /\ T!Under = P!Under /\ T!InProgram = P!InProgram
  /\ \A fn : T!Runs(fn) = P!Runs(fn)
  BY DEF T!Top, P!Top, T!Under, P!Under, T!InProgram, P!InProgram, T!ProgramPc, P!ProgramPc, T!Runs, P!Runs

LEMMA SameInit == T!Init => P!Init
  BY DEF T!Init, P!Init, T!Fresh, P!Fresh, T!NoConn, P!NoConn, T!NoReg, P!NoReg

LEMMA SameConnect ==
  ASSUME NEW s \in Socket, T!Connect(s)
  PROVE  P!Connect(s)
  BY DEF T!Connect, P!Connect, T!InProgram, P!InProgram, T!Top, P!Top, T!ProgramPc, P!ProgramPc,
         T!Fresh, P!Fresh, T!FreeFd, P!FreeFd, T!Open, P!Open, T!LowestFree, P!LowestFree,
         T!Register, P!Register, T!NoConn, P!NoConn, T!opVars, P!opVars, T!history, P!history,
         T!loopVars, P!loopVars

LEMMA SameDispatch == T!Dispatch => P!Dispatch
  BY DEF T!Dispatch, P!Dispatch, T!ConnectIo, P!ConnectIo, T!Call, P!Call, T!Push, P!Push,
         T!Frame, P!Frame, T!EventSet, P!EventSet, T!NoReg, P!NoReg, T!opVars, P!opVars,
         T!ctxVars, P!ctxVars, T!history, P!history

LEMMA SameWrite ==
  ASSUME NEW s \in Socket, NEW o \in Op, T!Write(s, o)
  PROVE  P!Write(s, o)
  BY DEF T!Write, P!Write, T!MayCall, P!MayCall, T!InProgram, P!InProgram, T!Top, P!Top,
         T!ProgramPc, P!ProgramPc, T!Nesting, P!Nesting, T!Unused, P!Unused, T!WriteRefused, P!WriteRefused, T!WriteDirect, P!WriteDirect,
         T!WriteQueued, P!WriteQueued, T!WriteAsync, P!WriteAsync, T!CallBack, P!CallBack,
         T!Push, P!Push, T!Frame, P!Frame, T!EventSet, P!EventSet, T!NoReg, P!NoReg, T!opVars, P!opVars,
         T!ctxVars, P!ctxVars, T!history, P!history, T!Send, P!Send, T!WriteResults, P!WriteResults,
         T!Cardinality, P!Cardinality, T!Range, P!Range

LEMMA SameMask ==
  ASSUME NEW s \in Socket, NEW flags, T!SetFlags(s, flags)
  PROVE  P!SetFlags(s, flags)
  BY DEF T!SetFlags, P!SetFlags, T!InProgram, P!InProgram, T!Top, P!Top, T!ProgramPc,
         P!ProgramPc, T!Allowed, P!Allowed, T!EventSet, P!EventSet, T!NoReg, P!NoReg,
         T!opVars, P!opVars, T!ctxVars, P!ctxVars, T!sysVars, P!sysVars, T!loopVars,
         P!loopVars, T!history, P!history

LEMMA SameShutdown ==
  ASSUME NEW s \in Socket, T!Shutdown(s)
  PROVE  P!Shutdown(s)
  BY DEF T!Shutdown, P!Shutdown, T!InProgram, P!InProgram, T!Top, P!Top, T!ProgramPc,
         P!ProgramPc, T!EventSet, P!EventSet, T!NoReg, P!NoReg, T!opVars, P!opVars,
         T!ctxVars, P!ctxVars, T!sysVars, P!sysVars, T!loopVars, P!loopVars, T!history,
         P!history

LEMMA SameCloseOver ==
  ASSUME NEW s \in Socket, NEW rest, T!CloseOver(s, rest)
  PROVE  P!CloseOver(s, rest)
  BY DEF T!CloseOver, P!CloseOver, T!NoReg, P!NoReg, T!NoConn, P!NoConn, T!Frame, P!Frame,
         T!opVars, P!opVars, T!ctxVars, P!ctxVars, T!sysVars, P!sysVars, T!loopVars,
         P!loopVars, T!history, P!history

LEMMA SameClose ==
  ASSUME NEW s \in Socket, T!Close(s)
  PROVE  P!Close(s)
  BY DEF T!Close, P!Close, T!CloseOver, P!CloseOver, T!NoReg, P!NoReg, T!NoConn, P!NoConn,
         T!Frame, P!Frame, T!MayCall, P!MayCall, T!Nesting, P!Nesting, T!InProgram,
         P!InProgram, T!Top, P!Top, T!ProgramPc, P!ProgramPc, T!Allowed, P!Allowed,
         T!Inside, P!Inside, T!Cardinality, P!Cardinality, T!opVars, P!opVars, T!ctxVars,
         P!ctxVars, T!sysVars, P!sysVars, T!loopVars, P!loopVars, T!history, P!history

LEMMA SameAccept ==
  ASSUME NEW s \in Socket, T!AcceptOver(s)
  PROVE  P!AcceptOver(s)
  BY DEF T!AcceptOver, P!AcceptOver, T!FreeFd, P!FreeFd, T!Open, P!Open, T!LowestFree,
         P!LowestFree, T!Register, P!Register, T!NoConn, P!NoConn, T!Fresh, P!Fresh,
         T!opVars, P!opVars, T!ctxVars, P!ctxVars, T!sysVars, P!sysVars, T!loopVars,
         P!loopVars, T!history, P!history

LEMMA SameRead == T!Read => P!Read
  BY DEF T!Read, P!Read, T!Runs, P!Runs, T!Top, P!Top, T!Under, P!Under, T!ReadResult,
         P!ReadResult, T!Open, P!Open, T!Frame, P!Frame, T!opVars, P!opVars, T!ctxVars,
         P!ctxVars, T!sysVars, P!sysVars, T!loopVars, P!loopVars, T!history, P!history

LEMMA SameFlush == (T!FlushWrite => P!FlushWrite) /\ (T!FlushDone => P!FlushDone)
  BY DEF T!FlushWrite, P!FlushWrite, T!FlushDone, P!FlushDone, T!Runs, P!Runs, T!Top, P!Top,
         T!Under, P!Under, T!WriteResults, P!WriteResults, T!Send, P!Send, T!CallBack,
         P!CallBack, T!Push, P!Push, T!Frame, P!Frame, T!EventSet, P!EventSet, T!NoReg,
         P!NoReg, T!opVars, P!opVars, T!ctxVars, P!ctxVars, T!sysVars, P!sysVars,
         T!loopVars, P!loopVars, T!history, P!history

LEMMA SameCancel == T!Cancel => P!Cancel
  BY DEF T!Cancel, P!Cancel, T!Runs, P!Runs, T!Top, P!Top, T!Under, P!Under, T!CallBack,
         P!CallBack, T!Push, P!Push, T!Frame, P!Frame, T!opVars, P!opVars, T!ctxVars,
         P!ctxVars, T!sysVars, P!sysVars, T!loopVars, P!loopVars, T!history, P!history

LEMMA SameEof == (T!Eof => P!Eof) /\ (T!AfterRead => P!AfterRead)
  BY DEF T!Eof, P!Eof, T!AfterRead, P!AfterRead, T!Runs, P!Runs, T!Top, P!Top, T!Under,
         P!Under, T!CloseOver, P!CloseOver, T!NoReg, P!NoReg, T!NoConn, P!NoConn, T!Frame,
         P!Frame, T!opVars, P!opVars, T!ctxVars, P!ctxVars, T!sysVars, P!sysVars,
         T!loopVars, P!loopVars, T!history, P!history

LEMMA SameReturn == T!Return => P!Return
  BY DEF T!Return, P!Return, T!Runs, P!Runs, T!Top, P!Top, T!Under, P!Under, T!opVars,
         P!opVars, T!ctxVars, P!ctxVars, T!sysVars, P!sysVars, T!loopVars, P!loopVars,
         T!history, P!history

LEMMA SamePoll == T!Poll => P!Poll
  BY DEF T!Poll, P!Poll, T!Ready, P!Ready, T!NoReg, P!NoReg, T!opVars, P!opVars, T!ctxVars,
         P!ctxVars, T!sysVars, P!sysVars, T!loopVars, P!loopVars, T!history, P!history

LEMMA SameNetwork == T!Network => P!Network
  BY DEF T!Network, P!Network, T!Established, P!Established, T!PeerSend, P!PeerSend,
         T!PeerFin, P!PeerFin, T!Reset, P!Reset, T!Settled, P!Settled, T!Open, P!Open,
         T!opVars, P!opVars, T!ctxVars, P!ctxVars, T!sysVars, P!sysVars, T!loopVars,
         P!loopVars, T!history, P!history

LEMMA SameCb == (T!CloseCb => P!CloseCb) /\ (T!CloseReturn => P!CloseReturn)
  BY DEF T!CloseCb, P!CloseCb, T!CloseReturn, P!CloseReturn, T!Fresh, P!Fresh, T!opVars,
         P!opVars, T!ctxVars, P!ctxVars, T!sysVars, P!sysVars, T!loopVars, P!loopVars,
         T!history, P!history

LEMMA SameMoves ==
  /\ T!RunLoop \/ T!LoopTest \/ T!DispatchEnd \/ T!TimersEnd \/ T!ClosesEnd \/ T!AfterReturn
       => P!MoveOn
  BY DEF T!RunLoop, T!LoopTest, T!DispatchEnd, T!TimersEnd, T!ClosesEnd, T!AfterReturn, T!Go,
         P!MoveOn, P!Moves, P!Go, T!opVars, P!opVars, T!ctxVars, P!ctxVars, T!sysVars, P!sysVars,
         T!history, P!history

-----------------------------------------------------------------------------
(* What a callback does to the promises. *)

SameStates ==
  \A s \in Socket :
    socket'[s].state = socket[s].state /\ socket'[s].handle = socket[s].handle

LEMMA PromiseSettled ==
  ASSUME NEW q \in Seq(Promised), NEW i, NEW how \in Promised
  PROVE  /\ [q EXCEPT ![i] = how] \in Seq(Promised)
         /\ DOMAIN [q EXCEPT ![i] = how] = DOMAIN q
         /\ \A j \in DOMAIN q : [q EXCEPT ![i] = how][j] = IF j = i THEN how ELSE q[j]
<1>1. CASE i \in 1..Len(q)
  <2>1. [q EXCEPT ![i] = how] \in Seq(Promised) BY <1>1, ExceptSeq
  <2> QED BY <1>1, <2>1
<1>2. CASE i \notin 1..Len(q)
  <2>1. [q EXCEPT ![i] = how] = q BY <1>2
  <2> QED BY <1>2, <2>1
<1> QED BY <1>1, <1>2

LEMMA EmptyType ==
  Empty \in SocketRec /\ Empty.state = "empty" /\ Empty.queue = <<>> /\ Empty.connected = "none"
<1>1. PICK q \in Seq(Nat) : q = <<>>
  <2>1. <<>> \in Seq(Nat) BY EmptySeq
  <2> QED BY <2>1
<1>2. Empty = [state |-> "empty", handle |-> FALSE, queue |-> q, connected |-> "none"]
  BY <1>1 DEF Empty
<1> QED BY <1>1, <1>2 DEF SocketRec

LEMMA ShiftFacts ==
  ASSUME Typed, NEW s \in Socket, NEW how \in Promised, Shift(s, how)
  PROVE  /\ Typed' /\ SameStates
         /\ \A t \in Socket : socket'[t].connected = socket[t].connected
<1> DEFINE q == socket[s].queue
           rest == IF q = <<>> THEN q ELSE Tail(q)
           r == [socket[s] EXCEPT !.queue = rest]
<1>1. q \in Seq(Nat) /\ socket[s] \in SocketRec BY DEF Typed, SocketRec
<1>2. rest \in Seq(Nat) BY <1>1
<1>3. r \in SocketRec /\ r.state = socket[s].state /\ r.handle = socket[s].handle
      /\ r.connected = socket[s].connected
  BY <1>1, <1>2 DEF SocketRec
<1>4. socket' = [socket EXCEPT ![s] = r] BY DEF Shift, Typed
<1> HIDE DEF r
<1>5. reads' \in Seq(Promised) BY PromiseSettled DEF Shift, Typed
<1>6. socket'[s] = r /\ \A t \in Socket \ {s} : socket'[t] = socket[t] BY <1>4 DEF Typed
<1>7. socket' \in [Socket -> SocketRec] BY <1>3, <1>4 DEF Typed
<1> QED BY <1>3, <1>5, <1>6, <1>7 DEF Typed, SameStates

LEMMA SettleFacts ==
  ASSUME Typed, NEW s \in Socket, NEW how \in Promised, SettleConnect(s, how)
  PROVE  /\ socket' \in [Socket -> SocketRec] /\ SameStates
         /\ \A t \in Socket : socket'[t].queue = socket[t].queue
         /\ \A t \in Socket \ {s} : socket'[t] = socket[t]
         /\ socket'[s].connected = IF socket[s].connected = "pending" THEN how ELSE socket[s].connected
<1> DEFINE c == IF socket[s].connected = "pending" THEN how ELSE socket[s].connected
           r == [socket[s] EXCEPT !.connected = c]
<1>1. socket[s] \in SocketRec BY DEF Typed
<1>2. c \in {"none"} \cup Promised BY <1>1 DEF SocketRec
<1>3. r \in SocketRec /\ r.state = socket[s].state /\ r.handle = socket[s].handle
      /\ r.queue = socket[s].queue /\ r.connected = c
  BY <1>1, <1>2 DEF SocketRec
<1>4. socket' = [socket EXCEPT ![s] = r] BY DEF SettleConnect, Typed
<1> HIDE DEF r
<1>5. socket'[s] = r /\ \A t \in Socket \ {s} : socket'[t] = socket[t] BY <1>4 DEF Typed
<1>6. socket' \in [Socket -> SocketRec] BY <1>3, <1>4 DEF Typed
<1> QED BY <1>3, <1>5, <1>6 DEF SameStates

LEMMA ReadFacts ==
  ASSUME Typed, NEW s \in Socket, read(s)
  PROVE  /\ Typed' /\ SameStates
         /\ reads' = Append(reads, "pending") /\ Len(reads) + 1 \in Nat
         /\ socket'[s].queue = Append(socket[s].queue, Len(reads) + 1)
         /\ \A t \in Socket \ {s} : socket'[t] = socket[t]
         /\ socket'[s].connected = socket[s].connected
<1>1. reads' = Append(reads, "pending") /\ reads' \in Seq(Promised) /\ Len(reads') = Len(reads) + 1
  BY DEF read, Typed, Promised
<1>2. PICK n \in Nat : n = Len(reads) + 1 BY DEF Typed
<1>3. socket[s] \in SocketRec /\ socket[s].queue \in Seq(Nat) BY DEF Typed, SocketRec
<1>4. PICK q \in Seq(Nat) : q = Append(socket[s].queue, n)
  <2>1. Append(socket[s].queue, n) \in Seq(Nat) BY <1>2, <1>3
  <2> QED BY <2>1
<1> DEFINE r == [socket[s] EXCEPT !.queue = q]
<1>5. socket' = [socket EXCEPT ![s] = r]
  <2>1. socket' = [socket EXCEPT ![s].queue = Append(socket[s].queue, Len(reads'))] BY DEF read
  <2>2. Append(socket[s].queue, Len(reads')) = q BY <1>1, <1>2, <1>4
  <2>3. socket' = [socket EXCEPT ![s].queue = q] BY <2>1, <2>2
  <2> QED BY <2>3
<1>6. /\ r \in SocketRec /\ r.state = socket[s].state /\ r.handle = socket[s].handle
      /\ r.queue = q /\ r.connected = socket[s].connected
  BY <1>3 DEF SocketRec
<1> HIDE DEF r
<1>7. socket'[s] = r /\ \A t \in Socket \ {s} : socket'[t] = socket[t] BY <1>5 DEF Typed
<1>8. socket' \in [Socket -> SocketRec] BY <1>5, <1>6 DEF Typed
<1>9. Typed' BY <1>1, <1>8 DEF Typed
<1>10. SameStates BY <1>6, <1>7 DEF SameStates
<1> QED BY <1>1, <1>2, <1>4, <1>6, <1>7, <1>9, <1>10

(* A callback runs, or settles something and then runs. *)
Calling == \E what \in Scripts : Calls(what)

LEMMA ErrorFacts ==
  ASSUME Typed, NEW s \in Socket, onError(s)
  PROVE  Typed' /\ SameStates /\ Calling
<1>1. CASE socket[s].state = "connecting"
  <2>1. SettleConnect(s, "rejected") /\ reads' = reads BY <1>1 DEF onError
  <2>2. "rejected" \in Promised BY DEF Promised
  <2>3. socket' \in [Socket -> SocketRec] /\ SameStates BY <2>1, <2>2, SettleFacts
  <2>4. Calling BY <1>1 DEF onError, Calling, Scripts
  <2> QED BY <2>1, <2>3, <2>4 DEF Typed
<1>2. CASE socket[s].state # "connecting"
  <2>1. Shift(s, "rejected") /\ Calls("js") BY <1>2 DEF onError
  <2>2. "rejected" \in Promised BY DEF Promised
  <2> QED BY <2>1, <2>2, ShiftFacts DEF Calling, Scripts
<1> QED BY <1>1, <1>2

LEMMA SameTyped ==
  ASSUME Typed, UNCHANGED jsVars
  PROVE  Typed' /\ SameStates
  BY DEF Typed, SameStates, jsVars

LEMMA WriteFacts ==
  ASSUME Typed, NEW s \in Socket, onWrite(s)
  PROVE  Typed' /\ SameStates /\ (IF Called = {} THEN code' = code ELSE Calling)
<1>1. CASE Called = {} /\ UNCHANGED <<jsVars, code, ended>> BY <1>1, SameTyped
<1>2. CASE Called # {} /\ Calls("nothing") /\ UNCHANGED <<jsVars, ended>>
  BY <1>2, SameTyped DEF Calling, Scripts
<1>3. CASE Called # {} /\ onError(s) BY <1>3, ErrorFacts
<1> QED BY <1>1, <1>2, <1>3 DEF onWrite

LEMMA DataFacts ==
  ASSUME Typed, NEW s \in Socket, NEW result, onData(s, result)
  PROVE  Typed' /\ SameStates /\ Calling
<1>1. CASE Shift(s, "resolved") /\ Calls("js")
  <2>1. "resolved" \in Promised BY DEF Promised
  <2> QED BY <1>1, <2>1, ShiftFacts DEF Calling, Scripts
<1>2. CASE Calls("nothing") /\ UNCHANGED <<jsVars, ended>> BY <1>2, SameTyped DEF Calling, Scripts
<1>3. CASE onError(s) BY <1>3, ErrorFacts
<1> QED BY <1>1, <1>2, <1>3 DEF onData

-----------------------------------------------------------------------------
(* The steps that open no stream, make none active and give none back. *)

Still ==
  /\ P!Core' /\ P!SameEnds /\ Typed' /\ SameStates
  /\ UNCHANGED <<native, closing>> /\ (pc' = "closecb" <=> pc = "closecb")

(* The code follows the calls on the stack. *)
Entered ==
  /\ calls' \in [Op -> Nat]
  /\ \/ code' = code /\ P!Nesting' = P!Nesting
     \/ Calling /\ P!Nesting' = P!Nesting + 1

LEMMA EnteredSame ==
  ASSUME Codes, UNCHANGED <<code, calls>>, P!Nesting' = P!Nesting
  PROVE  Entered
  BY DEF Codes, Entered

LEMMA EnteredWrite ==
  ASSUME Typed, Codes, NEW s \in Socket, onWrite(s), P!Counted
  PROVE  Entered /\ Typed' /\ SameStates
<1>1. Typed' /\ SameStates /\ (IF Called = {} THEN code' = code ELSE Calling) BY WriteFacts
<1>2. calls \in [Op -> Nat] BY DEF Codes
<1>3. CASE calls' = calls /\ P!Nesting' = P!Nesting
  <2>1. Called = {} BY <1>3 DEF Called
  <2> QED BY <1>1, <1>2, <1>3, <2>1 DEF Entered
<1>4. CASE \E o \in Op : calls' = [calls EXCEPT ![o] = @ + 1] /\ P!Nesting' = P!Nesting + 1
  <2>1. PICK o \in Op : calls' = [calls EXCEPT ![o] = @ + 1] /\ P!Nesting' = P!Nesting + 1
    BY <1>4
  <2>2. calls'[o] # calls[o] /\ calls' \in [Op -> Nat] BY <1>2, <2>1
  <2>3. Called # {} BY <2>2 DEF Called
  <2> QED BY <1>1, <2>1, <2>2, <2>3 DEF Entered
<1> QED BY <1>3, <1>4 DEF P!Counted

LEMMA StillSame ==
  ASSUME P!Core, UNCHANGED tcpVars
  PROVE  P!Core' /\ P!SameEnds /\ P!SameAttempts /\ P!Nesting' = P!Nesting
<1>1. UNCHANGED P!vars
  BY DEF tcpVars, P!vars, P!opVars, P!ctxVars, P!sysVars, P!loopVars, P!history
<1>2. UNCHANGED <<stream, conn, reg, pending_closes, stack, pc, batch>> BY DEF tcpVars
<1>3. P!SameEnds /\ P!SameAttempts BY <1>2, Given, P!EndsSame
<1>4. P!Nesting' = P!Nesting BY <1>2, Given, P!NestingKept
<1>5. P!Streams'
  BY <1>2 DEF P!Core, P!Streams, P!Attached, P!Watched, P!Opened, P!Live, P!Open
<1>6. P!Calls' BY <1>2 DEF P!Core, P!Calls, P!Good, P!Opened, P!Live
<1>7. P!Closing' BY <1>2 DEF P!Core, P!Closing, P!Inside, P!Cancels
<1> QED BY <1>3, <1>4, <1>5, <1>6, <1>7 DEF P!Core

(* Calls of the program that reach the stream, closing apart. *)
LEMMA StillProgram ==
  ASSUME P!Careful, P!Core, Lives, Codes, NEW s \in Socket,
         pause(s) \/ shutdown(s) \/ \E o \in Op : write(s, o)
  PROVE  Still /\ P!SameAttempts /\ Entered
<1>1. Typed BY DEF Lives
<1>2. CASE pause(s) \/ shutdown(s)
  <2>1. P!Masking(s) \/ P!Shutdown(s)
    <3>1. CASE shutdown(s) BY <3>1, SameShutdown DEF shutdown
    <3>2. CASE pause(s)
      <4>1. PICK flags \in {stream[s].flags \ {"IN"}, stream[s].flags \cup {"IN"}} : T!SetFlags(s, flags)
        BY <3>2 DEF pause, T!Pause, T!Resume
      <4>2. stream[s].flags \in P!Masks BY DEF P!Core, P!Streams, P!StreamRec
      <4>3. flags \in P!Masks /\ ("OUT" \in stream[s].flags => "OUT" \in flags)
        BY <4>1, <4>2 DEF P!Masks
      <4>4. P!SetFlags(s, flags) BY <4>1, SameMask
      <4> QED BY <4>3, <4>4 DEF P!Masking
    <3> QED BY <1>2, <3>1, <3>2
  <2>2. P!Core' BY <2>1, Given, P!CoreProgram DEF P!Program
  <2>3. P!SameEnds /\ P!SameAttempts BY <2>1, Given, P!EndsProgram
  <2>4. calls' = calls /\ P!Nesting' = P!Nesting BY <2>1, Given, P!UncountedProgram
  <2>5. UNCHANGED <<jsVars, code, native, closing>> BY <1>2 DEF pause, shutdown, bindingVars
  <2>6. pc' = pc BY <2>1 DEF P!Masking, P!SetFlags, P!Shutdown, P!loopVars
  <2> QED BY <1>1, <2>2, <2>3, <2>4, <2>5, <2>6, SameTyped, EnteredSame DEF Still
<1>3. CASE \E o \in Op : write(s, o)
  <2>1. PICK o \in Op : write(s, o) BY <1>3
  <2>2. P!Write(s, o) /\ onWrite(s) BY <2>1, SameWrite DEF write
  <2>3. P!Core' BY <2>2, Given, P!CoreProgram DEF P!Program
  <2>4. P!SameEnds /\ P!SameAttempts BY <2>2, Given, P!EndsProgram
  <2>5. P!Counted BY <2>2, Given, P!CountedWrite
  <2>6. Entered /\ Typed' /\ SameStates BY <1>1, <2>2, <2>5, EnteredWrite
  <2>7. UNCHANGED <<native, closing>> BY <2>1 DEF write, bindingVars
  <2>8. pc' = pc BY <2>2 DEF P!Write
  <2> QED BY <2>3, <2>4, <2>6, <2>7, <2>8 DEF Still
<1> QED BY <1>2, <1>3

LEMMA StillDestroy ==
  ASSUME P!Careful, P!Core, Lives, Codes, NEW s \in Socket, destroy(s)
  PROVE  /\ Still /\ Entered /\ UNCHANGED jsVars
         /\ \A t \in Socket \ {s} : P!Live(t)' = P!Live(t)
<1>1. Typed BY DEF Lives
<1>2. P!Close(s) /\ UNCHANGED <<jsVars, code, native, closing>>
  BY SameClose DEF destroy, bindingVars
<1>3. P!Core' BY <1>2, Given, P!CoreProgram DEF P!Program
<1>4. P!Opened(s) /\ P!CloseOver(s, stack)
  BY <1>2 DEF P!Close, P!Careful, P!Allowed, P!Opened
<1>5. P!SameEnds /\ \A t \in Socket \ {s} : P!Live(t)' = P!Live(t) BY <1>4, Given, P!EndsClose
<1>6. calls' = calls /\ P!Nesting' = P!Nesting BY <1>2, Given, P!UncountedProgram
<1>7. pc' = pc BY <1>4 DEF P!CloseOver
<1> QED BY <1>1, <1>2, <1>3, <1>5, <1>6, <1>7, SameTyped, EnteredSame DEF Still

(* Calls of the program that reach no stream. *)
LEMMA StillAside ==
  ASSUME P!Core, Lives, Codes, listen \/ Throws \/ \E s \in Socket : read(s)
  PROVE  Still /\ P!SameAttempts /\ Entered
<1>1. Typed BY DEF Lives
<1>2. CASE Throws \/ \E s \in Socket : read(s)
  <2>1. UNCHANGED <<tcpVars, code, native, closing>> BY <1>2 DEF Throws, read, bindingVars
  <2>2. P!Core' /\ P!SameEnds /\ P!SameAttempts /\ P!Nesting' = P!Nesting BY <2>1, StillSame
  <2>3. UNCHANGED <<calls, pc>> BY <2>1 DEF tcpVars
  <2>4. Typed' /\ SameStates
    <3>1. CASE Throws BY <1>1, <3>1, SameTyped DEF Throws
    <3>2. CASE \E s \in Socket : read(s)
      BY <1>1, <3>2, ReadFacts
    <3> QED BY <1>2, <3>1, <3>2
  <2> QED BY <2>1, <2>2, <2>3, <2>4, EnteredSame DEF Still
<1>3. CASE listen
  <2>1. /\ UNCHANGED <<stream, calls, pending_closes, conn, reg, pc, stack, batch>>
        /\ UNCHANGED <<jsVars, native, code, closing>>
    BY <1>3 DEF listen
  <2>2. P!Core'
    <3>1. P!Streams'
      BY <2>1 DEF P!Core, P!Streams, P!Attached, P!Watched, P!Opened, P!Live, P!Open
    <3>2. P!Calls' BY <2>1 DEF P!Core, P!Calls, P!Good, P!Opened, P!Live
    <3>3. P!Closing' BY <2>1 DEF P!Core, P!Closing, P!Inside, P!Cancels
    <3> QED BY <3>1, <3>2, <3>3 DEF P!Core
  <2>3. P!SameEnds /\ P!SameAttempts /\ P!Nesting' = P!Nesting
    BY <2>1, Given, P!EndsSame, P!NestingKept
  <2> QED BY <1>1, <2>1, <2>2, <2>3, SameTyped, EnteredSame DEF Still
<1> QED BY <1>2, <1>3

(* Handlers of a stream, which call the binding back. *)
LEMMA StillHandler ==
  ASSUME P!Core, Lives, Codes, Read \/ Written
  PROVE  Still /\ P!SameAttempts /\ Entered
<1>1. Typed BY DEF Lives
<1>2. CASE Read
  <2>1. P!Read BY <1>2, SameRead DEF Read
  <2>2. PICK s \in Socket : s = T!Top.stream BY <2>1, Given, P!HandlerClient, SameTests
  <2>3. Typed' /\ SameStates /\ Calling BY <1>1, <1>2, <2>2, DataFacts DEF Read
  <2>4. P!Core' /\ P!SameEnds /\ P!SameAttempts
    <3>1. P!Loop /\ ~P!Dispatch /\ ~P!CloseCb
      BY <2>1 DEF P!Loop, P!Dispatch, P!CloseCb, P!Read, P!Runs, P!Core, P!Calls, P!ProgramPc
    <3> QED BY <3>1, Given, P!CoreLoop, P!EndsLoop
  <2>5. calls' = calls /\ P!Nesting' = P!Nesting + 1 BY <2>1, Given, P!CountedRead
  <2>6. pc' = pc /\ UNCHANGED <<native, closing>> BY <1>2, <2>1 DEF Read, P!Read, bindingVars
  <2> QED BY <2>3, <2>4, <2>5, <2>6 DEF Still, Entered, Codes
<1>3. CASE Written
  <2>1. P!FlushWrite \/ P!Cancel BY <1>3, SameFlush, SameCancel DEF Written
  <2>2. stack # <<>> /\ P!Top.fn \in {"flush", "cancel"}
    BY <2>1 DEF P!FlushWrite, P!Cancel, P!Runs
  <2>3. PICK s \in Socket : s = T!Top.stream
    <3>1. P!Top.stream \in Socket BY <2>2, Given, P!TopGood DEF P!Core
    <3> QED BY <3>1, SameTests
  <2>4. P!Core' /\ P!SameEnds /\ P!SameAttempts
    <3>1. P!Loop /\ ~P!Dispatch /\ ~P!CloseCb
      BY <2>1, <2>2 DEF P!Loop, P!Dispatch, P!CloseCb, P!Core, P!Calls, P!ProgramPc
    <3> QED BY <3>1, Given, P!CoreLoop, P!EndsLoop
  <2>5. P!Counted BY <2>1, Given, P!CountedLoop
  <2>6. Entered /\ Typed' /\ SameStates BY <1>1, <1>3, <2>3, <2>5, EnteredWrite DEF Written
  <2>7. pc' = pc /\ UNCHANGED <<native, closing>>
    BY <1>3, <2>1 DEF Written, P!FlushWrite, P!Cancel, bindingVars
  <2> QED BY <2>4, <2>6, <2>7 DEF Still
<1> QED BY <1>2, <1>3

(* Steps of the loop, and of the rest of the world. *)
LEMMA StillLoop ==
  ASSUME P!Core, Lives, Codes, Poll \/ LoopTest \/ LoopStep \/ Outside
  PROVE  Still /\ P!SameAttempts /\ Entered /\ UNCHANGED jsVars
<1>1. Typed BY DEF Lives
<1>2. P!MoveOn \/ P!Poll \/ P!Network \/ P!Eof \/ P!AfterRead \/ P!FlushDone
  BY SameMoves, SamePoll, SameNetwork, SameEof, SameFlush DEF Poll, LoopTest, LoopStep, Outside
<1>3. UNCHANGED <<jsVars, code, native, closing>>
  BY DEF Poll, LoopTest, LoopStep, Outside, bindingVars
<1>4. P!Core' /\ P!SameEnds /\ P!SameAttempts
  <2>1. ~P!Dispatch /\ ~P!CloseCb
    <3>1. CASE P!MoveOn BY <3>1 DEF P!MoveOn, P!Moves, P!Go, P!Dispatch, P!CloseCb
    <3>2. CASE P!Poll BY <3>2 DEF P!Poll, P!Dispatch, P!CloseCb
    <3>3. CASE P!Network BY <3>3 DEF P!Network, P!Dispatch, P!CloseCb, P!loopVars
    <3>4. CASE P!Eof \/ P!AfterRead \/ P!FlushDone
      BY <3>4 DEF P!Eof, P!AfterRead, P!FlushDone, P!Runs, P!Dispatch, P!CloseCb,
                  P!Core, P!Calls, P!ProgramPc
    <3> QED BY <1>2, <3>1, <3>2, <3>3, <3>4
  <2>2. P!Loop BY <1>2 DEF P!Loop
  <2> QED BY <2>1, <2>2, Given, P!CoreLoop, P!EndsLoop
<1>5. calls' = calls /\ P!Nesting' = P!Nesting BY <1>2, Given, P!UncountedLoop
<1>6. pc' = "closecb" <=> pc = "closecb"
  BY <1>2 DEF P!MoveOn, P!Moves, P!Go, P!Poll, P!Network, P!Eof, P!AfterRead, P!FlushDone,
              P!CloseOver, P!loopVars
<1> QED BY <1>1, <1>3, <1>4, <1>5, <1>6, SameTyped, EnteredSame DEF Still

(* epoll_wait returns, for a listener alone. *)
LEMMA StillListener ==
  ASSUME P!Core, Lives, Codes, PollListener
  PROVE  Still /\ P!SameAttempts /\ Entered /\ UNCHANGED jsVars
<1>1. Typed BY DEF Lives
<1>2. /\ pc = "poll" /\ pc' = "dispatch"
      /\ UNCHANGED <<stream, conn, reg, pending_closes, stack, batch, calls>>
      /\ UNCHANGED <<jsVars, native, code, closing>>
  BY DEF PollListener
<1>3. P!Streams' BY <1>2 DEF P!Core, P!Streams, P!Attached, P!Watched, P!Opened, P!Live, P!Open
<1>4. P!Closing' BY <1>2 DEF P!Core, P!Closing, P!Inside, P!Cancels
<1>5. P!Calls'
  <2>1. stack = <<>> BY <1>2 DEF P!Core, P!Calls, P!ProgramPc
  <2> QED BY <1>2, <2>1 DEF P!Core, P!Calls, P!Opened
<1>6. P!SameEnds /\ P!SameAttempts /\ P!Nesting' = P!Nesting
  BY <1>2, Given, P!EndsSame, P!NestingKept
<1> QED BY <1>1, <1>2, <1>3, <1>4, <1>5, <1>6, SameTyped, EnteredSame DEF Still, P!Core

(* A callback returns. *)
LEMMA StillReturn ==
  ASSUME P!Core, Lives, Codes, Return
  PROVE  /\ Still /\ P!SameAttempts /\ UNCHANGED jsVars
         /\ stack # <<>> /\ calls' = calls
         /\ code' = Front(code) /\ P!Nesting > 0 /\ P!Nesting' = P!Nesting - 1
<1>1. Typed BY DEF Lives
<1>2. P!Return /\ UNCHANGED <<jsVars, native, closing>> /\ code' = Front(code)
  BY SameReturn DEF Return, bindingVars
<1>3. stack # <<>> /\ P!Top.fn = "user" /\ stack' = P!Under /\ pc' = pc /\ calls' = calls
  BY <1>2 DEF P!Return, P!Runs, P!opVars
<1>4. P!Core' /\ P!SameEnds /\ P!SameAttempts
  <2>1. P!Loop /\ ~P!Dispatch /\ ~P!CloseCb
    BY <1>2, <1>3 DEF P!Loop, P!Dispatch, P!CloseCb, P!Core, P!Calls, P!ProgramPc
  <2> QED BY <2>1, Given, P!CoreLoop, P!EndsLoop
<1>5. P!Nesting > 0 /\ P!Nesting' = P!Nesting - 1
  BY <1>3, Given, P!NestingType, P!NestingPop DEF P!Core
<1> QED BY <1>1, <1>2, <1>3, <1>4, <1>5, SameTyped DEF Still

LEMMA LivesStill ==
  ASSUME Lives, Still
  PROVE  Lives'
<1>1. ASSUME NEW s \in Socket PROVE Life(s)'
  <2>1. Life(s) BY DEF Lives
  <2>2. P!Opened(s)' = P!Opened(s) /\ stream'[s].handler = stream[s].handler
    BY DEF Still, P!SameEnds
  <2>3. socket'[s].state = socket[s].state /\ socket'[s].handle = socket[s].handle
    BY DEF Still, SameStates
  <2> QED BY <2>1, <2>2, <2>3 DEF Life, Still
<1> QED BY <1>1 DEF Lives, Still

-----------------------------------------------------------------------------
(* The code of the callbacks. *)

NoWrites == \A s \in Socket : stream[s].handler = "connect" => stream[s].writes = <<>>

LEMMA NoWritesSame ==
  ASSUME NoWrites, P!SameEnds
  PROVE  NoWrites'
  BY DEF NoWrites, P!SameEnds

LEMMA PlainEntered ==
  ASSUME Codes, Plain, P!Core, Entered, NoWrites'
  PROVE  Codes' /\ Plain'
<1>1. code \in Seq(Scripts \cup {"close", "error"}) /\ Len(code) = P!Nesting BY DEF Codes
<1>2. CASE code' = code /\ P!Nesting' = P!Nesting
  BY <1>1, <1>2 DEF Codes, Plain, Entered, NoWrites
<1>3. CASE Calling /\ P!Nesting' = P!Nesting + 1
  <2>1. PICK what \in Scripts : code' = Append(code, what) BY <1>3 DEF Calling, Calls
  <2>2. PICK n \in Nat : n = Len(code) BY <1>1
  <2>3. /\ code' \in Seq(Scripts \cup {"close", "error"}) /\ Len(code') = n + 1
        /\ code'[n + 1] = what /\ \A i \in 1..n : code'[i] = code[i]
    BY <1>1, <2>1, <2>2, AppendProperties
  <2>4. Plain'
    <3>1. \A i \in 1..n + 1 : i \in 1..n \/ i = n + 1 OBVIOUS
    <3> QED BY <3>1, <2>2, <2>3 DEF Plain
  <2> QED BY <1>1, <1>3, <2>2, <2>3, <2>4 DEF Codes, Entered, NoWrites
<1> QED BY <1>2, <1>3 DEF Entered

LEMMA PlainReturn ==
  ASSUME P!Core, Lives, Codes, Plain, Return
  PROVE  Codes' /\ Plain'
<1>1. code \in Seq(Scripts \cup {"close", "error"}) /\ Len(code) = P!Nesting BY DEF Codes
<1>2. /\ Still /\ calls' = calls /\ code' = Front(code)
      /\ P!Nesting > 0 /\ P!Nesting' = P!Nesting - 1
  BY StillReturn
<1>3. code # <<>> /\ code' = SubSeq(code, 1, Len(code) - 1) BY <1>1, <1>2 DEF Front
<1>4. /\ code' \in Seq(Scripts \cup {"close", "error"}) /\ Len(code') = Len(code) - 1
      /\ \A i \in 1..Len(code) - 1 : code'[i] = code[i]
  BY <1>1, <1>3, Given, P!UnderFacts
<1>5. Plain' BY <1>1, <1>4 DEF Plain
<1>6. NoWrites' BY <1>2, NoWritesSame DEF Still, Codes, NoWrites
<1> QED BY <1>1, <1>2, <1>4, <1>5, <1>6 DEF Codes, NoWrites

(* What a script calls, and what the loop does, besides opening, activating
   and giving back streams. *)
Ordinary ==
  \/ \E s \in Socket : \/ pause(s) \/ shutdown(s) \/ destroy(s) \/ read(s)
                       \/ \E o \in Op : write(s, o)
  \/ listen \/ Throws \/ Read \/ Written \/ Return
  \/ Poll \/ PollListener \/ LoopTest \/ LoopStep \/ Outside \/ UNCHANGED vars

LInv == P!Core /\ Lives /\ Codes

LEMMA OrdinaryStep ==
  ASSUME P!Careful, LInv, Plain, Ordinary
  PROVE  Still /\ LInv' /\ Plain'
<1>0. P!Core /\ Lives /\ Codes BY DEF LInv
<1>1. CASE Return
  <2>1. Still BY <1>0, <1>1, StillReturn
  <2>2. Codes' /\ Plain' BY <1>0, <1>1, PlainReturn
  <2> QED BY <1>0, <2>1, <2>2, LivesStill DEF LInv, Still
<1>2. CASE ~Return
  <2>1. Still /\ Entered
    <3>1. CASE UNCHANGED vars
      <4>1. UNCHANGED <<tcpVars, jsVars, native, closing, code>> /\ UNCHANGED <<calls, pc>>
        BY <3>1 DEF vars, bindingVars, tcpVars
      <4>2. P!Core' /\ P!SameEnds /\ P!Nesting' = P!Nesting BY <1>0, <4>1, StillSame
      <4>3. Typed' /\ SameStates BY <1>0, <4>1, SameTyped DEF Lives
      <4> QED BY <1>0, <4>1, <4>2, <4>3, EnteredSame DEF Still
    <3>2. CASE \E s \in Socket : pause(s) \/ shutdown(s) \/ \E o \in Op : write(s, o)
      BY <1>0, <3>2, StillProgram
    <3>3. CASE \E s \in Socket : destroy(s) BY <1>0, <3>3, StillDestroy
    <3>4. CASE listen \/ Throws \/ \E s \in Socket : read(s) BY <1>0, <3>4, StillAside
    <3>5. CASE Read \/ Written BY <1>0, <3>5, StillHandler
    <3>6. CASE Poll \/ LoopTest \/ LoopStep \/ Outside BY <1>0, <3>6, StillLoop
    <3>7. CASE PollListener BY <1>0, <3>7, StillListener
    <3> QED BY <1>2, <3>1, <3>2, <3>3, <3>4, <3>5, <3>6, <3>7 DEF Ordinary
  <2>2. NoWrites' BY <1>0, <2>1, NoWritesSame DEF Still, Codes, NoWrites
  <2>3. Codes' /\ Plain' BY <1>0, <2>1, <2>2, PlainEntered
  <2> QED BY <1>0, <2>1, <2>3, LivesStill DEF LInv, Still
<1> QED BY <1>1, <1>2

-----------------------------------------------------------------------------
(* The steps that open streams, make them active and give them back. *)

LEMMA CodesSame ==
  ASSUME Codes, Plain, UNCHANGED <<code, calls>>, P!Nesting' = P!Nesting, NoWrites'
  PROVE  Codes' /\ Plain'
  BY DEF Codes, Plain, NoWrites

LEMMA ConnectStep ==
  ASSUME P!Careful, LInv, Plain, NEW s \in Socket, connect(s)
  PROVE  /\ LInv' /\ Plain'
         /\ P!Live(s)' /\ stream'[s].handler = "connect"
         /\ socket[s] = Empty /\ socket'[s].queue = <<>> /\ socket'[s].connected = "pending"
         /\ \A t \in Socket \ {s} : socket'[t] = socket[t] /\ stream'[t] = stream[t]
         /\ reads' = reads
<1>0. P!Core /\ Lives /\ Codes BY DEF LInv
<1>1. P!Connect(s) BY SameConnect DEF connect
<1>2. /\ socket[s] = Empty /\ UNCHANGED <<reads, code, closing>>
      /\ native' = [native EXCEPT ![s] = "live"]
  BY DEF connect, Constructed
<1> DEFINE r == [Empty EXCEPT !.state = "connecting", !.handle = TRUE, !.connected = "pending"]
<1>3. socket' = [socket EXCEPT ![s] = r] BY DEF connect
<1>4. /\ r \in SocketRec /\ r.state = "connecting" /\ r.handle = TRUE /\ r.queue = <<>>
      /\ r.connected = "pending"
  <2>1. Empty \in SocketRec /\ Empty.queue = <<>> BY EmptyType
  <2> QED BY <2>1 DEF SocketRec, Promised
<1> HIDE DEF r
<1>5. P!Core' BY <1>0, <1>1, Given, P!CoreProgram DEF P!Program
<1>6. /\ ~P!Opened(s) /\ P!Live(s)' /\ P!Opened(s)' /\ stream'[s].handler = "connect"
      /\ stream'[s].writes = <<>>
      /\ (\A t \in Socket \ {s} : stream'[t] = stream[t]) /\ UNCHANGED <<calls, stack, pc>>
  BY <1>0, <1>1, Given, P!ConnectFacts
<1>7. socket'[s] = r /\ \A t \in Socket \ {s} : socket'[t] = socket[t]
  BY <1>0, <1>3 DEF Lives, Typed
<1>8. Lives'
  <2>1. ASSUME NEW t \in Socket PROVE Life(t)'
    <3>1. Life(t) BY <1>0 DEF Lives
    <3>2. CASE t = s
      <4>1. socket[s].state = "empty" BY <1>2 DEF Empty
      <4>2. closing # s BY <3>1, <3>2, <4>1 DEF Life
      <4>3. native'[s] = "live" BY <1>0, <1>2 DEF Lives
      <4> QED BY <3>2, <4>2, <4>3, <1>2, <1>4, <1>6, <1>7 DEF Life
    <3>3. CASE t # s
      <4>1. native'[t] = native[t] BY <3>3, <1>0, <1>2 DEF Lives
      <4> QED BY <3>1, <3>3, <4>1, <1>2, <1>6, <1>7 DEF Life, P!Opened
    <3> QED BY <3>2, <3>3
  <2>2. Typed' BY <1>0, <1>2, <1>3, <1>4 DEF Lives, Typed
  <2>3. native' \in [Socket -> {"none", "live", "deleted"}] BY <1>0, <1>2 DEF Lives
  <2> QED BY <1>0, <1>2, <1>6, <2>1, <2>2, <2>3 DEF Lives
<1>9. Codes' /\ Plain'
  <2>1. NoWrites' BY <1>0, <1>6 DEF NoWrites, Codes
  <2>2. P!Nesting' = P!Nesting BY <1>6, Given, P!NestingKept
  <2> QED BY <1>0, <1>2, <1>6, <2>1, <2>2, CodesSame
<1> QED BY <1>2, <1>4, <1>5, <1>6, <1>7, <1>8, <1>9 DEF LInv

LEMMA InitFacts ==
  ASSUME Typed, NEW s \in Socket, NEW connected \in {"none"} \cup Promised, init(s, connected)
  PROVE  /\ socket' \in [Socket -> SocketRec]
         /\ socket'[s].state = "active" /\ socket'[s].handle = TRUE
         /\ socket'[s].queue = socket[s].queue /\ socket'[s].connected = connected
         /\ \A t \in Socket \ {s} : socket'[t] = socket[t]
<1> DEFINE r == [socket[s] EXCEPT !.state = "active", !.handle = TRUE, !.connected = connected]
<1>1. socket' = [socket EXCEPT ![s] = r] BY DEF init, Typed
<1>2. socket[s] \in SocketRec BY DEF Typed
<1>3. /\ r \in SocketRec /\ r.state = "active" /\ r.handle = TRUE
      /\ r.queue = socket[s].queue /\ r.connected = connected
  BY <1>2 DEF SocketRec
<1> HIDE DEF r
<1> QED BY <1>1, <1>3 DEF Typed

(* The socket that becomes active has an open stream, with the handler of a
   connection that was made. *)
LEMMA LivesActive ==
  ASSUME Lives, NEW s \in Socket, socket' \in [Socket -> SocketRec], reads' = reads,
         socket'[s].state = "active", socket'[s].handle = TRUE,
         P!Opened(s)', stream'[s].handler = "client", closing # s,
         \/ native' = native /\ native[s] = "live"
         \/ native' = [native EXCEPT ![s] = "live"],
         \A t \in Socket \ {s} : socket'[t] = socket[t] /\ stream'[t] = stream[t],
         closing' = closing, pc' = "closecb" <=> pc = "closecb"
  PROVE  Lives'
<1>1. native' \in [Socket -> {"none", "live", "deleted"}] BY DEF Lives
<1>2. native'[s] = "live" /\ \A t \in Socket \ {s} : native'[t] = native[t] BY DEF Lives
<1>3. ASSUME NEW t \in Socket PROVE Life(t)'
  <2>1. Life(t) BY DEF Lives
  <2>2. CASE t = s BY <2>2, <1>2 DEF Life
  <2>3. CASE t # s BY <2>1, <2>3, <1>2 DEF Life, P!Opened
  <2> QED BY <2>2, <2>3
<1> QED BY <1>1, <1>3 DEF Lives, Typed

(* A listener has accepted nothing, or it opens a stream for a new Socket. *)
LEMMA ConnectionStep ==
  ASSUME LInv, onConnection
  PROVE  /\ Plain => LInv' /\ Plain'
         /\ stack = <<>> /\ reads' = reads
         /\ \/ P!SameEnds /\ P!SameAttempts /\ UNCHANGED <<socket, stack>>
            \/ \E s \in Socket :
                 /\ socket[s] = Empty /\ socket'[s].queue = <<>> /\ socket'[s].connected = "none"
                 /\ P!Opened(s)' /\ stream'[s].handler = "client"
                 /\ \A t \in Socket \ {s} : socket'[t] = socket[t] /\ stream'[t] = stream[t]
<1>0. P!Core /\ Lives /\ Codes BY DEF LInv
<1>1. stack = <<>> /\ pc = "dispatch" /\ UNCHANGED <<reads, closing>> BY DEF onConnection
<1>2. CASE UNCHANGED <<tcpVars, code, socket, native>>
  <2>1. P!Core' /\ P!SameEnds /\ P!SameAttempts /\ P!Nesting' = P!Nesting BY <1>0, <1>2, StillSame
  <2>2. UNCHANGED <<pc, calls, stack>> BY <1>2 DEF tcpVars
  <2>3. Typed' /\ SameStates BY <1>0, <1>1, <1>2, SameTyped DEF Lives, jsVars
  <2>4. Lives' BY <1>0, <1>1, <1>2, <2>1, <2>2, <2>3, LivesStill DEF Still
  <2>5. NoWrites' BY <1>0, <2>1, NoWritesSame DEF Codes, NoWrites
  <2>6. Plain => Codes' /\ Plain' BY <1>0, <1>2, <2>1, <2>2, <2>5, CodesSame
  <2> QED BY <1>1, <1>2, <2>1, <2>2, <2>4, <2>6 DEF LInv
<1>3. ASSUME NEW s \in Socket, socket[s] = Empty, T!AcceptOver(s), stack' = T!Push("user", s),
             Calls("js"), init(s, "none"), Constructed(s), UNCHANGED <<pc, batch>>
      PROVE  /\ Plain => LInv' /\ Plain'
             /\ socket'[s].queue = <<>> /\ socket'[s].connected = "none"
             /\ P!Opened(s)' /\ stream'[s].handler = "client"
             /\ \A t \in Socket \ {s} : socket'[t] = socket[t] /\ stream'[t] = stream[t]
  <2>1. Life(s) /\ socket[s].state = "empty" /\ socket[s].queue = <<>>
    BY <1>0, <1>3 DEF Lives, Empty
  <2>2. ~P!Opened(s) /\ closing # s BY <2>1 DEF Life
  <2>3. stream[s] = P!Fresh BY <1>0, <2>2 DEF P!Core, P!Streams, P!Attached
  <2>4. stack' = P!Push("user", s) BY <1>3 DEF T!Push, P!Push, T!Frame, P!Frame
  <2>5. /\ P!Core' /\ P!Opened(s)' /\ stream'[s].handler = "client"
        /\ \A t \in Socket \ {s} : stream'[t] = stream[t]
        /\ calls' = calls /\ P!Nesting' = P!Nesting + 1
    BY <1>0, <1>1, <1>3, <2>3, <2>4, SameAccept, Given, P!CoreAccepted
  <2>6. /\ socket' \in [Socket -> SocketRec] /\ socket'[s].state = "active"
        /\ socket'[s].handle = TRUE /\ socket'[s].queue = <<>> /\ socket'[s].connected = "none"
        /\ \A t \in Socket \ {s} : socket'[t] = socket[t]
    BY <1>0, <1>3, <2>1, InitFacts DEF Lives
  <2>7. Lives'
    <3>1. native' = [native EXCEPT ![s] = "live"] BY <1>3 DEF Constructed
    <3> QED BY <1>0, <1>1, <1>3, <2>2, <2>5, <2>6, <3>1, LivesActive
  <2>8. NoWrites' BY <1>0, <2>5 DEF Codes, NoWrites
  <2>9. Entered BY <1>0, <1>3, <2>5 DEF Entered, Codes, Calling, Scripts
  <2>10. Plain => Codes' /\ Plain' BY <1>0, <2>8, <2>9, PlainEntered
  <2> QED BY <2>5, <2>6, <2>7, <2>10 DEF LInv
<1>4. CASE \E s \in Socket :
             /\ socket[s] = Empty
             /\ T!AcceptOver(s) /\ stack' = T!Push("user", s) /\ Calls("js")
             /\ init(s, "none") /\ Constructed(s)
             /\ UNCHANGED <<pc, batch>>
  <2>1. PICK s \in Socket :
          /\ socket[s] = Empty
          /\ T!AcceptOver(s) /\ stack' = T!Push("user", s) /\ Calls("js")
          /\ init(s, "none") /\ Constructed(s)
          /\ UNCHANGED <<pc, batch>>
    BY <1>4
  <2>2. /\ Plain => LInv' /\ Plain'
        /\ socket'[s].queue = <<>> /\ socket'[s].connected = "none"
        /\ P!Opened(s)' /\ stream'[s].handler = "client"
        /\ \A t \in Socket \ {s} : socket'[t] = socket[t] /\ stream'[t] = stream[t]
    BY <1>3, <2>1
  <2> QED BY <1>1, <2>1, <2>2
<1> QED BY <1>2, <1>4 DEF onConnection

(* The three things that become of an event. *)
LEMMA DispatchStep ==
  ASSUME LInv, Plain, Dispatch
  PROVE  \E s \in Socket :
           /\ LInv' /\ stack = <<>> /\ UNCHANGED <<reads, native, closing>>
           /\ \A t \in Socket \ {s} : stream'[t] = stream[t] /\ socket'[t] = socket[t]
           /\ \/ Plain' /\ UNCHANGED <<stream, socket>>
              \/ /\ Failing(s)' /\ UNCHANGED <<stream, socket>>
              \/ /\ Plain' /\ P!Opened(s)' /\ stream'[s].handler = "client"
                 /\ socket[s].state = "connecting"
                 /\ socket'[s].queue = socket[s].queue /\ socket'[s].connected # "pending"
                 /\ socket'[s].connected = "rejected" => socket[s].connected = "rejected"
                 /\ P!Live(s)
<1>0. P!Core /\ Lives /\ Codes BY DEF LInv
<1>1. P!Dispatch BY SameDispatch DEF Dispatch
<1>2. P!Core'
  <2>1. P!Loop BY <1>1 DEF P!Loop
  <2> QED BY <1>0, <2>1, Given, P!CoreLoop
<1>3. PICK s \in Socket :
        /\ P!Opened(s) /\ calls' = calls /\ stack = <<>> /\ pc = "dispatch" /\ pc' = pc
        /\ \A t \in Socket \ {s} : stream'[t] = stream[t]
        /\ \/ stream' = stream
              /\ (stack' = stack \/ (stack' # stack /\ Len(stack') = 1 /\ stack'[1].fn = "io"))
              /\ P!Nesting' = 0
           \/ /\ stack' = Append(stack, P!Frame("user", s)) /\ Len(stack') = 1
              /\ stack'[1] = P!Frame("user", s)
              /\ P!Nesting' = 1 /\ P!Live(s) /\ stream[s].handler = "connect"
              /\ \/ stream' = stream /\ stream'[s].status = "NONE"
                 \/ stream'[s].status = "ACTIVE" /\ stream'[s].handler = "client" /\ P!Opened(s)'
  BY <1>0, <1>1, Given, P!DispatchCases
<1>4. UNCHANGED <<reads, native, closing>> BY DEF Dispatch, bindingVars
<1>5. P!Nesting = 0 BY <1>0, <1>3, Given, P!NestingType DEF P!Core
<1>6. Life(s) /\ Typed BY <1>0 DEF Lives
<1>7. Last(stack') = stack'[Len(stack')] BY DEF Last
<1>8. CASE /\ stream' = stream /\ P!Nesting' = 0
           /\ stack' = stack \/ (stack' # stack /\ Len(stack') = 1 /\ stack'[1].fn = "io")
  <2>1. UNCHANGED <<socket, code>> BY <1>7, <1>8 DEF Dispatch
  <2>2. P!SameEnds BY <1>8, Given, P!EndsSame
  <2>3. Typed' /\ SameStates BY <1>4, <1>6, <2>1, SameTyped DEF jsVars
  <2>4. Lives' BY <1>0, <1>2, <1>3, <1>4, <2>2, <2>3, LivesStill DEF Still
  <2>5. NoWrites' BY <1>0, <2>2, NoWritesSame DEF Codes, NoWrites
  <2>6. Codes' /\ Plain' BY <1>0, <1>3, <1>5, <1>8, <2>1, <2>5, CodesSame
  <2> QED BY <1>2, <1>3, <1>4, <1>8, <2>1, <2>4, <2>6 DEF LInv
<1>9. CASE /\ stack' = Append(stack, P!Frame("user", s)) /\ Len(stack') = 1
           /\ stack'[1] = P!Frame("user", s)
           /\ P!Nesting' = 1 /\ P!Live(s) /\ stream[s].handler = "connect"
           /\ \/ stream' = stream /\ stream'[s].status = "NONE"
              \/ stream'[s].status = "ACTIVE" /\ stream'[s].handler = "client" /\ P!Opened(s)'
  <2>1. Last(stack') = P!Frame("user", s) /\ stack' # stack /\ stack' # <<>>
    <3>1. stack' # <<>>
      <4>1. Len(stack') # 0 BY <1>9
      <4> QED BY <4>1
    <3> QED BY <1>3, <1>7, <1>9, <3>1
  <2>2. Last(stack').fn = "user" /\ Last(stack').stream = s BY <2>1 DEF P!Frame
  <2>3. socket[s].state = "connecting" /\ native[s] = "live" /\ closing # s
    BY <1>3, <1>6, <1>9 DEF Life
  <2>4. code = <<>> /\ code \in Seq(Scripts \cup {"close", "error"})
    <3>1. Len(code) = 0 /\ code \in Seq(Scripts \cup {"close", "error"}) BY <1>0, <1>5 DEF Codes
    <3> QED BY <3>1
  <2>5. CASE stream'[s].status = "ACTIVE" /\ stream'[s].handler = "client" /\ P!Opened(s)'
    <3> DEFINE c == IF socket[s].connected = "pending" THEN "resolved" ELSE socket[s].connected
    <3>1. init(s, c) /\ Calls("js")
      <4>1. LET u == Last(stack').stream IN
              IF stream'[u].status = "ACTIVE"
              THEN /\ init(u, IF socket[u].connected = "pending" THEN "resolved" ELSE socket[u].connected)
                   /\ Calls("js")
              ELSE Calls("close") /\ UNCHANGED socket
        BY <2>1, <2>2 DEF Dispatch
      <4> QED BY <2>2, <2>5, <4>1
    <3>2. c \in {"none"} \cup Promised /\ c # "pending" /\ (c = "rejected" => socket[s].connected = "rejected")
      BY <1>6 DEF Typed, SocketRec, Promised
    <3> HIDE DEF c
    <3>3. /\ socket' \in [Socket -> SocketRec]
          /\ socket'[s].state = "active" /\ socket'[s].handle = TRUE
          /\ socket'[s].queue = socket[s].queue /\ socket'[s].connected = c
          /\ \A t \in Socket \ {s} : socket'[t] = socket[t]
      BY <1>6, <3>1, <3>2, InitFacts
    <3>4. Lives' BY <1>0, <1>3, <1>4, <2>3, <2>5, <3>3, LivesActive
    <3>5. NoWrites' BY <1>0, <1>3, <2>5 DEF Codes, NoWrites
    <3>6. Entered BY <1>0, <1>3, <1>5, <1>9, <3>1 DEF Entered, Codes, Calling, Scripts
    <3>7. Codes' /\ Plain' BY <1>0, <3>5, <3>6, PlainEntered
    <3> QED BY <1>2, <1>3, <1>4, <1>9, <2>3, <2>5, <3>2, <3>3, <3>4, <3>7 DEF LInv
  <2>6. CASE stream' = stream /\ stream'[s].status = "NONE"
    <3>1. Calls("close") /\ socket' = socket
      <4>1. LET u == Last(stack').stream IN
              IF stream'[u].status = "ACTIVE"
              THEN /\ init(u, IF socket[u].connected = "pending" THEN "resolved" ELSE socket[u].connected)
                   /\ Calls("js")
              ELSE Calls("close") /\ UNCHANGED socket
        BY <2>1, <2>2 DEF Dispatch
      <4> QED BY <2>2, <2>6, <4>1
    <3>2. P!SameEnds BY <2>6, Given, P!EndsSame
    <3>3. Typed' /\ SameStates BY <1>4, <1>6, <3>1, SameTyped DEF jsVars
    <3>4. Lives' BY <1>0, <1>2, <1>3, <1>4, <3>2, <3>3, LivesStill DEF Still
    <3>5. NoWrites' BY <1>0, <3>2, NoWritesSame DEF Codes, NoWrites
    <3>6. /\ code' \in Seq(Scripts \cup {"close", "error"}) /\ Len(code') = 1
          /\ code'[1] = "close"
      BY <2>4, <3>1 DEF Calls
    <3>7. Failing(s)' BY <1>3, <1>9, <2>1, <2>6, <3>6 DEF Failing, P!Opened, P!Frame
    <3>8. Codes' BY <1>0, <1>3, <1>9, <3>5, <3>6, <3>7 DEF Codes, NoWrites
    <3> QED BY <1>2, <1>3, <1>4, <2>6, <3>1, <3>4, <3>7, <3>8 DEF LInv
  <2> QED BY <1>9, <2>5, <2>6
<1> QED BY <1>3, <1>8, <1>9

(* on_close of a stream: its Socket is told, and then its object deleted. *)
LEMMA CloseStep ==
  ASSUME LInv, onClose
  PROVE  \E s \in Socket :
           /\ Plain => LInv' /\ Plain'
           /\ stack = <<>> /\ stream[s].status = "CLOSED"
           /\ stream'[s] = P!Fresh /\ \A t \in Socket \ {s} : stream'[t] = stream[t]
           /\ \A t \in Socket \ {s} : socket'[t] = socket[t]
           /\ socket'[s].connected = socket[s].connected
           /\ \/ /\ socket[s].state = "active" /\ socket'[s].state = "destroyed"
                 /\ LET q == socket[s].queue IN
                    /\ socket'[s].queue = IF q = <<>> THEN q ELSE Tail(q)
                    /\ reads' = IF q = <<>> THEN reads ELSE [reads EXCEPT ![Head(q)] = "rejected"]
              \/ socket[s].state # "active" /\ UNCHANGED jsVars
<1>0. P!Core /\ Lives /\ Codes BY DEF LInv
<1>1. P!CloseCb /\ UNCHANGED <<code, native>> BY SameCb DEF onClose
<1>2. PICK s \in Socket : /\ s = Head(pending_closes) /\ s = closing' /\ stream[s].status = "CLOSED"
                          /\ stream' = [stream EXCEPT ![s] = P!Fresh]
  <2>1. pending_closes \in Seq(Socket) /\ pending_closes # <<>> BY <1>0, <1>1 DEF P!Core, P!Closing, P!CloseCb
  <2>2. PICK s \in Socket : s = Head(pending_closes) BY <2>1
  <2>3. s \in P!Range(pending_closes)
    <3>1. Head(pending_closes) = pending_closes[1] /\ 1 \in DOMAIN pending_closes BY <2>1
    <3> QED BY <2>2, <3>1 DEF P!Range
  <2> QED BY <1>0, <1>1, <2>2, <2>3 DEF P!Core, P!Closing, P!CloseCb, onClose
<1>3. /\ pc = "closes" /\ pc' = "closecb" /\ UNCHANGED <<stack, calls>>
  BY <1>1 DEF P!CloseCb, P!opVars
<1>4. P!Core'
  <2>1. P!Loop BY <1>1 DEF P!Loop
  <2> QED BY <1>0, <2>1, Given, P!CoreLoop
<1>5. stack = <<>> BY <1>0, <1>3 DEF P!Core, P!Calls, P!ProgramPc
<1>6. closing = None BY <1>0, <1>3 DEF Lives
<1>7. Life(s) /\ Typed /\ socket[s] \in SocketRec /\ s # None
  BY <1>0, SocketAssumption DEF Lives, Typed
<1>8. P!Opened(s) BY <1>0, <1>2 DEF P!Core, P!Streams, P!Attached, P!Fresh
<1>9. /\ stream'[s] = P!Fresh /\ \A t \in Socket \ {s} : stream'[t] = stream[t]
  BY <1>0, <1>2 DEF P!Core, P!Streams
<1>10. /\ Typed' /\ \A t \in Socket \ {s} : socket'[t] = socket[t]
       /\ socket'[s].connected = socket[s].connected
       /\ \/ /\ socket[s].state = "active" /\ socket'[s].state = "destroyed"
             /\ socket'[s].handle = FALSE
             /\ LET q == socket[s].queue IN
                 /\ socket'[s].queue = IF q = <<>> THEN q ELSE Tail(q)
                 /\ reads' = IF q = <<>> THEN reads ELSE [reads EXCEPT ![Head(q)] = "rejected"]
          \/ socket[s].state # "active" /\ UNCHANGED jsVars
  <2>1. CASE socket[s].state # "active"
    <3>1. UNCHANGED jsVars BY <1>2, <2>1 DEF onClose
    <3> QED BY <1>7, <2>1, <3>1, SameTyped DEF jsVars
  <2>2. CASE socket[s].state = "active"
    <3> DEFINE q == socket[s].queue
               rest == IF q = <<>> THEN q ELSE Tail(q)
               r == [socket[s] EXCEPT !.handle = FALSE, !.state = "destroyed", !.queue = rest]
    <3>1. /\ socket' = [socket EXCEPT ![s] = r]
          /\ reads' = IF q = <<>> THEN reads ELSE [reads EXCEPT ![Head(q)] = "rejected"]
      BY <1>2, <1>7, <2>2 DEF onClose, Typed
    <3>2. rest \in Seq(Nat)
      <4>1. q \in Seq(Nat) BY <1>7 DEF SocketRec
      <4> QED BY <4>1
    <3>3. /\ r \in SocketRec /\ r.handle = FALSE /\ r.state = "destroyed" /\ r.queue = rest
          /\ r.connected = socket[s].connected
      BY <1>7, <3>2 DEF SocketRec
    <3>4. reads' \in Seq(Promised)
      <4>1. "rejected" \in Promised BY DEF Promised
      <4> QED BY <1>7, <3>1, <4>1, PromiseSettled DEF Typed
    <3> HIDE DEF r
    <3>5. socket'[s] = r /\ \A t \in Socket \ {s} : socket'[t] = socket[t] BY <1>7, <3>1 DEF Typed
    <3>6. Typed' BY <1>7, <3>1, <3>3, <3>4 DEF Typed
    <3> QED BY <2>2, <3>1, <3>3, <3>5, <3>6
  <2> QED BY <2>1, <2>2
<1>11. Lives'
  <2>1. ASSUME NEW t \in Socket PROVE Life(t)'
    <3>1. Life(t) BY <1>0 DEF Lives
    <3>2. CASE t = s
      <4>1. ~P!Opened(s)' BY <1>9 DEF P!Opened, P!Fresh
      <4>2. native'[s] = "live" /\ closing' = s BY <1>1, <1>2, <1>7, <1>8 DEF Life
      <4> QED BY <3>1, <3>2, <4>1, <4>2, <1>1, <1>10 DEF Life, jsVars
    <3>3. CASE t # s
      <4>1. closing # t BY <1>6, SocketAssumption
      <4> QED BY <3>1, <3>3, <4>1, <1>1, <1>2, <1>9, <1>10 DEF Life, P!Opened
    <3> QED BY <3>2, <3>3
  <2> QED BY <1>0, <1>1, <1>2, <1>3, <1>7, <1>10, <2>1 DEF Lives
<1>12. Plain => Codes' /\ Plain'
  <2>1. NoWrites' BY <1>0, <1>9 DEF Codes, NoWrites, P!Fresh
  <2>2. P!Nesting' = P!Nesting BY <1>3, Given, P!NestingKept
  <2> QED BY <1>0, <1>1, <1>3, <2>1, <2>2, CodesSame
<1> QED BY <1>2, <1>4, <1>5, <1>9, <1>10, <1>11, <1>12 DEF LInv

LEMMA CloseEndStep ==
  ASSUME LInv, onCloseEnd
  PROVE  /\ Plain => LInv' /\ Plain'
         /\ stack = <<>> /\ UNCHANGED <<stream, jsVars>>
<1>0. P!Core /\ Lives /\ Codes BY DEF LInv
<1>1. /\ P!CloseReturn /\ native' = [native EXCEPT ![closing] = "deleted"] /\ closing' = None
      /\ UNCHANGED <<jsVars, code>>
  BY SameCb DEF onCloseEnd
<1>2. /\ pc = "closecb" /\ pc' = "closes" /\ stack = <<>> /\ UNCHANGED <<stream, stack, calls>>
  BY <1>1 DEF P!CloseReturn, P!opVars
<1>3. P!Core'
  <2>1. P!Loop BY <1>1 DEF P!Loop
  <2> QED BY <1>0, <2>1, Given, P!CoreLoop
<1>4. Typed' /\ SameStates BY <1>0, <1>1, SameTyped DEF Lives
<1>5. closing \in Socket BY <1>0, <1>2 DEF Lives
<1>6. Lives'
  <2>1. ASSUME NEW t \in Socket PROVE Life(t)'
    <3>1. Life(t) BY <1>0 DEF Lives
    <3>2. native'[t] = IF t = closing THEN "deleted" ELSE native[t] BY <1>0, <1>1 DEF Lives
    <3>3. socket' = socket /\ closing' # t BY <1>1, SocketAssumption DEF jsVars
    <3> QED BY <3>1, <3>2, <3>3, <1>2, <1>5 DEF Life, P!Opened
  <2>2. native' \in [Socket -> {"none", "live", "deleted"}] BY <1>0, <1>1 DEF Lives
  <2> QED BY <1>1, <1>2, <1>4, <2>1, <2>2 DEF Lives
<1>7. Plain => Codes' /\ Plain'
  <2>1. NoWrites' BY <1>0, <1>2 DEF Codes, NoWrites
  <2>2. P!Nesting' = P!Nesting BY <1>2, Given, P!NestingKept
  <2> QED BY <1>0, <1>1, <1>2, <2>1, <2>2, CodesSame
<1> QED BY <1>1, <1>2, <1>3, <1>6, <1>7 DEF LInv

-----------------------------------------------------------------------------
(* The callback of a connection that failed runs alone. *)

LEMMA FailingFacts ==
  ASSUME LInv, NEW s \in Socket, Failing(s)
  PROVE  /\ stack # <<>> /\ code # <<>> /\ Last(code) \in {"close", "error"} /\ Last(code) = code[1]
         /\ pc \in P!ProgramPc \cup {"dispatch"}
         /\ T!Top.fn \in {"user", "cancel"} /\ T!Top.stream = s
         /\ T!Runs("user") <=> Len(stack) = 1
         /\ ~Script /\ ~Plain
<1>1. /\ code \in Seq(Scripts \cup {"close", "error"}) /\ Len(code) = 1
      /\ code[1] \in {"close", "error"}
  BY DEF LInv, Codes, Failing
<1>2. code # <<>> /\ Last(code) = code[1] BY <1>1 DEF Last
<1>3. stack # <<>> /\ pc \in P!ProgramPc \cup {"dispatch"} BY DEF Failing, LInv, P!Core, P!Calls
<1>4. T!Top = stack[Len(stack)] BY DEF T!Top
<1>5. /\ T!Top.stream = s /\ T!Top.fn \in {"user", "cancel"}
      /\ T!Top.fn = "user" <=> Len(stack) = 1
  <2>1. CASE Len(stack) = 1 BY <1>4, <2>1 DEF Failing, P!Frame
  <2>2. CASE Len(stack) = 2 /\ stack[2] = P!Frame("cancel", s) BY <1>4, <2>2 DEF Failing, P!Frame
  <2> QED BY <2>1, <2>2 DEF Failing
<1>6. T!Runs("user") <=> Len(stack) = 1 BY <1>3, <1>5 DEF T!Runs
<1>7. ~Script BY <1>1, <1>2, <1>3 DEF Script
<1>8. ~Plain BY <1>1 DEF Plain, Scripts
<1> QED BY <1>1, <1>2, <1>3, <1>5, <1>6, <1>7, <1>8

LEMMA FailingOnly ==
  ASSUME LInv, NEW s \in Socket, Failing(s), Next
  PROVE  ConnectFailed \/ ConnectRejected \/ (Written /\ T!Cancel)
<1>1. /\ stack # <<>> /\ Last(code) \in {"close", "error"} /\ ~Script
      /\ pc \in P!ProgramPc \cup {"dispatch"} /\ T!Top.fn \in {"user", "cancel"}
  BY FailingFacts
<1>2. pc # "poll" /\ pc # "closes" BY <1>1 DEF P!ProgramPc
<1>3. ~Call BY <1>1 DEF Call, listen, Throws, connect, pause, shutdown, destroy, read, write, Usable
<1>4. ~Poll /\ ~PollListener /\ ~onClose
  BY <1>2 DEF Poll, T!Poll, PollListener, onClose, T!CloseCb
<1>5. ~Outside /\ ~LoopTest /\ ~onCloseEnd /\ ~Dispatch /\ ~onConnection
  BY <1>1 DEF Outside, T!RunLoop, T!Go, T!Network, LoopTest, T!LoopTest, onCloseEnd, T!CloseReturn,
              Dispatch, T!Dispatch, onConnection
<1>6. ~LoopStep
  BY <1>1 DEF LoopStep, T!Eof, T!AfterRead, T!FlushDone, T!Runs, T!DispatchEnd, T!TimersEnd,
              T!ClosesEnd, T!AfterReturn, T!Go
<1>7. ~Read /\ ~T!FlushWrite /\ ~Return
  BY <1>1 DEF Read, T!Read, T!FlushWrite, T!Runs, Return
<1> QED BY <1>3, <1>4, <1>5, <1>6, <1>7 DEF Next, Step, Written

LEMMA FailingStep ==
  ASSUME LInv, NEW s \in Socket, Failing(s), [Next]_vars
  PROVE  /\ LInv' /\ reads' = reads /\ P!SameEnds /\ SameStates
         /\ \A t \in Socket \ {s} : P!Live(t)' = P!Live(t) /\ socket'[t] = socket[t]
         /\ socket'[s].queue = socket[s].queue /\ (P!Live(s)' => P!Live(s))
         /\ \/ Failing(s)' /\ socket' = socket
            \/ /\ Plain' /\ ~P!Live(s)'
               /\ socket'[s].connected = IF socket[s].connected = "pending" THEN "rejected"
                                         ELSE socket[s].connected
<1>0. P!Core /\ Lives /\ Codes /\ Typed BY DEF LInv, Lives
<1>1. /\ stack # <<>> /\ code # <<>> /\ Last(code) \in {"close", "error"} /\ Last(code) = code[1]
      /\ T!Top.stream = s /\ (T!Runs("user") <=> Len(stack) = 1)
  BY FailingFacts
<1>2. /\ code \in Seq(Scripts \cup {"close", "error"}) /\ Len(code) = 1
      /\ P!Opened(s) /\ stream[s].handler = "connect" /\ stack[1] = P!Frame("user", s)
  BY <1>0 DEF Codes, Failing
<1>3. CASE UNCHANGED vars
  <2>1. UNCHANGED <<tcpVars, jsVars, native, closing, code>> /\ UNCHANGED <<calls, pc, stack, stream>>
    BY <1>3 DEF vars, bindingVars, tcpVars
  <2>2. P!Core' /\ P!SameEnds /\ P!Nesting' = P!Nesting BY <1>0, <2>1, StillSame
  <2>3. Typed' /\ SameStates BY <1>0, <2>1, SameTyped
  <2>4. Lives' BY <1>0, <2>1, <2>2, <2>3, LivesStill DEF Still
  <2>5. Failing(s)' BY <2>1 DEF Failing, P!Opened, P!Live, P!Frame
  <2>6. NoWrites' BY <1>0, <2>2, NoWritesSame DEF Codes, NoWrites
  <2>7. Codes' BY <1>0, <2>1, <2>2, <2>5, <2>6 DEF Codes, NoWrites
  <2> QED BY <2>1, <2>2, <2>3, <2>4, <2>5, <2>7 DEF LInv, P!Live, P!Opened, jsVars
<1>4. CASE ConnectFailed
  <2>1. /\ Len(stack) = 1 /\ T!CloseOver(s, stack) /\ code' = Append(Front(code), "error")
        /\ UNCHANGED <<jsVars, native, closing>>
    BY <1>1, <1>4 DEF ConnectFailed, Becomes, bindingVars
  <2>2. P!CloseOver(s, stack) BY <2>1, SameCloseOver
  <2>3. ~P!Inside("flush", s)
    <3>1. DOMAIN stack = 1..1 BY <1>0, <2>1 DEF P!Core, P!Calls
    <3>2. stack[1].fn = "user" BY <1>2 DEF P!Frame
    <3> QED BY <3>1, <3>2 DEF P!Inside
  <2>4. P!Core' /\ calls' = calls /\ P!Nesting' = P!Nesting
    BY <1>0, <1>1, <1>2, <2>2, <2>3, Given, P!CoreFailed
  <2>5. P!SameEnds /\ (\A t \in Socket \ {s} : P!Live(t)' = P!Live(t)) /\ ~P!Live(s)'
    BY <1>0, <1>2, <2>2, Given, P!EndsClose
  <2>6. pc' = pc BY <2>2 DEF P!CloseOver
  <2>7. Typed' /\ SameStates BY <1>0, <2>1, SameTyped
  <2>8. Lives' BY <1>0, <2>1, <2>4, <2>5, <2>6, <2>7, LivesStill DEF Still
  <2>9. /\ code' \in Seq(Scripts \cup {"close", "error"}) /\ Len(code') = 1 /\ code'[1] = "error"
    <3>1. Front(code) = <<>>
      <4>1. Len(code) - 1 = 0 /\ Front(code) = SubSeq(code, 1, Len(code) - 1) BY <1>2 DEF Front
      <4>2. Front(code) \in Seq(Scripts \cup {"close", "error"}) /\ Len(Front(code)) = 0
        BY <1>1, <1>2, <4>1, Given, P!UnderFacts
      <4> QED BY <4>2
    <3> QED BY <2>1, <3>1
  <2>10. Failing(s)'
    <3>1. \/ stack' = stack
          \/ stack' = Append(stack, P!Frame("cancel", s))
      BY <2>2 DEF P!CloseOver
    <3>2. stack \in Seq(P!FrameRec) BY <1>0 DEF P!Core, P!Calls
    <3>3. P!Frame("cancel", s) \in P!FrameRec BY Given, P!FrameType
    <3>4. /\ stack' # <<>> /\ stack'[1] = P!Frame("user", s)
          /\ Len(stack') = 1 \/ (Len(stack') = 2 /\ stack'[2] = P!Frame("cancel", s))
      <4>1. CASE stack' = stack BY <1>1, <1>2, <2>1, <4>1
      <4>2. CASE stack' = Append(stack, P!Frame("cancel", s))
        <5>1. /\ Len(stack') = 2 /\ stack'[2] = P!Frame("cancel", s)
              /\ stack'[1] = stack[1]
          <6>1. PICK fr \in P!FrameRec : fr = P!Frame("cancel", s) BY <3>3
          <6>2. stack' = Append(stack, fr) BY <4>2, <6>1
          <6>3. P!Keeps(Len(stack)) /\ Len(stack') = Len(stack) + 1 /\ stack'[Len(stack) + 1] = fr
            BY <3>2, <6>2, Given, P!PushFacts
          <6> QED BY <2>1, <6>1, <6>3 DEF P!Keeps
        <5>2. stack' # <<>>
          <6>1. Len(stack') # 0 BY <5>1
          <6> QED BY <6>1
        <5> QED BY <1>2, <5>1, <5>2
      <4> QED BY <3>1, <4>1, <4>2
    <3>5. P!Opened(s)' /\ stream'[s].handler = "connect" BY <1>2, <2>5 DEF P!SameEnds
    <3> QED BY <2>5, <2>9, <3>4, <3>5 DEF Failing, P!Frame
  <2>11. NoWrites' BY <1>0, <2>5, NoWritesSame DEF Codes, NoWrites
  <2>12. Codes' BY <1>0, <1>2, <2>4, <2>9, <2>10, <2>11 DEF Codes, NoWrites
  <2> QED BY <2>1, <2>4, <2>5, <2>7, <2>8, <2>10, <2>12 DEF LInv, jsVars
<1>5. CASE ConnectRejected
  <2>1. /\ Len(stack) = 1 /\ code[1] = "error" /\ SettleConnect(s, "rejected")
        /\ code' = Append(Front(code), "js") /\ UNCHANGED <<tcpVars, reads, native, closing>>
    BY <1>1, <1>5 DEF ConnectRejected, Becomes, bindingVars
  <2>2. UNCHANGED <<calls, pc, stream>> BY <2>1 DEF tcpVars
  <2>3. P!Core' /\ P!SameEnds /\ P!Nesting' = P!Nesting BY <1>0, <2>1, StillSame
  <2>4. /\ socket' \in [Socket -> SocketRec] /\ SameStates
        /\ \A t \in Socket : socket'[t].queue = socket[t].queue
        /\ \A t \in Socket \ {s} : socket'[t] = socket[t]
        /\ socket'[s].connected = IF socket[s].connected = "pending" THEN "rejected"
                                  ELSE socket[s].connected
    <3>1. "rejected" \in Promised BY DEF Promised
    <3> QED BY <1>0, <2>1, <3>1, SettleFacts
  <2>5. Typed' BY <1>0, <2>1, <2>4 DEF Typed
  <2>6. Lives' BY <1>0, <2>1, <2>2, <2>3, <2>4, <2>5, LivesStill DEF Still
  <2>7. /\ code' \in Seq(Scripts \cup {"close", "error"}) /\ Len(code') = 1 /\ code'[1] = "js"
    <3>1. Front(code) = <<>>
      <4>1. Len(code) - 1 = 0 /\ Front(code) = SubSeq(code, 1, Len(code) - 1) BY <1>2 DEF Front
      <4>2. Front(code) \in Seq(Scripts \cup {"close", "error"}) /\ Len(Front(code)) = 0
        BY <1>1, <1>2, <4>1, Given, P!UnderFacts
      <4> QED BY <4>2
    <3> QED BY <2>1, <3>1 DEF Scripts
  <2>8. Plain' BY <2>7 DEF Plain, Scripts
  <2>9. NoWrites' BY <1>0, <2>3, NoWritesSame DEF Codes, NoWrites
  <2>10. Codes' BY <1>0, <1>2, <2>2, <2>3, <2>7, <2>8, <2>9 DEF Codes, NoWrites
  <2>11. ~P!Live(s) BY <2>1 DEF Failing
  <2>12. \A t \in Socket : P!Live(t)' = P!Live(t) BY <2>2 DEF P!Live, P!Opened
  <2> QED BY <2>1, <2>3, <2>4, <2>6, <2>8, <2>10, <2>11, <2>12 DEF LInv
<1>6. CASE Written /\ T!Cancel
  <2>1. stream[s].writes = <<>> BY <1>0, <1>2 DEF Codes
  <2>2. P!Cancel /\ onWrite(s) /\ UNCHANGED <<native, closing>>
    BY <1>1, <1>6, SameCancel DEF Written, bindingVars
  <2>3. P!Top.stream = s /\ P!Top.fn = "cancel" BY <1>1, <2>2, SameTests DEF P!Cancel, P!Runs
  <2>4. UNCHANGED <<stream, calls, pc>> /\ stack' = P!Under BY <2>1, <2>2, <2>3 DEF P!Cancel
  <2>5. UNCHANGED <<jsVars, code>>
    <3>1. Called = {} BY <2>4 DEF Called
    <3> QED BY <2>2, <3>1 DEF onWrite
  <2>6. P!Core'
    <3>1. P!Loop BY <2>2 DEF P!Loop
    <3> QED BY <1>0, <3>1, Given, P!CoreLoop
  <2>7. P!Nesting' = P!Nesting
    BY <1>0, <1>1, <2>3, <2>4, Given, P!NestingPop, P!NestingType DEF P!Core
  <2>8. P!SameEnds BY <2>4, Given, P!EndsSame
  <2>9. Typed' /\ SameStates BY <1>0, <2>5, SameTyped
  <2>10. Lives' BY <1>0, <2>2, <2>4, <2>6, <2>8, <2>9, LivesStill DEF Still
  <2>11. Len(stack) = 2
    <3>1. ~T!Runs("user") BY <2>2, <2>3, SameTests DEF T!Runs
    <3> QED BY <1>1, <3>1 DEF Failing
  <2>12. /\ stack' # <<>> /\ stack'[1] = stack[1] /\ Len(stack') = 1
    <3>1. /\ stack' \in Seq(P!FrameRec) /\ Len(stack') = 2 - 1
          /\ \A i \in 1..2 - 1 : stack'[i] = stack[i]
      BY <1>0, <1>1, <2>4, <2>11, Given, P!TopFacts DEF P!Core, P!Calls
    <3>2. Len(stack') = 1 /\ stack'[1] = stack[1] BY <3>1
    <3>3. stack' # <<>>
      <4>1. Len(stack') # 0 BY <3>2
      <4> QED BY <4>1
    <3> QED BY <3>2, <3>3
  <2>13. Failing(s)' BY <1>2, <2>4, <2>5, <2>11, <2>12 DEF Failing, P!Opened, P!Live, P!Frame
  <2>14. NoWrites' BY <1>0, <2>8, NoWritesSame DEF Codes, NoWrites
  <2>15. Codes' BY <1>0, <2>4, <2>5, <2>7, <2>13, <2>14 DEF Codes, NoWrites
  <2> QED BY <2>4, <2>5, <2>6, <2>8, <2>9, <2>10, <2>13, <2>15 DEF LInv, P!Live, P!Opened, jsVars
<1> QED BY <1>3, <1>4, <1>5, <1>6, FailingOnly

-----------------------------------------------------------------------------
(* The inductive invariant of the objects. *)

LEMMA PlainCases ==
  ASSUME LInv, Plain, [Next]_vars
  PROVE  \/ Ordinary \/ (\E s \in Socket : connect(s))
         \/ onConnection \/ Dispatch \/ onClose \/ onCloseEnd
<1>1. P!Core /\ Codes BY DEF LInv
<1>2. ~ConnectFailed /\ ~ConnectRejected
  <2> SUFFICES ASSUME T!Runs("user") PROVE Last(code) \notin {"close", "error"}
    BY DEF ConnectFailed, ConnectRejected
  <2>1. stack # <<>> /\ P!Top.fn = "user" BY SameTests DEF P!Runs
  <2>2. P!Nesting > 0 /\ P!Nesting \in Nat BY <1>1, <2>1, Given, P!NestingType DEF P!Core
  <2>3. Len(code) \in 1..Len(code) /\ Last(code) = code[Len(code)] BY <1>1, <2>2 DEF Codes, Last
  <2> QED BY <2>3 DEF Plain, Scripts
<1> QED BY <1>2 DEF Next, Call, Step, Ordinary

LEMMA LInit == Init => LInv
<1> SUFFICES ASSUME Init PROVE LInv OBVIOUS
<1>1. P!Init BY SameInit DEF Init
<1>2. P!Core BY <1>1, Given, P!CoreInit
<1>3. \A s \in Socket : stream[s] = P!Fresh /\ ~P!Opened(s)
  BY <1>1 DEF P!Init, P!Opened, P!Fresh
<1>4. pc = "script" /\ stack = <<>> /\ calls = [o \in Op |-> 0] BY <1>1 DEF P!Init
<1>5. Typed
  <2>1. reads \in Seq(Promised)
    <3>1. <<>> \in Seq(Promised) BY EmptySeq
    <3> QED BY <3>1 DEF Init
  <2> QED BY <2>1, EmptyType DEF Init, Typed
<1>6. Lives
  <2>1. ASSUME NEW s \in Socket PROVE Life(s)
    <3>1. socket[s] = Empty /\ native[s] = "none" /\ closing # s BY SocketAssumption DEF Init
    <3> QED BY <1>3, <3>1 DEF Life, Empty, P!Fresh
  <2> QED BY <1>4, <1>5, <2>1 DEF Lives, Init
<1>7. Codes
  <2>1. code \in Seq(Scripts \cup {"close", "error"}) /\ Len(code) = 0
    <3>1. <<>> \in Seq(Scripts \cup {"close", "error"}) /\ Len(<<>>) = 0 BY EmptySeq
    <3> QED BY <3>1 DEF Init
  <2>2. P!Nesting = 0 BY <1>2, <1>4, Given, P!NestingType DEF P!Core
  <2>3. Plain BY <2>1 DEF Plain
  <2>4. \A s \in Socket : stream[s].handler = "connect" => stream[s].writes = <<>>
    BY <1>3 DEF P!Fresh
  <2> QED BY <1>4, <2>1, <2>2, <2>3, <2>4 DEF Codes
<1> QED BY <1>2, <1>6, <1>7 DEF LInv

LEMMA LStep ==
  ASSUME P!Careful, LInv, [Next]_vars
  PROVE  LInv'
<1>1. CASE Plain
  <2>1. CASE Ordinary BY <1>1, <2>1, OrdinaryStep
  <2>2. CASE \E s \in Socket : connect(s) BY <1>1, <2>2, ConnectStep
  <2>3. CASE onConnection BY <1>1, <2>3, ConnectionStep
  <2>4. CASE Dispatch BY <1>1, <2>4, DispatchStep
  <2>5. CASE onClose BY <1>1, <2>5, CloseStep
  <2>6. CASE onCloseEnd BY <1>1, <2>6, CloseEndStep
  <2> QED BY <1>1, <2>1, <2>2, <2>3, <2>4, <2>5, <2>6, PlainCases
<1>2. CASE \E s \in Socket : Failing(s) BY <1>2, FailingStep
<1> QED BY <1>1, <1>2 DEF LInv, Codes

LEMMA LAlways ==
  ASSUME P!Careful
  PROVE  Spec => []LInv
  BY LInit, LStep, PTL DEF Spec

(* What the event loop still holds of a stream is that it is open, or is being
   closed. *)
LEMMA HeldIs ==
  ASSUME LInv, NEW s \in Socket
  PROVE  Held(s) <=> P!Opened(s) \/ closing = s
<1>0. P!Streams /\ P!Calls /\ P!Closing BY DEF LInv, P!Core
<1>1. s # None /\ Range(pending_closes) = P!Range(pending_closes)
  BY SocketAssumption DEF Range, P!Range
<1>2. ASSUME P!Opened(s) PROVE Held(s)
  <2>1. CASE P!Live(s)
    <3>1. stream[s].fd \in Fd /\ reg[stream[s].fd] = [stream |-> s, mask |-> stream[s].flags]
      BY <1>0, <2>1, Given, P!LiveFacts
    <3> QED BY <3>1 DEF Held
  <2>2. CASE ~P!Live(s)
    <3>1. s \in P!Range(pending_closes) \/ P!Inside("cancel", s)
      BY <1>0, <1>2, <2>2 DEF P!Closing, P!Live
    <3> QED BY <1>1, <3>1 DEF Held, P!Inside
  <2> QED BY <2>1, <2>2
<1>3. ASSUME Held(s) PROVE P!Opened(s) \/ closing = s
  <2>1. CASE \E f \in Fd : reg[f].stream = s
    <3>1. PICK f \in Fd : reg[f].stream = s BY <2>1
    <3>2. P!Watched(f) BY <1>0 DEF P!Streams
    <3>3. P!Open(f) BY <1>1, <3>1, <3>2 DEF P!Watched, P!NoReg
    <3>4. s = conn[f].owner BY <3>1, <3>2, <3>3 DEF P!Watched
    <3> QED BY <3>2, <3>3, <3>4 DEF P!Watched, P!Live
  <2>2. CASE \E e \in batch : e.stream = s BY <1>0, <2>2 DEF P!Calls
  <2>3. CASE s \in Range(pending_closes)
    <3>1. stream[s].status = "CLOSED" BY <1>0, <1>1, <2>3 DEF P!Closing
    <3> QED BY <1>0, <3>1 DEF P!Streams, P!Attached, P!Fresh
  <2>4. CASE \E i \in DOMAIN stack : stack[i].stream = s
    <3>1. PICK i \in DOMAIN stack : stack[i].stream = s BY <2>4
    <3>2. i \in 1..Len(stack) BY <1>0, <3>1 DEF P!Calls
    <3> QED BY <1>0, <3>1, <3>2 DEF P!Calls, P!Good
  <2> QED BY <1>3, <2>1, <2>2, <2>3, <2>4 DEF Held
<1>4. closing = s => Held(s) BY DEF Held
<1> QED BY <1>2, <1>3, <1>4

(* For a program that keeps to the rules closed, inside and unopened, however
   its calls, the peers and the descriptors that are given out again mix, no
   callback meets a deleted TcpStream and none is left over. *)
THEOREM NetStreamLife ==
  ASSUME P!Careful
  PROVE  Spec => []StreamLife
<1>1. LInv => StreamLife
  <2> SUFFICES ASSUME LInv, NEW s \in Socket
               PROVE  /\ native[s] = "live" <=> Held(s)
                      /\ socket[s].state = "active" <=>
                           native[s] = "live" /\ stream[s].handler = "client"
                      /\ socket[s].state = "destroyed" => ~socket[s].handle
    BY DEF StreamLife
  <2>1. Held(s) <=> P!Opened(s) \/ closing = s BY HeldIs
  <2>2. Life(s) BY DEF LInv, Lives
  <2>3. ~P!Opened(s) => stream[s].handler # "client"
    BY DEF LInv, P!Core, P!Streams, P!Attached, P!Fresh
  <2> QED BY <2>1, <2>2, <2>3 DEF Life
<1> QED BY <1>1, LAlways, PTL

-----------------------------------------------------------------------------
(* The promises of connect(). *)

(* While connect() has not settled, epoll watches the attempt or its failure is
   being reported; it was resolved with the Socket active, and rejected once the
   stream was closed. *)
Promise(s) ==
  /\ socket[s].connected = "pending" =>
       (P!Live(s) /\ stream[s].handler = "connect") \/ Failing(s)
  /\ socket[s].connected = "resolved" => socket[s].state \in {"active", "destroyed"}
  /\ socket[s].connected = "rejected" => socket[s].state = "connecting" /\ ~P!Live(s)
  /\ socket[s].state = "connecting" => socket[s].connected \in {"pending", "rejected"}

Promises == \A s \in Socket : Promise(s)

SameConnected == \A s \in Socket : socket'[s].connected = socket[s].connected

(* connect() has settled, or the Socket has none. *)
Done(s) == socket[s].state = "connecting" => socket[s].connected # "pending"

LEMMA ConnectedError ==
  ASSUME Typed, NEW s \in Socket, onError(s), Done(s)
  PROVE  SameConnected
<1>1. "rejected" \in Promised BY DEF Promised
<1>2. CASE SettleConnect(s, "rejected") /\ socket[s].state = "connecting"
  <2>1. /\ socket'[s].connected = socket[s].connected
        /\ \A t \in Socket \ {s} : socket'[t] = socket[t]
    BY <1>1, <1>2, SettleFacts DEF Done
  <2> QED BY <2>1 DEF SameConnected
<1>3. CASE Shift(s, "rejected") BY <1>1, <1>3, ShiftFacts DEF SameConnected
<1> QED BY <1>2, <1>3 DEF onError

LEMMA ConnectedWrite ==
  ASSUME Typed, NEW s \in Socket, onWrite(s), Done(s) \/ Called = {}
  PROVE  SameConnected
  BY ConnectedError DEF onWrite, SameConnected, jsVars

LEMMA ConnectedData ==
  ASSUME Typed, NEW s \in Socket, NEW result, onData(s, result), Done(s)
  PROVE  SameConnected
<1>1. CASE Shift(s, "resolved")
  <2>1. "resolved" \in Promised BY DEF Promised
  <2> QED BY <1>1, <2>1, ShiftFacts DEF SameConnected
<1>2. CASE UNCHANGED jsVars BY <1>2 DEF SameConnected, jsVars
<1>3. CASE onError(s) BY <1>3, ConnectedError
<1> QED BY <1>1, <1>2, <1>3 DEF onData

(* A handler is of a Socket that is active, or it cancels the writes of a
   stream that has none. *)
LEMMA HandlerActive ==
  ASSUME LInv, Read \/ Written
  PROVE  /\ T!Top.stream \in Socket
         /\ Called = {} \/ socket[T!Top.stream].state = "active"
         /\ Read => socket[T!Top.stream].state = "active"
<1>0. P!Core /\ Lives /\ Codes BY DEF LInv
<1>1. P!Read \/ P!FlushWrite \/ P!Cancel BY SameRead, SameFlush, SameCancel DEF Read, Written
<1>2. CASE P!Read \/ P!FlushWrite
  <2>1. PICK s \in Socket : s = P!Top.stream BY <1>0, <1>2, Given, P!HandlerClient
  <2>2. P!Opened(s) /\ stream[s].handler = "client" BY <1>0, <1>2, <2>1, Given, P!HandlerClient
  <2>3. socket[s].state = "active" BY <1>0, <2>2 DEF Lives, Life
  <2> QED BY <2>1, <2>3, SameTests
<1>3. CASE P!Cancel
  <2>1. stack # <<>> /\ P!Top.fn = "cancel" BY <1>3 DEF P!Cancel, P!Runs
  <2>2. PICK s \in Socket : s = P!Top.stream /\ P!Opened(s)
    BY <1>0, <2>1, Given, P!TopGood DEF P!Core
  <2>3. ~Read BY <2>1, SameTests DEF Read, T!Read, T!Runs
  <2>4. CASE stream[s].handler = "connect"
    <3>1. stream[s].writes = <<>> BY <1>0, <2>4 DEF Codes
    <3>2. calls' = calls BY <1>3, <2>2, <3>1 DEF P!Cancel
    <3> QED BY <2>2, <2>3, <3>2, SameTests DEF Called
  <2>5. CASE stream[s].handler # "connect"
    <3>1. stream[s].handler = "client"
      BY <1>0, <2>2, <2>5 DEF P!Core, P!Streams, P!StreamRec, P!Attached
    <3>2. socket[s].state = "active" BY <1>0, <2>2, <3>1 DEF Lives, Life
    <3> QED BY <2>2, <2>3, <3>2, SameTests
  <2> QED BY <2>4, <2>5
<1> QED BY <1>1, <1>2, <1>3

LEMMA OrdinaryAttempts ==
  ASSUME Careful, P!Careful, LInv, Plain, Promises, Ordinary
  PROVE  P!SameAttempts /\ SameConnected
<1>0. P!Core /\ Lives /\ Codes /\ Typed BY DEF LInv, Lives
<1>1. CASE UNCHANGED vars
  <2>1. UNCHANGED <<tcpVars, jsVars>> BY <1>1 DEF vars
  <2> QED BY <1>0, <2>1, StillSame DEF SameConnected, jsVars
<1>2. CASE \E s \in Socket : pause(s) \/ shutdown(s) \/ \E o \in Op : write(s, o)
  <2>1. PICK s \in Socket : pause(s) \/ shutdown(s) \/ \E o \in Op : write(s, o) BY <1>2
  <2>2. P!SameAttempts BY <1>0, <2>1, StillProgram
  <2>3. CASE pause(s) \/ shutdown(s) BY <2>2, <2>3 DEF pause, shutdown, SameConnected, jsVars
  <2>4. CASE \E o \in Op : write(s, o)
    <3>1. onWrite(s) /\ Done(s) BY <2>4 DEF write, Patient, Done
    <3> QED BY <1>0, <2>2, <3>1, ConnectedWrite
  <2> QED BY <2>1, <2>3, <2>4
<1>3. CASE \E s \in Socket : destroy(s)
  <2>1. PICK s \in Socket : destroy(s) BY <1>3
  <2>2. UNCHANGED jsVars /\ \A t \in Socket \ {s} : P!Live(t)' = P!Live(t)
    BY <1>0, <2>1, StillDestroy
  <2>3. ASSUME stream[s].handler = "connect" PROVE P!Live(s)' = P!Live(s)
    <3>1. P!Close(s) /\ P!Opened(s)
      BY <2>1, SameClose DEF destroy, P!Close, P!Careful, P!Allowed, P!Opened
    <3>2. socket[s].state = "connecting" /\ socket[s].connected # "pending"
      BY <1>0, <2>1, <2>3, <3>1 DEF Lives, Life, destroy, Patient
    <3>3. stream[s].status = "CLOSED" BY <3>1, <3>2 DEF Promises, Promise, P!Live
    <3>4. stream' = stream BY <3>1, <3>3 DEF P!Close, P!CloseOver
    <3> QED BY <3>4 DEF P!Live, P!Opened
  <2> QED BY <2>2, <2>3 DEF P!SameAttempts, SameConnected, jsVars
<1>4. CASE listen \/ Throws \/ \E s \in Socket : read(s)
  <2>1. P!SameAttempts BY <1>0, <1>4, StillAside
  <2>2. CASE listen \/ Throws BY <2>1, <2>2 DEF listen, Throws, SameConnected, jsVars
  <2>3. CASE \E s \in Socket : read(s) BY <1>0, <2>1, <2>3, ReadFacts DEF SameConnected
  <2> QED BY <1>4, <2>2, <2>3
<1>5. CASE Read \/ Written
  <2>1. P!SameAttempts BY <1>0, <1>5, StillHandler
  <2>2. PICK s \in Socket :
          /\ s = T!Top.stream /\ (Called = {} \/ socket[s].state = "active")
          /\ Read => socket[s].state = "active"
    BY <1>5, HandlerActive
  <2>3. CASE Read
    <3>1. onData(s, T!ReadResult(stream[s].fd)) /\ Done(s) BY <2>2, <2>3 DEF Read, Done
    <3> QED BY <1>0, <2>1, <3>1, ConnectedData
  <2>4. CASE Written BY <1>0, <2>1, <2>2, <2>4, ConnectedWrite DEF Written, Done
  <2> QED BY <1>5, <2>3, <2>4
<1>6. CASE Poll \/ LoopTest \/ LoopStep \/ Outside
  BY <1>0, <1>6, StillLoop DEF SameConnected, jsVars
<1>7. CASE PollListener BY <1>0, <1>7, StillListener DEF SameConnected, jsVars
<1>8. CASE Return BY <1>0, <1>8, StillReturn DEF SameConnected, jsVars
<1> QED BY <1>1, <1>2, <1>3, <1>4, <1>5, <1>6, <1>7, <1>8 DEF Ordinary

LEMMA PromisesSame ==
  ASSUME LInv, Plain, Promises, P!SameEnds, P!SameAttempts, SameStates, SameConnected
  PROVE  Promises'
<1> SUFFICES ASSUME NEW s \in Socket PROVE Promise(s)' BY DEF Promises
<1>1. Promise(s) /\ ~Failing(s) BY FailingFacts DEF Promises
<1>2. /\ stream'[s].handler = stream[s].handler /\ P!Opened(s)' = P!Opened(s)
      /\ stream[s].handler = "connect" => P!Live(s)' = P!Live(s)
      /\ socket'[s].state = socket[s].state /\ socket'[s].connected = socket[s].connected
  BY DEF P!SameEnds, P!SameAttempts, SameStates, SameConnected
<1>3. CASE socket[s].connected = "pending" BY <1>1, <1>2, <1>3 DEF Promise
<1>4. CASE socket[s].connected = "rejected"
  <2>1. socket[s].state = "connecting" /\ ~P!Live(s) BY <1>1, <1>4 DEF Promise
  <2>2. P!Opened(s) => stream[s].handler = "connect"
    BY <2>1 DEF LInv, Lives, Life, P!Core, P!Streams, P!StreamRec, P!Attached
  <2>3. ~P!Live(s)' BY <1>2, <2>1, <2>2 DEF P!Live
  <2> QED BY <1>2, <1>4, <2>1, <2>3 DEF Promise
<1>5. CASE socket[s].connected \notin {"pending", "rejected"} BY <1>1, <1>2, <1>5 DEF Promise
<1> QED BY <1>3, <1>4, <1>5

LEMMA PromiseAside ==
  ASSUME LInv, Promises, NEW s \in Socket, ~Failing(s),
         stream'[s] = stream[s], socket'[s] = socket[s]
  PROVE  Promise(s)'
<1>1. Promise(s) BY DEF Promises
<1> QED BY <1>1 DEF Promise, P!Live, P!Opened

LEMMA PromisesPlain ==
  ASSUME Careful, P!Careful, LInv, Plain, Promises, [Next]_vars
  PROVE  Promises'
<1>1. \A s \in Socket : ~Failing(s) BY FailingFacts
<1>2. CASE Ordinary
  <2>1. P!SameAttempts /\ SameConnected BY <1>2, OrdinaryAttempts
  <2>2. P!SameEnds /\ SameStates BY <1>2, OrdinaryStep DEF Still
  <2> QED BY <2>1, <2>2, PromisesSame
<1>3. CASE \E s \in Socket : connect(s)
  <2>1. PICK s \in Socket : connect(s) BY <1>3
  <2>2. /\ P!Live(s)' /\ stream'[s].handler = "connect" /\ socket'[s].connected = "pending"
        /\ \A t \in Socket \ {s} : socket'[t] = socket[t] /\ stream'[t] = stream[t]
    BY <2>1, ConnectStep
  <2>3. Promise(s)' BY <2>2 DEF Promise, P!Live
  <2>4. \A t \in Socket \ {s} : Promise(t)' BY <1>1, <2>2, PromiseAside
  <2> QED BY <2>3, <2>4 DEF Promises
<1>4. CASE onConnection
  <2>1. CASE P!SameEnds /\ P!SameAttempts /\ UNCHANGED <<socket, stack>>
    BY <2>1, PromisesSame DEF SameStates, SameConnected
  <2>2. CASE \E s \in Socket :
               /\ socket'[s].connected = "none" /\ P!Opened(s)' /\ stream'[s].handler = "client"
               /\ \A t \in Socket \ {s} : socket'[t] = socket[t] /\ stream'[t] = stream[t]
    <3>1. PICK s \in Socket :
               /\ socket'[s].connected = "none" /\ P!Opened(s)' /\ stream'[s].handler = "client"
               /\ \A t \in Socket \ {s} : socket'[t] = socket[t] /\ stream'[t] = stream[t]
      BY <2>2
    <3>0. LInv' BY <1>4, ConnectionStep
    <3>2. Promise(s)' BY <3>0, <3>1 DEF Promise, LInv, Lives, Life
    <3>3. \A t \in Socket \ {s} : Promise(t)' BY <1>1, <3>1, PromiseAside
    <3> QED BY <3>2, <3>3 DEF Promises
  <2> QED BY <1>4, <2>1, <2>2, ConnectionStep
<1>5. CASE Dispatch
  <2>1. PICK s \in Socket :
          /\ \A t \in Socket \ {s} : stream'[t] = stream[t] /\ socket'[t] = socket[t]
          /\ \/ Plain' /\ UNCHANGED <<stream, socket>>
             \/ /\ Failing(s)' /\ UNCHANGED <<stream, socket>>
             \/ /\ socket'[s].connected # "pending" /\ P!Live(s)
                /\ P!Opened(s)' /\ stream'[s].handler = "client"
                /\ socket'[s].connected = "rejected" => socket[s].connected = "rejected"
          /\ LInv'
    BY <1>5, DispatchStep
  <2>2. \A t \in Socket \ {s} : Promise(t)' BY <1>1, <2>1, PromiseAside
  <2>3. Promise(s)'
    <3>1. CASE UNCHANGED <<stream, socket>> BY <1>1, <3>1, PromiseAside
    <3>2. CASE /\ socket'[s].connected # "pending" /\ P!Live(s)
               /\ P!Opened(s)' /\ stream'[s].handler = "client"
               /\ socket'[s].connected = "rejected" => socket[s].connected = "rejected"
      <4>1. socket'[s].state = "active" BY <2>1, <3>2 DEF LInv, Lives, Life
      <4>2. socket[s].connected # "rejected" BY <3>2 DEF Promises, Promise
      <4> QED BY <3>2, <4>1, <4>2 DEF Promise
    <3> QED BY <2>1, <3>1, <3>2
  <2> QED BY <2>2, <2>3 DEF Promises
<1>6. CASE onClose
  <2>1. PICK s \in Socket :
          /\ stream[s].status = "CLOSED" /\ stream'[s] = P!Fresh
          /\ \A t \in Socket \ {s} : stream'[t] = stream[t]
          /\ \A t \in Socket \ {s} : socket'[t] = socket[t]
          /\ socket'[s].connected = socket[s].connected
          /\ (socket[s].state = "active" /\ socket'[s].state = "destroyed") \/ UNCHANGED jsVars
    BY <1>6, CloseStep
  <2>2. \A t \in Socket \ {s} : Promise(t)' BY <1>1, <2>1, PromiseAside
  <2>3. socket[s].connected # "pending" BY <1>1, <2>1 DEF Promises, Promise, P!Live
  <2>4. socket[s].connected = "rejected" => socket'[s].state = "connecting"
    BY <2>1 DEF Promises, Promise, jsVars
  <2>5. ~P!Live(s)' BY <2>1 DEF P!Live, P!Opened, P!Fresh
  <2>6. /\ socket[s].connected = "resolved" => socket'[s].state \in {"active", "destroyed"}
        /\ socket'[s].state = "connecting" => socket[s].connected \in {"pending", "rejected"}
    BY <2>1 DEF Promises, Promise, jsVars
  <2>7. Promise(s)' BY <2>1, <2>3, <2>4, <2>5, <2>6 DEF Promise
  <2> QED BY <2>2, <2>7 DEF Promises
<1>7. CASE onCloseEnd
  <2>1. stream' = stream /\ socket' = socket BY <1>7, CloseEndStep DEF jsVars
  <2> QED BY <1>1, <2>1, PromiseAside DEF Promises
<1> QED BY <1>2, <1>3, <1>4, <1>5, <1>6, <1>7, PlainCases

LEMMA PromisesFailing ==
  ASSUME LInv, Promises, NEW s \in Socket, Failing(s), [Next]_vars
  PROVE  Promises'
<1>1. /\ P!SameEnds /\ SameStates
      /\ \A t \in Socket \ {s} : P!Live(t)' = P!Live(t) /\ socket'[t] = socket[t]
      /\ P!Live(s)' => P!Live(s)
      /\ \/ Failing(s)' /\ socket' = socket
         \/ /\ ~P!Live(s)'
            /\ socket'[s].connected = IF socket[s].connected = "pending" THEN "rejected"
                                      ELSE socket[s].connected
  BY FailingStep
<1>2. ASSUME NEW t \in Socket \ {s} PROVE Promise(t)'
  <2>1. ~Failing(t)
    <3>1. P!Frame("user", s).stream = s /\ P!Frame("user", t).stream = t BY DEF P!Frame
    <3> QED BY <3>1 DEF Failing
  <2>2. Promise(t) BY DEF Promises
  <2> QED BY <1>1, <2>1, <2>2 DEF Promise, P!SameEnds
<1>3. Promise(s)'
  <2>1. Promise(s) BY DEF Promises
  <2>2. CASE Failing(s)' /\ socket' = socket BY <1>1, <2>1, <2>2 DEF Promise
  <2>3. CASE /\ ~P!Live(s)'
             /\ socket'[s].connected = IF socket[s].connected = "pending" THEN "rejected"
                                       ELSE socket[s].connected
    <3>1. socket[s].state = "connecting" BY DEF LInv, Lives, Life, Failing
    <3>2. socket'[s].state = "connecting" BY <1>1, <3>1 DEF SameStates
    <3>3. socket'[s].connected = "rejected" BY <2>1, <2>3, <3>1 DEF Promise
    <3> QED BY <2>3, <3>2, <3>3 DEF Promise
  <2> QED BY <1>1, <2>2, <2>3
<1> QED BY <1>2, <1>3 DEF Promises

LEMMA PromisesAlways ==
  ASSUME Careful, P!Careful
  PROVE  Spec => [](LInv /\ Promises)
<1>1. Init => Promises
  <2> SUFFICES ASSUME Init, NEW s \in Socket PROVE Promise(s) BY DEF Promises
  <2>1. socket[s].connected = "none" /\ socket[s].state = "empty" BY EmptyType DEF Init
  <2> QED BY <2>1 DEF Promise
<1>2. LInv /\ Promises /\ [Next]_vars => Promises'
  <2> SUFFICES ASSUME LInv, Promises, [Next]_vars PROVE Promises' OBVIOUS
  <2>1. CASE Plain BY <2>1, PromisesPlain
  <2>2. CASE \E s \in Socket : Failing(s) BY <2>2, PromisesFailing
  <2> QED BY <2>1, <2>2 DEF LInv, Codes
<1> QED BY <1>1, <1>2, LAlways, PTL DEF Spec

(* For a program that leaves a Socket alone until its connect() has settled,
   and keeps to the rules of the streams: nobody waits in vain for connect(),
   whatever becomes of the attempt, and its answer is the right one. *)
THEOREM NetConnectAnswered ==
  ASSUME Careful, P!Careful
  PROVE  Spec => []ConnectAnswered
<1>1. LInv /\ Promises => ConnectAnswered
  <2> SUFFICES ASSUME LInv, Promises, NEW s \in Socket
               PROVE  /\ socket[s].connected = "pending" =>
                           \/ /\ stream[s].handler = "connect" /\ stream[s].status = "NONE"
                              /\ \E f \in Fd : reg[f].stream = s
                           \/ T!Inside("user", s)
                      /\ socket[s].connected = "resolved" => socket[s].state \in {"active", "destroyed"}
                      /\ socket[s].connected = "rejected" => socket[s].state = "connecting"
    BY DEF ConnectAnswered
  <2>1. Promise(s) /\ P!Streams BY DEF Promises, LInv, P!Core
  <2>2. ASSUME P!Live(s), stream[s].handler = "connect"
        PROVE  stream[s].status = "NONE" /\ \E f \in Fd : reg[f].stream = s
    <3>1. stream[s].fd \in Fd /\ reg[stream[s].fd] = [stream |-> s, mask |-> stream[s].flags]
      BY <2>1, <2>2, Given, P!LiveFacts
    <3>2. stream[s].status = "NONE" BY <2>1, <2>2 DEF P!Streams, P!Attached, P!Live
    <3> QED BY <3>1, <3>2
  <2>3. ASSUME Failing(s) PROVE T!Inside("user", s)
    <3>1. stack[1].fn = "user" /\ stack[1].stream = s BY <2>3 DEF Failing, P!Frame
    <3>2. Len(stack) \in Nat \ {0} /\ DOMAIN stack = 1..Len(stack)
      <4>1. stack \in Seq(P!FrameRec) /\ stack # <<>> BY <2>3 DEF LInv, P!Core, P!Calls, Failing
      <4> QED BY <4>1
    <3>3. 1 \in DOMAIN stack BY <3>2
    <3> QED BY <3>1, <3>3 DEF T!Inside
  <2> QED BY <2>1, <2>2, <2>3 DEF Promise
<1> QED BY <1>1, PromisesAlways, PTL

-----------------------------------------------------------------------------
(* The promises of read(). *)

(* The one read() that has not settled is all of one queue, of a Socket that is
   active. *)
Waiting(s) ==
  /\ socket[s].state = "active"
  /\ \E r \in DOMAIN reads : socket[s].queue = <<r>> /\ reads[r] = "pending"

Queues ==
  /\ \A s \in Socket : socket[s].queue # <<>> => Waiting(s)
  /\ \A r \in DOMAIN reads :
       reads[r] = "pending" => \E s \in Socket : socket[s].queue = <<r>>
  /\ \A s, t \in Socket :
       socket[s].queue # <<>> /\ socket[s].queue = socket[t].queue => s = t

LEMMA One ==
  ASSUME NEW r, NEW t
  PROVE  /\ <<r>> # <<>> /\ (<<r>> = <<t>> => r = t)
         /\ Range(<<r>>) = {r}
<1>1. Len(<<r>>) = 1 /\ <<r>>[1] = r /\ <<t>>[1] = t /\ DOMAIN <<r>> = {1} OBVIOUS
<1>2. <<r>> # <<>> /\ (<<r>> = <<t>> => r = t) BY <1>1
<1> QED BY <1>1, <1>2 DEF Range

LEMMA QueuesSame ==
  ASSUME Queues, reads' = reads,
         \A s \in Socket :
           /\ socket'[s].queue = socket[s].queue
           /\ socket[s].queue # <<>> => socket'[s].state = socket[s].state
  PROVE  Queues'
  BY DEF Queues, Waiting

(* The first reader of a Socket is settled. *)
LEMMA QueuesShift ==
  ASSUME Typed, Queues, NEW s \in Socket, NEW how \in {"resolved", "rejected"},
         \A t \in Socket \ {s} :
           socket'[t].queue = socket[t].queue /\ socket'[t].state = socket[t].state,
         socket'[s].queue = IF socket[s].queue = <<>> THEN socket[s].queue ELSE Tail(socket[s].queue),
         reads' = IF socket[s].queue = <<>> THEN reads
                  ELSE [reads EXCEPT ![Head(socket[s].queue)] = how]
  PROVE  Queues'
<1>1. CASE socket[s].queue = <<>> BY <1>1, QueuesSame
<1>2. CASE socket[s].queue # <<>>
  <2>1. PICK r \in DOMAIN reads : socket[s].queue = <<r>> /\ reads[r] = "pending"
    BY <1>2 DEF Queues, Waiting
  <2>2. Tail(<<r>>) = <<>> /\ Head(<<r>>) = r OBVIOUS
  <2>3. socket'[s].queue = <<>> /\ reads' = [reads EXCEPT ![r] = how] BY <1>2, <2>1, <2>2
  <2>4. /\ DOMAIN reads' = DOMAIN reads
        /\ \A j \in DOMAIN reads : reads'[j] = IF j = r THEN how ELSE reads[j]
    <3>1. how \in Promised BY DEF Promised
    <3> QED BY <2>3, <3>1, PromiseSettled DEF Typed
  <2>5. ASSUME NEW t \in Socket, socket'[t].queue # <<>> PROVE Waiting(t)' /\ t # s
    <3>1. t # s /\ socket[t].queue # <<>> /\ socket'[t].queue = socket[t].queue BY <2>3, <2>5
    <3>2. PICK j \in DOMAIN reads : socket[t].queue = <<j>> /\ reads[j] = "pending"
      BY <3>1 DEF Queues, Waiting
    <3>3. j # r BY <3>1, <3>2, <2>1, <1>2 DEF Queues
    <3>4. socket'[t].state = "active" BY <3>1 DEF Queues, Waiting
    <3> QED BY <2>4, <3>1, <3>2, <3>3, <3>4 DEF Waiting
  <2>6. ASSUME NEW j \in DOMAIN reads', reads'[j] = "pending"
        PROVE  \E t \in Socket : socket'[t].queue = <<j>>
    <3>1. j \in DOMAIN reads /\ j # r /\ reads[j] = "pending" BY <2>4, <2>6
    <3>2. PICK t \in Socket : socket[t].queue = <<j>> BY <3>1 DEF Queues
    <3>3. t # s BY <2>1, <3>1, <3>2, One
    <3> QED BY <3>2, <3>3
  <2>7. ASSUME NEW t \in Socket, NEW u \in Socket,
               socket'[t].queue # <<>>, socket'[t].queue = socket'[u].queue
        PROVE  t = u
    <3>1. t # s /\ u # s BY <2>5, <2>7
    <3> QED BY <2>7, <3>1 DEF Queues
  <2> QED BY <2>5, <2>6, <2>7 DEF Queues
<1> QED BY <1>1, <1>2

LEMMA QueuesOfShift ==
  ASSUME Typed, Queues, NEW s \in Socket, NEW how \in {"resolved", "rejected"}, Shift(s, how)
  PROVE  Queues'
<1> DEFINE q == socket[s].queue
           rest == IF q = <<>> THEN q ELSE Tail(q)
           r == [socket[s] EXCEPT !.queue = rest]
<1>1. socket' = [socket EXCEPT ![s] = r] BY DEF Shift, Typed
<1>2. r.queue = rest
  <2>1. socket[s] \in SocketRec BY DEF Typed
  <2> QED BY <2>1 DEF SocketRec
<1> HIDE DEF r
<1>3. socket'[s] = r /\ \A t \in Socket \ {s} : socket'[t] = socket[t] BY <1>1 DEF Typed
<1>4. reads' = IF q = <<>> THEN reads ELSE [reads EXCEPT ![Head(q)] = how] BY DEF Shift
<1> QED BY <1>2, <1>3, <1>4, QueuesShift

LEMMA QueuesQuiet ==
  ASSUME Queues, UNCHANGED jsVars
  PROVE  Queues'
  BY QueuesSame DEF jsVars

LEMMA QueuesError ==
  ASSUME Typed, Queues, NEW s \in Socket, onError(s)
  PROVE  Queues'
<1>1. CASE SettleConnect(s, "rejected") /\ reads' = reads
  <2>1. "rejected" \in Promised BY DEF Promised
  <2>2. SameStates /\ \A t \in Socket : socket'[t].queue = socket[t].queue
    BY <1>1, <2>1, SettleFacts
  <2> QED BY <1>1, <2>2, QueuesSame DEF SameStates
<1>2. CASE Shift(s, "rejected") BY <1>2, QueuesOfShift
<1> QED BY <1>1, <1>2 DEF onError

(* Each read() waits for the one before it. *)
LEMMA QueuesRead ==
  ASSUME Careful, LInv, Promises, Queues, NEW s \in Socket, read(s)
  PROVE  Queues'
<1>1. Typed /\ Life(s) BY DEF LInv, Lives
<1>2. PICK n \in Nat : n = Len(reads) + 1 BY <1>1 DEF Typed
<1>3. /\ SameStates /\ reads' = Append(reads, "pending")
      /\ socket'[s].queue = Append(socket[s].queue, Len(reads) + 1)
      /\ \A t \in Socket \ {s} : socket'[t] = socket[t]
  BY <1>1, ReadFacts
<1>4. socket[s].queue = <<>> /\ socket[s].state = "active"
  <2>1. socket[s].connected \notin {"pending", "rejected"} BY DEF read, Patient
  <2> QED BY <1>1, <2>1 DEF read, Life, Promises, Promise
<1>5. socket'[s].queue = <<n>>
  <2>1. Append(<<>>, n) = <<n>> OBVIOUS
  <2> QED BY <1>2, <1>3, <1>4, <2>1
<1>6. /\ DOMAIN reads' = DOMAIN reads \cup {n} /\ n \notin DOMAIN reads
      /\ reads'[n] = "pending" /\ \A j \in DOMAIN reads : reads'[j] = reads[j]
  <2>1. /\ Len(reads') = n /\ DOMAIN reads' = 1..n /\ DOMAIN reads = 1..n - 1
        /\ reads'[n] = "pending" /\ \A j \in 1..n - 1 : reads'[j] = reads[j]
    <3>1. "pending" \in Promised /\ reads \in Seq(Promised) /\ Len(reads) = n - 1 /\ n # 0
      BY <1>1, <1>2 DEF Promised, Typed
    <3> QED BY <1>2, <1>3, <3>1, AppendProperties
  <2>2. 1..n = (1..n - 1) \cup {n}
    <3>1. n >= 1 BY <1>2, <1>1 DEF Typed
    <3> QED BY <3>1
  <2> QED BY <2>1, <2>2
<1>7. ASSUME NEW t \in Socket \ {s}, socket[t].queue # <<>>
      PROVE  /\ Waiting(t)' /\ socket[t].queue # <<n>>
  <2>1. PICK j \in DOMAIN reads : socket[t].queue = <<j>> /\ reads[j] = "pending"
    BY <1>7 DEF Queues, Waiting
  <2>2. j # n BY <1>6
  <2>3. socket'[t] = socket[t] /\ socket[t].state = "active" BY <1>3, <1>7 DEF Queues, Waiting
  <2> QED BY <1>6, <2>1, <2>2, <2>3, One DEF Waiting
<1>8. Waiting(s)' BY <1>3, <1>4, <1>5, <1>6 DEF Waiting, SameStates
<1>9. ASSUME NEW j \in DOMAIN reads', reads'[j] = "pending"
      PROVE  \E t \in Socket : socket'[t].queue = <<j>>
  <2>1. CASE j = n BY <1>5, <2>1
  <2>2. CASE j \in DOMAIN reads
    <3>1. PICK t \in Socket : socket[t].queue = <<j>> BY <1>6, <1>9, <2>2 DEF Queues
    <3>2. t # s BY <1>4, <3>1, One
    <3> QED BY <1>3, <3>1, <3>2
  <2> QED BY <1>6, <2>1, <2>2
<1>10. ASSUME NEW t \in Socket, NEW u \in Socket,
              socket'[t].queue # <<>>, socket'[t].queue = socket'[u].queue
       PROVE  t = u
  <2>1. CASE t = s /\ u # s BY <1>3, <1>5, <1>7, <1>10, <2>1
  <2>2. CASE t # s /\ u = s BY <1>3, <1>5, <1>7, <1>10, <2>2
  <2>3. CASE t # s /\ u # s BY <1>3, <1>10, <2>3 DEF Queues
  <2> QED BY <2>1, <2>2, <2>3
<1>11. \A t \in Socket : socket'[t].queue # <<>> => Waiting(t)' BY <1>3, <1>7, <1>8
<1> QED BY <1>9, <1>10, <1>11 DEF Queues

LEMMA QueuesOrdinary ==
  ASSUME Careful, LInv, Plain, Promises, Queues, Ordinary
  PROVE  Queues'
<1>0. P!Core /\ Lives /\ Codes /\ Typed BY DEF LInv, Lives
<1>1. CASE UNCHANGED jsVars BY <1>1, QueuesQuiet
<1>2. CASE \E s \in Socket, o \in Op : write(s, o)
  BY <1>0, <1>1, <1>2, QueuesError DEF write, onWrite
<1>3. CASE \E s \in Socket : read(s) BY <1>3, QueuesRead
<1>4. CASE Read
  <2>1. PICK s \in Socket : s = T!Top.stream BY <1>4, HandlerActive
  <2>2. onData(s, T!ReadResult(stream[s].fd)) BY <1>4, <2>1 DEF Read
  <2> QED BY <1>0, <1>1, <2>2, QueuesError, QueuesOfShift DEF onData
<1>5. CASE Written
  <2>1. PICK s \in Socket : s = T!Top.stream BY <1>5, HandlerActive
  <2>2. onWrite(s) BY <1>5, <2>1 DEF Written
  <2> QED BY <1>0, <1>1, <2>2, QueuesError DEF onWrite
<1>6. ASSUME NEW s \in Socket, pause(s) \/ shutdown(s) \/ destroy(s) PROVE UNCHANGED jsVars
  BY <1>6 DEF pause, shutdown, destroy
<1>7. listen \/ Throws \/ Return \/ Poll \/ PollListener \/ LoopTest \/ LoopStep \/ Outside
        \/ UNCHANGED vars => UNCHANGED jsVars
  BY DEF listen, Throws, Return, Poll, PollListener, LoopTest, LoopStep, Outside, vars
<1> QED BY <1>1, <1>2, <1>3, <1>4, <1>5, <1>6, <1>7 DEF Ordinary

LEMMA QueuesPlain ==
  ASSUME Careful, P!Careful, LInv, Plain, Promises, Queues, [Next]_vars
  PROVE  Queues'
<1>0. Typed BY DEF LInv, Lives
<1>1. CASE Ordinary BY <1>1, QueuesOrdinary
<1>2. CASE \E s \in Socket : connect(s)
  <2>1. PICK s \in Socket : connect(s) BY <1>2
  <2>2. /\ socket[s].queue = <<>> /\ socket'[s].queue = <<>> /\ reads' = reads
        /\ \A t \in Socket \ {s} : socket'[t] = socket[t]
    BY <2>1, ConnectStep, EmptyType
  <2> QED BY <2>2, QueuesSame
<1>3. CASE onConnection
  <2>1. CASE UNCHANGED socket BY <1>3, <2>1, ConnectionStep, QueuesQuiet DEF jsVars
  <2>2. CASE \E s \in Socket :
               /\ socket[s] = Empty /\ socket'[s].queue = <<>>
               /\ \A t \in Socket \ {s} : socket'[t] = socket[t]
    <3>1. PICK s \in Socket :
               /\ socket[s] = Empty /\ socket'[s].queue = <<>>
               /\ \A t \in Socket \ {s} : socket'[t] = socket[t]
      BY <2>2
    <3>2. socket[s].queue = <<>> /\ reads' = reads BY <1>3, <3>1, EmptyType, ConnectionStep
    <3> QED BY <3>1, <3>2, QueuesSame
  <2> QED BY <1>3, <2>1, <2>2, ConnectionStep
<1>4. CASE Dispatch
  <2>1. PICK s \in Socket :
          /\ reads' = reads /\ \A t \in Socket \ {s} : socket'[t] = socket[t]
          /\ \/ UNCHANGED socket
             \/ socket[s].state = "connecting" /\ socket'[s].queue = socket[s].queue
    BY <1>4, DispatchStep
  <2>2. CASE UNCHANGED socket BY <2>1, <2>2, QueuesQuiet DEF jsVars
  <2>3. CASE socket[s].state = "connecting" /\ socket'[s].queue = socket[s].queue
    <3>1. socket[s].queue = <<>> BY <2>3 DEF Queues, Waiting
    <3> QED BY <2>1, <2>3, <3>1, QueuesSame
  <2> QED BY <2>1, <2>2, <2>3
<1>5. CASE onClose
  <2>1. PICK s \in Socket :
          /\ \A t \in Socket \ {s} : socket'[t] = socket[t]
          /\ \/ /\ socket'[s].queue = IF socket[s].queue = <<>> THEN socket[s].queue
                                       ELSE Tail(socket[s].queue)
                /\ reads' = IF socket[s].queue = <<>> THEN reads
                            ELSE [reads EXCEPT ![Head(socket[s].queue)] = "rejected"]
             \/ UNCHANGED jsVars
    BY <1>5, CloseStep
  <2> QED BY <1>0, <2>1, QueuesShift, QueuesQuiet
<1>6. CASE onCloseEnd BY <1>6, CloseEndStep, QueuesQuiet
<1> QED BY <1>1, <1>2, <1>3, <1>4, <1>5, <1>6, PlainCases

LEMMA QueuesFailing ==
  ASSUME LInv, Queues, NEW s \in Socket, Failing(s), [Next]_vars
  PROVE  Queues'
<1>1. /\ reads' = reads /\ SameStates /\ socket'[s].queue = socket[s].queue
      /\ \A t \in Socket \ {s} : socket'[t] = socket[t]
  BY FailingStep
<1> QED BY <1>1, QueuesSame DEF SameStates

(* For a program that, besides, reads no Socket whose connect() was rejected and
   awaits each read() before the next one of that Socket: nobody waits in vain
   for read(), since the Socket that has the promise has an open stream, and
   the end of that stream empties the queue. *)
THEOREM NetReadsServed ==
  ASSUME Careful, P!Careful
  PROVE  Spec => []ReadsServed
<1>1. Init => Queues
  <2> SUFFICES ASSUME Init PROVE Queues OBVIOUS
  <2>1. \A s \in Socket : socket[s].queue = <<>> BY EmptyType DEF Init
  <2>2. DOMAIN reads = {} BY DEF Init
  <2> QED BY <2>1, <2>2 DEF Queues
<1>2. LInv /\ Promises /\ Queues /\ [Next]_vars => Queues'
  <2> SUFFICES ASSUME LInv, Promises, Queues, [Next]_vars PROVE Queues' OBVIOUS
  <2>1. CASE Plain BY <2>1, QueuesPlain
  <2>2. CASE \E s \in Socket : Failing(s) BY <2>2, QueuesFailing
  <2> QED BY <2>1, <2>2 DEF LInv, Codes
<1>3. LInv /\ Queues => ReadsServed
  <2> SUFFICES ASSUME LInv, Queues PROVE ReadsServed OBVIOUS
  <2>1. ASSUME NEW s \in Socket, socket[s].queue # <<>> PROVE stream[s].fd # None
    <3>1. Life(s) /\ socket[s].state = "active" BY <2>1 DEF LInv, Lives, Queues, Waiting
    <3> QED BY <3>1 DEF Life, P!Opened
  <2>2. ASSUME NEW r \in DOMAIN reads, NEW s \in Socket, r \in Range(socket[s].queue)
        PROVE  socket[s].queue = <<r>> /\ reads[r] = "pending"
    <3>1. socket[s].queue # <<>> BY <2>2 DEF Range
    <3>2. PICK j \in DOMAIN reads : socket[s].queue = <<j>> /\ reads[j] = "pending"
      BY <3>1 DEF Queues, Waiting
    <3> QED BY <2>2, <3>2, One
  <2>3. ASSUME NEW r \in DOMAIN reads
        PROVE  reads[r] = "pending" <=>
                 Cardinality({s \in Socket : r \in Range(socket[s].queue)}) = 1
    <3> DEFINE S == {u \in Socket : r \in Range(socket[u].queue)}
    <3>1. CASE reads[r] = "pending"
      <4>1. PICK s \in Socket : socket[s].queue = <<r>> BY <3>1 DEF Queues
      <4>2. ASSUME NEW u \in Socket, r \in Range(socket[u].queue) PROVE u = s
        <5>1. socket[u].queue = <<r>> BY <4>2, <2>2
        <5>2. socket[u].queue # <<>> /\ socket[u].queue = socket[s].queue BY <5>1, <4>1, One
        <5> QED BY <5>2 DEF Queues
      <4>3. r \in Range(socket[s].queue)
        <5>1. Range(<<r>>) = {r} BY One
        <5> QED BY <5>1, <4>1
      <4>4. S = {s} BY <4>2, <4>3
      <4>5. Cardinality(S) = 1 BY <4>4, FS_Singleton
      <4> QED BY <3>1, <4>5
    <3>2. CASE reads[r] # "pending"
      <4>1. S = {} BY <2>2, <3>2
      <4>2. Cardinality(S) # 1
        <5>1. PICK U : U = S OBVIOUS
        <5>2. U = {} BY <4>1, <5>1
        <5>3. Cardinality(U) = 0 BY <5>2, FS_EmptySet
        <5> HIDE DEF S
        <5> QED BY <5>1, <5>3
      <4> QED BY <3>2, <4>2
    <3> QED BY <3>1, <3>2
  <2> QED BY <2>1, <2>3 DEF ReadsServed
<1> QED BY <1>1, <1>2, <1>3, PromisesAlways, PTL DEF Spec

-----------------------------------------------------------------------------
(* The references of the loop. *)

Counts == RefsCount /\ listening \in Nat /\ refs \in Int

SameCount == listening' \in Nat /\ refs' - listening' = refs - listening

LEMMA CountsSame ==
  ASSUME Counts, refs' \in Int, SameCount, \A s \in Socket : P!Opened(s)' = P!Opened(s),
         pc' = "closecb" <=> pc = "closecb"
  PROVE  Counts'
<1> DEFINE A == {s \in Socket : stream[s].fd # None}
           B == {s \in Socket : stream'[s].fd # None}
<1>1. B = A BY DEF P!Opened
<1>2. IsFiniteSet(A) BY SocketAssumption, FS_Subset
<1>3. Cardinality(A) \in Nat BY <1>2, FS_CardinalityType
<1>4. refs = Cardinality(A) + (IF pc = "closecb" THEN 1 ELSE 0) + listening BY DEF Counts, RefsCount
<1> HIDE DEF A, B
<1>5. refs' = Cardinality(B) + (IF pc' = "closecb" THEN 1 ELSE 0) + listening'
  BY <1>1, <1>3, <1>4 DEF Counts, SameCount
<1> QED BY <1>5 DEF Counts, RefsCount, SameCount, B

LEMMA CountsOpen ==
  ASSUME Counts, NEW s \in Socket, ~P!Opened(s), P!Opened(s)',
         \A t \in Socket \ {s} : stream'[t] = stream[t],
         refs' = refs + 1, listening' = listening, pc' = pc
  PROVE  Counts'
<1> DEFINE A == {t \in Socket : stream[t].fd # None}
           B == {t \in Socket : stream'[t].fd # None}
<1>1. B = A \cup {s} /\ s \notin A BY DEF P!Opened
<1>2. IsFiniteSet(A) BY SocketAssumption, FS_Subset
<1>3. refs = Cardinality(A) + (IF pc = "closecb" THEN 1 ELSE 0) + listening BY DEF Counts, RefsCount
<1> HIDE DEF A, B
<1>4. Cardinality(B) = Cardinality(A) + 1 /\ Cardinality(A) \in Nat
  BY <1>1, <1>2, FS_AddElement, FS_CardinalityType
<1>5. refs' = Cardinality(B) + (IF pc' = "closecb" THEN 1 ELSE 0) + listening'
  BY <1>3, <1>4 DEF Counts
<1> QED BY <1>5 DEF Counts, RefsCount, B

LEMMA CountsClose ==
  ASSUME LInv, Counts, onClose
  PROVE  Counts'
<1>1. P!CloseCb /\ listening' = listening BY SameCb DEF onClose, listenVars
<1>2. PICK s \in Socket : /\ P!Opened(s) /\ ~P!Opened(s)'
                          /\ \A t \in Socket \ {s} : stream'[t] = stream[t]
  BY <1>1, Given, P!CloseCbStep DEF LInv, P!Core
<1>3. refs' = refs /\ pc = "closes" /\ pc' = "closecb" BY <1>1 DEF P!CloseCb
<1> DEFINE A == {t \in Socket : stream[t].fd # None}
           B == {t \in Socket : stream'[t].fd # None}
<1>4. B = A \ {s} /\ s \in A BY <1>2 DEF P!Opened
<1>5. IsFiniteSet(A) BY SocketAssumption, FS_Subset
<1>6. refs = Cardinality(A) + listening
  <2>1. Cardinality(A) \in Nat BY <1>5, FS_CardinalityType
  <2>2. refs = Cardinality(A) + 0 + listening BY <1>3 DEF Counts, RefsCount
  <2> HIDE DEF A
  <2> QED BY <2>1, <2>2
<1> HIDE DEF A, B
<1>7. Cardinality(B) = Cardinality(A) - 1 /\ Cardinality(A) \in Nat
  BY <1>4, <1>5, FS_RemoveElement, FS_CardinalityType
<1>8. refs' = Cardinality(B) + 1 + listening'
  BY <1>1, <1>3, <1>6, <1>7 DEF Counts
<1> QED BY <1>1, <1>3, <1>8 DEF Counts, RefsCount, B

LEMMA CountsCloseEnd ==
  ASSUME LInv, Counts, onCloseEnd
  PROVE  Counts'
<1>1. P!CloseReturn /\ listening' = listening BY SameCb DEF onCloseEnd, listenVars
<1>2. refs' = refs - 1 /\ stream' = stream /\ pc = "closecb" /\ pc' = "closes"
  BY <1>1 DEF P!CloseReturn
<1> DEFINE A == {t \in Socket : stream[t].fd # None}
           B == {t \in Socket : stream'[t].fd # None}
<1>3. B = A BY <1>2
<1>4. IsFiniteSet(A) BY SocketAssumption, FS_Subset
<1>5. Cardinality(A) \in Nat BY <1>4, FS_CardinalityType
<1>6. refs = Cardinality(A) + 1 + listening BY <1>2 DEF Counts, RefsCount
<1> HIDE DEF A, B
<1>7. refs' = Cardinality(B) + 0 + listening' BY <1>1, <1>2, <1>3, <1>5, <1>6 DEF Counts
<1> QED BY <1>1, <1>2, <1>7 DEF Counts, RefsCount, B

(* listen takes a reference of its own; nothing else in Ordinary does. *)
LEMMA OrdinaryCount ==
  ASSUME Counts, Ordinary
  PROVE  SameCount /\ refs' \in Int
<1>1. CASE listen BY <1>1 DEF listen, Counts, SameCount
<1>2. CASE refs' = refs /\ listening' = listening BY <1>2 DEF Counts, SameCount
<1>3. CASE ~listen
  <2>1. listening' = listening
    BY <1>3 DEF Ordinary, pause, shutdown, destroy, read, write, Throws, Read, Written, Return,
                Poll, PollListener, LoopTest, LoopStep, Outside, bindingVars, listenVars, vars
  <2>2. refs' = refs
    <3>1. ASSUME NEW s \in Socket, pause(s) \/ shutdown(s) \/ destroy(s) \/ read(s) PROVE refs' = refs
      BY <3>1 DEF pause, shutdown, destroy, read, tcpVars, T!Pause, T!Resume, T!SetFlags,
                  T!Shutdown, T!Close, T!CloseOver, T!ctxVars
    <3>2. ASSUME NEW s \in Socket, NEW o \in Op, write(s, o) PROVE refs' = refs
      BY <3>2, SameWrite DEF write, P!Write, P!ctxVars
    <3>3. CASE Read \/ Written \/ Return
      BY <3>3 DEF Read, Written, Return, T!Read, T!FlushWrite, T!Cancel, T!Return, T!ctxVars
    <3>4. CASE Throws \/ PollListener \/ UNCHANGED vars
      BY <3>4 DEF Throws, PollListener, vars, tcpVars
    <3>5. CASE Poll \/ LoopTest \/ LoopStep \/ Outside
      <4>1. P!MoveOn \/ P!Poll \/ P!Network \/ P!Eof \/ P!AfterRead \/ P!FlushDone
        BY <3>5, SameMoves, SamePoll, SameNetwork, SameEof, SameFlush
           DEF Poll, LoopTest, LoopStep, Outside
      <4> QED BY <4>1 DEF P!MoveOn, P!Moves, P!Go, P!Poll, P!Network, P!Eof, P!AfterRead,
                          P!FlushDone, P!CloseOver, P!ctxVars
    <3> QED BY <1>3, <3>1, <3>2, <3>3, <3>4, <3>5 DEF Ordinary
  <2> QED BY <1>2, <2>1, <2>2
<1> QED BY <1>1, <1>3

LEMMA CountsPlain ==
  ASSUME P!Careful, LInv, Counts, Plain, [Next]_vars
  PROVE  Counts'
<1>0. P!Core /\ Lives /\ Codes BY DEF LInv
<1>1. CASE Ordinary
  <2>1. Still BY <1>1, OrdinaryStep
  <2>2. SameCount /\ refs' \in Int BY <1>1, OrdinaryCount
  <2> QED BY <2>1, <2>2, CountsSame DEF Still, P!SameEnds
<1>2. CASE \E s \in Socket : connect(s)
  <2>1. PICK s \in Socket : connect(s) BY <1>2
  <2>2. P!Connect(s) BY <2>1, SameConnect DEF connect
  <2>3. /\ P!Opened(s)' /\ \A t \in Socket \ {s} : stream'[t] = stream[t]
    BY <2>1, ConnectStep DEF P!Live
  <2>4. ~P!Opened(s) /\ refs' = refs + 1 /\ pc' = pc
    BY <2>2 DEF P!Connect, P!Register, P!Fresh, P!Opened, P!loopVars
  <2>5. listening' = listening BY <2>1 DEF connect, listenVars
  <2> QED BY <2>3, <2>4, <2>5, CountsOpen
<1>3. CASE onConnection
  <2>1. listening' = listening BY <1>3 DEF onConnection
  <2>2. CASE UNCHANGED tcpVars
    <3>1. refs' = refs /\ pc' = pc BY <2>2 DEF tcpVars
    <3>2. SameCount /\ refs' \in Int BY <2>1, <3>1 DEF SameCount, Counts
    <3>3. \A s \in Socket : P!Opened(s)' = P!Opened(s) BY <2>2 DEF tcpVars, P!Opened
    <3> QED BY <3>1, <3>2, <3>3, CountsSame
  <2>3. ASSUME NEW s \in Socket, socket[s] = Empty, T!AcceptOver(s), pc' = pc PROVE Counts'
    <3>1. ~P!Opened(s) BY <1>0, <2>3 DEF Lives, Life, Empty
    <3>2. P!AcceptOver(s) BY <2>3, SameAccept
    <3>3. PICK f \in Fd : \E r : r.fd = f /\ stream' = [stream EXCEPT ![s] = r]
      <4>1. PICK f \in P!FreeFd :
              stream' = [stream EXCEPT ![s] = [P!Fresh EXCEPT !.fd = f, !.handler = "client",
                                                            !.flags = {"IN"}, !.status = "ACTIVE"]]
        BY <3>2 DEF P!AcceptOver, P!LowestFree, P!Register
      <4>2. [P!Fresh EXCEPT !.fd = f, !.handler = "client", !.flags = {"IN"}, !.status = "ACTIVE"].fd = f
        BY DEF P!Fresh
      <4> QED BY <4>1, <4>2 DEF P!FreeFd
    <3>4. stream'[s].fd = f /\ \A t \in Socket \ {s} : stream'[t] = stream[t]
      BY <1>0, <3>3 DEF P!Core, P!Streams
    <3>5. P!Opened(s)' BY <3>4, FdAssumption DEF P!Opened
    <3>6. refs' = refs + 1 BY <3>2 DEF P!AcceptOver, P!Register
    <3> QED BY <2>1, <2>3, <3>1, <3>4, <3>5, <3>6, CountsOpen
  <2> QED BY <1>3, <2>2, <2>3 DEF onConnection, tcpVars
<1>4. CASE Dispatch
  <2>1. P!Dispatch /\ listening' = listening BY <1>4, SameDispatch DEF Dispatch, bindingVars, listenVars
  <2>2. refs' = refs /\ pc' = pc BY <2>1 DEF P!Dispatch, P!ctxVars
  <2>3. \A s \in Socket : P!Opened(s)' = P!Opened(s) BY <1>0, <2>1, Given, P!DispatchStep DEF P!Core, P!SameLife
  <2>4. SameCount /\ refs' \in Int BY <2>1, <2>2 DEF SameCount, Counts
  <2> QED BY <2>2, <2>3, <2>4, CountsSame
<1>5. CASE onClose BY <1>5, CountsClose
<1>6. CASE onCloseEnd BY <1>6, CountsCloseEnd
<1> QED BY <1>1, <1>2, <1>3, <1>4, <1>5, <1>6, PlainCases

LEMMA CountsFailing ==
  ASSUME LInv, Counts, NEW s \in Socket, Failing(s), [Next]_vars
  PROVE  Counts'
<1>0. P!Core /\ Lives /\ Codes BY DEF LInv
<1>1. \A t \in Socket : P!Opened(t)' = P!Opened(t) BY FailingStep DEF P!SameEnds
<1>2. UNCHANGED <<refs, listening, pc>>
  <2>1. CASE ConnectFailed
    BY <2>1 DEF ConnectFailed, T!CloseOver, T!ctxVars, bindingVars, listenVars
  <2>2. CASE ConnectRejected \/ UNCHANGED vars
    BY <2>2 DEF ConnectRejected, vars, tcpVars, bindingVars, listenVars
  <2>3. CASE Written /\ T!Cancel
    BY <2>3 DEF Written, T!Cancel, T!ctxVars, bindingVars, listenVars
  <2> QED BY <2>1, <2>2, <2>3, FailingOnly
<1>3. SameCount /\ refs' \in Int BY <1>2 DEF SameCount, Counts
<1> QED BY <1>1, <1>2, <1>3, CountsSame

LEMMA CountsAlways ==
  ASSUME P!Careful
  PROVE  Spec => []Counts
<1>1. Init => Counts
  <2> SUFFICES ASSUME Init PROVE Counts OBVIOUS
  <2>1. P!Init /\ listening = 0 BY SameInit DEF Init
  <2>2. {s \in Socket : stream[s].fd # None} = {} BY <2>1 DEF P!Init, P!Fresh
  <2>3. Cardinality({s \in Socket : stream[s].fd # None}) = 0 BY <2>2, FS_EmptySet
  <2> QED BY <2>1, <2>3 DEF P!Init, Counts, RefsCount
<1>2. LInv /\ Counts /\ [Next]_vars => Counts'
  <2> SUFFICES ASSUME LInv, Counts, [Next]_vars PROVE Counts' OBVIOUS
  <2>1. CASE Plain BY <2>1, CountsPlain
  <2>2. CASE \E s \in Socket : Failing(s) BY <2>2, CountsFailing
  <2> QED BY <2>1, <2>2 DEF LInv, Codes
<1> QED BY <1>1, <1>2, LAlways, PTL DEF Spec

(* For a program that keeps to the rules closed, inside and unopened: the loop
   holds one reference for each socket, until its on_close returned, and one for
   each server, whatever the callbacks do in between. *)
THEOREM NetRefsCount ==
  ASSUME P!Careful
  PROVE  Spec => []RefsCount
<1>1. Counts => RefsCount BY DEF Counts
<1> QED BY <1>1, CountsAlways, PTL

(* For such a program the loop does not return while a socket is open or a server
   listens. *)
THEOREM NetQuiescentEnd ==
  ASSUME P!Careful
  PROVE  Spec => QuiescentEnd
<1>1. LInv /\ Counts /\ [Next]_vars =>
        [LoopTest /\ ended' => listening = 0 /\ \A s \in Socket : stream[s].fd = None]_vars
  <2> SUFFICES ASSUME Counts, LoopTest, ended'
               PROVE  listening = 0 /\ \A s \in Socket : stream[s].fd = None
    OBVIOUS
  <2> DEFINE A == {s \in Socket : stream[s].fd # None}
  <2>1. pc = "loop" /\ ~(refs > 0) BY DEF LoopTest, T!LoopTest, T!Go
  <2>2. IsFiniteSet(A) BY SocketAssumption, FS_Subset
  <2>3. Cardinality(A) \in Nat BY <2>2, FS_CardinalityType
  <2>4. refs = Cardinality(A) + 0 + listening BY <2>1 DEF Counts, RefsCount
  <2>5. Cardinality(A) = 0 /\ listening = 0
    <3> HIDE DEF A
    <3> QED BY <2>1, <2>3, <2>4 DEF Counts
  <2>6. A = {} BY <2>2, <2>5, FS_EmptySet
  <2> QED BY <2>5, <2>6
<1> QED BY <1>1, LAlways, CountsAlways, PTL DEF Spec, QuiescentEnd

-----------------------------------------------------------------------------
(* What the streams promise, under the calls of the binding. *)

LEMMA OrdinaryStream ==
  ASSUME LInv, Ordinary
  PROVE  (\E s \in Socket : P!Program(s)) \/ P!Loop \/ P!Aside
<1>1. CASE \E s \in Socket : pause(s)
  <2>1. PICK s \in Socket : pause(s) BY <1>1
  <2>2. PICK flags \in {stream[s].flags \ {"IN"}, stream[s].flags \cup {"IN"}} : T!SetFlags(s, flags)
    BY <2>1 DEF pause, T!Pause, T!Resume
  <2>3. stream[s].flags \in P!Masks BY DEF LInv, P!Core, P!Streams, P!StreamRec
  <2>4. flags \in P!Masks /\ ("OUT" \in stream[s].flags => "OUT" \in flags)
    BY <2>2, <2>3 DEF P!Masks
  <2>5. P!SetFlags(s, flags) BY <2>2, SameMask
  <2> QED BY <2>4, <2>5 DEF P!Masking, P!Program
<1>2. ASSUME NEW s \in Socket, shutdown(s) \/ destroy(s) \/ \E o \in Op : write(s, o)
      PROVE  P!Program(s)
  BY <1>2, SameShutdown, SameClose, SameWrite DEF shutdown, destroy, write, P!Program
<1>3. CASE (\E s \in Socket : read(s)) \/ listen \/ Throws \/ PollListener \/ UNCHANGED vars
  BY <1>3 DEF read, listen, Throws, PollListener, vars, tcpVars, P!Aside, P!history
<1>4. CASE Read \/ Written \/ Return
  BY <1>4, SameRead, SameFlush, SameCancel, SameReturn DEF Read, Written, Return, P!Loop
<1>5. CASE Poll \/ LoopTest \/ LoopStep \/ Outside
  <2>1. P!MoveOn \/ P!Poll \/ P!Network \/ P!Eof \/ P!AfterRead \/ P!FlushDone
    BY <1>5, SameMoves, SamePoll, SameNetwork, SameEof, SameFlush
       DEF Poll, LoopTest, LoopStep, Outside
  <2> QED BY <2>1 DEF P!Loop
<1> QED BY <1>1, <1>2, <1>3, <1>4, <1>5 DEF Ordinary

(* Besides the steps of TcpStream there are those of a listener, and the close
   in the callback of a connection that failed. *)
LEMMA StreamCases ==
  ASSUME LInv, [Next]_vars
  PROVE  \/ (\E s \in Socket : P!Program(s)) \/ P!Loop \/ P!Aside
         \/ \E s \in Socket : P!Taken(s) \/ P!Failed(s)
<1>1. CASE Plain
  <2>1. CASE Ordinary BY <2>1, OrdinaryStream
  <2>2. CASE \E s \in Socket : connect(s) BY <2>2, SameConnect DEF connect, P!Program
  <2>3. CASE onConnection
    <3>1. CASE UNCHANGED tcpVars BY <3>1 DEF tcpVars, P!Aside, P!history
    <3>2. ASSUME NEW s \in Socket, socket[s] = Empty, T!AcceptOver(s), stack' = T!Push("user", s),
                 UNCHANGED <<pc, batch>>
          PROVE  P!Taken(s)
      <4>1. ~P!Opened(s) BY <3>2 DEF LInv, Lives, Life, Empty
      <4>2. stream[s] = P!Fresh BY <4>1 DEF LInv, P!Core, P!Streams, P!Attached
      <4>3. stack' = P!Push("user", s) BY <3>2 DEF T!Push, P!Push, T!Frame, P!Frame
      <4> QED BY <2>3, <3>2, <4>2, <4>3, SameAccept DEF onConnection, P!Taken
    <3> QED BY <2>3, <3>1, <3>2 DEF onConnection
  <2>4. CASE Dispatch BY <2>4, SameDispatch DEF Dispatch, P!Loop
  <2>5. CASE onClose \/ onCloseEnd BY <2>5, SameCb DEF onClose, onCloseEnd, P!Loop
  <2> QED BY <1>1, <2>1, <2>2, <2>3, <2>4, <2>5, PlainCases
<1>2. ASSUME NEW s \in Socket, Failing(s)
      PROVE  P!Loop \/ P!Aside \/ P!Failed(s)
  <2>1. CASE ConnectFailed
    <3>1. T!Top.stream = s /\ P!Opened(s) BY <1>2, FailingFacts DEF Failing
    <3> QED BY <2>1, <3>1, SameCloseOver DEF ConnectFailed, P!Failed
  <2>2. CASE ConnectRejected \/ UNCHANGED vars
    BY <2>2 DEF ConnectRejected, vars, tcpVars, P!Aside, P!history
  <2>3. CASE Written /\ T!Cancel BY <2>3, SameCancel DEF P!Loop
  <2> QED BY <1>2, <2>1, <2>2, <2>3, FailingOnly
<1> QED BY <1>1, <1>2 DEF LInv, Codes

(* Under a program that keeps to the rules closed, inside and unopened the binding
   breaks no promise of the streams: for sockets, too, each write is sent in order
   and answered once, none is forgotten, a shutdown is sent, a closed stream waits
   for its on_close once, and events reach the stream that owns the descriptor. *)
THEOREM NetStreamsKept ==
  ASSUME P!Careful
  PROVE  Spec => [](P!EachWriteOnce /\ P!WireOrder /\ P!WritesArmed /\ P!ShutdownKept
                      /\ P!ClosingOnce /\ P!EventsReachOwner)
<1>1. Init => P!Delivery BY SameInit, Given, P!DeliveryInit DEF Init
<1>2. LInv /\ LInv' /\ P!Delivery /\ [Next]_vars => P!Delivery'
  <2> SUFFICES ASSUME LInv, LInv', P!Delivery, [Next]_vars PROVE P!Delivery' OBVIOUS
  <2>1. P!Core /\ P!Core' BY DEF LInv
  <2>2. CASE (\E s \in Socket : P!Program(s)) \/ P!Loop BY <2>1, <2>2, Given, P!DeliveryKept
  <2>3. CASE P!Aside BY <2>1, <2>3, Given, P!AsideDelivery
  <2>4. CASE \E s \in Socket : P!Taken(s) \/ P!Failed(s) BY <2>1, <2>4, Given, P!ExtraDelivery
  <2> QED BY <2>2, <2>3, <2>4, StreamCases
<1>3. LInv /\ P!Delivery =>
        P!EachWriteOnce /\ P!WireOrder /\ P!WritesArmed /\ P!ShutdownKept
          /\ P!ClosingOnce /\ P!EventsReachOwner
  BY Given, P!DeliveryGives DEF LInv
<1> QED BY <1>1, <1>2, <1>3, LAlways, PTL DEF Spec

=============================================================================
