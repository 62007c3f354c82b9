-------------------------- MODULE TcpStreamProofs ---------------------------
(***************************************************************************)
(* The invariants of TcpStream, for any streams, writes and descriptors,   *)
(* any depth of callbacks, and a program that obeys the rules.             *)
(*                                                                         *)
(* They are proved in layers, each with the ones before it: the streams    *)
(* and their descriptors; the calls on the stack; closing.  On these three *)
(* rest the count of open streams, the queued writes, what a stream waits  *)
(* for, the end of one that was shut down, the order of what is sent, and  *)
(* the depth of callbacks.                                                 *)
(***************************************************************************)
EXTENDS TcpStream, FiniteSetTheorems, SequenceTheorems, WellFoundedInduction, TLAPS

(* What the code does not guard against, and the program does not do. *)
Careful == {"closed", "inside", "unopened"} \subseteq Rules

-----------------------------------------------------------------------------
(* The inductive invariant. *)

Masks == SUBSET {"IN", "OUT"}
Events == SUBSET {"IN", "OUT", "CLOSE"}
Status == {"NONE", "ACTIVE", "SHUTDOWN", "CLOSED"}

StreamRec == [status : Status, handler : {"none", "connect", "client"}, flags : Masks,
              fd : Fd \cup {None}, writes : Seq(Op)]
ConnRec == [owner : Stream \cup {None}, up : BOOLEAN, in : 0..MaxIn, fin : BOOLEAN,
            rst : BOOLEAN, shut : BOOLEAN]
RegRec == [stream : Stream \cup {None}, mask : Masks]
EventRec == [stream : Stream, events : Events]
FrameRec == [fn : {"user", "io", "eof", "flush", "cancel"}, stream : Stream, events : Events]

Opened(s) == stream[s].fd # None
Live(s) == Opened(s) /\ stream[s].status # "CLOSED"

(* A stream has its descriptor to itself from its opening to its closing, and
   epoll watches just that descriptor for it; the handler says in which half
   of its life it is. *)
Attached(s) ==
  /\ ~Opened(s) => stream[s] = Fresh
  /\ Live(s) => conn[stream[s].fd].owner = s
  /\ stream[s].handler = "none" => ~Opened(s)
  /\ stream[s].handler = "client" => stream[s].status # "NONE"
  /\ stream[s].handler = "connect" => stream[s].status \in {"NONE", "CLOSED"}

Watched(f) ==
  /\ Open(f) => /\ Live(conn[f].owner) /\ stream[conn[f].owner].fd = f
                /\ reg[f] = [stream |-> conn[f].owner, mask |-> stream[conn[f].owner].flags]
  /\ ~Open(f) => reg[f] = NoReg

Streams ==
  /\ stream \in [Stream -> StreamRec] /\ conn \in [Fd -> ConnRec] /\ reg \in [Fd -> RegRec]
  /\ \A s \in Stream : Attached(s)
  /\ \A f \in Fd : Watched(f)

(* A call on the stack, and an event, is of a stream that has not been given
   back; the handler of an event is the first call. *)
Good(i) ==
  /\ Opened(stack[i].stream)
  /\ stack[i].fn \in {"io", "flush"} => i = 1
  /\ stack[i].fn = "eof" => i = 2 /\ stack[1].fn = "io"
  /\ stack[i].fn \in {"io", "flush", "eof"} =>
       pc = "dispatch" /\ stream[stack[i].stream].handler = "client"
  /\ stack[i].fn = "flush" => Live(stack[i].stream)

Calls ==
  /\ batch \in SUBSET EventRec /\ stack \in Seq(FrameRec)
  /\ pc \in ProgramPc \cup {"loop", "poll", "dispatch", "closes"}
  /\ stack # <<>> => pc \in ProgramPc \cup {"dispatch"}
  /\ batch # {} => pc = "dispatch"
  /\ \A e \in batch : Opened(e.stream)
  /\ \A i \in 1..Len(stack) : Good(i)

NoRepeat(q) == \A i, j \in DOMAIN q : q[i] = q[j] => i = j

(* A closed stream is in pending_closes once, or one pd_tcp_close is cancelling
   its writes. *)
Cancels(i) == i \in 1..Len(stack) /\ stack[i].fn = "cancel"

Closing ==
  /\ pending_closes \in Seq(Stream) /\ NoRepeat(pending_closes)
  /\ \A s \in Range(pending_closes) :
       stream[s].status = "CLOSED" /\ stream[s].writes = <<>> /\ ~Inside("cancel", s)
  /\ \A s \in Stream :
       stream[s].status = "CLOSED" => s \in Range(pending_closes) \/ Inside("cancel", s)
  /\ \A i \in Nat : Cancels(i) => stream[stack[i].stream].status = "CLOSED"
  /\ \A i, j \in Nat :
       Cancels(i) /\ Cancels(j) /\ stack[i].stream = stack[j].stream => i = j

(* Nothing is closed where the loop waits next. *)
Waits ==
  pc \in {"script", "loop", "poll", "after"} =>
    pending_closes = <<>> /\ \A i \in 1..Len(stack) : stack[i].fn = "user"

(* A write in a queue was accepted for that stream and has had no callback,
   every other one that was accepted has had one. *)
Accepted(s) == Range(order[s])
Queued(s) == Range(stream[s].writes)

Queue(s) ==
  /\ NoRepeat(stream[s].writes)
  /\ \A o \in Op : o \in Queued(s) <=> o \in Accepted(s) /\ calls[o] = 0

Writes ==
  /\ written \in [Op -> Nat] /\ calls \in [Op -> {0, 1}] /\ order \in [Stream -> Seq(Op)]
  /\ \A o \in Op : written[o] <= Size[o] /\ (Unused(o) => written[o] = 0)
  /\ \A s \in Stream : Queue(s)
  /\ \A s, t \in Stream : \A o \in Op : o \in Accepted(s) /\ o \in Accepted(t) => s = t

-----------------------------------------------------------------------------
(* Sequences. *)

LEMMA UnderFacts ==
  ASSUME NEW S, NEW q \in Seq(S), q # <<>>
  PROVE  /\ SubSeq(q, 1, Len(q) - 1) \in Seq(S)
         /\ Len(SubSeq(q, 1, Len(q) - 1)) = Len(q) - 1
         /\ \A i \in 1..Len(q) - 1 : SubSeq(q, 1, Len(q) - 1)[i] = q[i]
         /\ Len(q) \in Nat \ {0} /\ q[Len(q)] \in S
<1>1. Len(q) \in Nat \ {0} /\ \A i \in 1..Len(q) : q[i] \in S BY LenProperties, ElementOfSeq
<1>2. \A i \in 1..Len(q) - 1 : q[i] \in S BY <1>1
<1> DEFINE m == Len(q) - 1
           r == SubSeq(q, 1, m)
<1>3. m \in Nat /\ 1 \in Int BY <1>1
<1> HIDE DEF m
<1>4. /\ r \in Seq(S) /\ Len(r) = (IF 1 <= m THEN m - 1 + 1 ELSE 0)
      /\ \A i \in 1..m - 1 + 1 : r[i] = q[1 + i - 1]
  BY <1>2, <1>3, SubSeqProperties DEF m
<1> HIDE DEF r
<1>5. r \in Seq(S) /\ Len(r) = m /\ \A i \in 1..m : r[i] = q[i] BY <1>1, <1>3, <1>4
<1> QED BY <1>1, <1>5 DEF m, r

(* A queue without repetitions stays one. *)
LEMMA AppendNoRepeat ==
  ASSUME NEW S, NEW q \in Seq(S), NEW x \in S
  PROVE  /\ Append(q, x) \in Seq(S) /\ Append(q, x) # <<>>
         /\ Range(Append(q, x)) = Range(q) \cup {x}
         /\ NoRepeat(q) /\ x \notin Range(q) => NoRepeat(Append(q, x))
<1> DEFINE r == Append(q, x)
<1>1. PICK n \in Nat : n = Len(q) OBVIOUS
<1>2. /\ r \in Seq(S) /\ Len(r) = n + 1 /\ DOMAIN r = 1..n + 1 /\ r[n + 1] = x
      /\ DOMAIN q = 1..n /\ \A i \in 1..n : r[i] = q[i]
  BY <1>1, AppendProperties
<1> HIDE DEF r
<1>3. \A i \in 1..n + 1 : i \in 1..n \/ i = n + 1 OBVIOUS
<1>4. n + 1 \in 1..n + 1 /\ \A i \in 1..n : i \in 1..n + 1 OBVIOUS
<1>5. Range(r) = Range(q) \cup {x} BY <1>2, <1>3, <1>4 DEF Range
<1>6. NoRepeat(q) /\ x \notin Range(q) => NoRepeat(r)
  <2> SUFFICES ASSUME NoRepeat(q), x \notin Range(q) PROVE NoRepeat(r) OBVIOUS
  <2>1. \A i \in 1..n : q[i] # x BY <1>2 DEF Range
  <2> QED BY <2>1, <1>2, <1>3 DEF NoRepeat
<1>7. r # <<>>
  <2>1. Len(r) # 0 BY <1>2
  <2> QED BY <2>1
<1> QED BY <1>2, <1>5, <1>6, <1>7 DEF r

LEMMA TailNoRepeat ==
  ASSUME NEW S, NEW q \in Seq(S), q # <<>>, NoRepeat(q)
  PROVE  /\ Head(q) \in Range(q) /\ Head(q) \in S
         /\ Tail(q) \in Seq(S) /\ NoRepeat(Tail(q))
         /\ Range(Tail(q)) = Range(q) \ {Head(q)}
<1> DEFINE r == Tail(q)
<1>1. PICK n \in Nat : n + 1 = Len(q)
  <2>1. Len(q) \in Nat \ {0} OBVIOUS
  <2>2. Len(q) - 1 \in Nat /\ Len(q) - 1 + 1 = Len(q) BY <2>1
  <2> QED BY <2>2
<1>2. /\ r \in Seq(S) /\ DOMAIN r = 1..n /\ DOMAIN q = 1..n + 1 /\ q[1] = Head(q)
      /\ Head(q) \in S /\ \A i \in 1..n : r[i] = q[i + 1]
  BY <1>1, HeadTailProperties
<1> HIDE DEF r
<1>3. \A i \in 1..n : i + 1 \in 1..n + 1 /\ i + 1 # 1 OBVIOUS
<1>4. 1 \in 1..n + 1 OBVIOUS
<1>5. NoRepeat(r)
  <2> SUFFICES ASSUME NEW i \in 1..n, NEW j \in 1..n, r[i] = r[j] PROVE i = j
    BY <1>2 DEF NoRepeat
  <2>1. i + 1 = j + 1 BY <1>2, <1>3 DEF NoRepeat
  <2> QED BY <2>1
<1>6. Range(r) = Range(q) \ {Head(q)}
  <2>1. \A i \in 1..n + 1 : i = 1 \/ \E j \in 1..n : i = j + 1
    <3> TAKE i \in 1..n + 1
    <3>1. (i = 1 \/ i - 1 \in 1..n) /\ i = (i - 1) + 1 OBVIOUS
    <3> QED BY <3>1
  <2>2. \A j \in 1..n : q[j + 1] # Head(q) BY <1>2, <1>3, <1>4 DEF NoRepeat
  <2>3. \A x : x \in Range(r) <=> \E j \in 1..n : x = q[j + 1] BY <1>2 DEF Range
  <2>4. \A x : x \in Range(q) <=> x = Head(q) \/ \E j \in 1..n : x = q[j + 1]
    <3>1. \A x : x \in Range(q) <=> \E i \in 1..n + 1 : x = q[i] BY <1>2 DEF Range
    <3>2. ASSUME NEW i \in 1..n + 1
          PROVE  q[i] = Head(q) \/ \E j \in 1..n : q[i] = q[j + 1]
      BY <3>2, <2>1, <1>2
    <3>3. \A j \in 1..n : \E i \in 1..n + 1 : q[j + 1] = q[i] BY <1>3
    <3>4. \E i \in 1..n + 1 : Head(q) = q[i] BY <1>2, <1>4
    <3> QED BY <3>1, <3>2, <3>3, <3>4
  <2> QED BY <2>2, <2>3, <2>4
<1>7. Head(q) \in Range(q) BY <1>2, <1>4 DEF Range
<1> QED BY <1>2, <1>5, <1>6, <1>7 DEF r

(* stack' is the first k calls of stack, and then others. *)
Keeps(k) == k \in 0..Len(stack) /\ k <= Len(stack') /\ \A i \in 1..k : stack'[i] = stack[i]

LEMMA PushFacts ==
  ASSUME stack \in Seq(FrameRec), NEW fr \in FrameRec, stack' = Append(stack, fr)
  PROVE  /\ stack' \in Seq(FrameRec) /\ Keeps(Len(stack))
         /\ Len(stack') = Len(stack) + 1 /\ stack'[Len(stack) + 1] = fr
<1>1. Len(stack) \in Nat OBVIOUS
<1> QED BY <1>1, AppendProperties DEF Keeps

LEMMA TopFacts ==
  ASSUME stack \in Seq(FrameRec), stack # <<>>
  PROVE  /\ Top \in FrameRec /\ Top = stack[Len(stack)] /\ Len(stack) \in Nat \ {0}
         /\ Under \in Seq(FrameRec) /\ Len(Under) = Len(stack) - 1
         /\ \A i \in 1..Len(stack) - 1 : Under[i] = stack[i]
  BY UnderFacts DEF Top, Under

LEMMA PopFacts ==
  ASSUME stack \in Seq(FrameRec), stack # <<>>, stack' = Under
  PROVE  stack' \in Seq(FrameRec) /\ Len(stack') = Len(stack) - 1 /\ Keeps(Len(stack) - 1)
  BY TopFacts DEF Keeps

LEMMA SwapFacts ==
  ASSUME stack \in Seq(FrameRec), stack # <<>>, NEW fr \in FrameRec, stack' = Append(Under, fr)
  PROVE  /\ stack' \in Seq(FrameRec) /\ Keeps(Len(stack) - 1)
         /\ Len(stack') = Len(stack) /\ stack'[Len(stack)] = fr
<1>1. /\ Under \in Seq(FrameRec) /\ Len(Under) = Len(stack) - 1 /\ Len(stack) \in Nat \ {0}
      /\ \A i \in 1..Len(stack) - 1 : Under[i] = stack[i]
  BY TopFacts
<1>2. /\ stack' \in Seq(FrameRec) /\ Len(stack') = Len(Under) + 1 /\ stack'[Len(Under) + 1] = fr
      /\ \A i \in 1..Len(Under) : stack'[i] = Under[i]
  BY <1>1, AppendProperties
<1> QED BY <1>1, <1>2 DEF Keeps

LEMMA FrameType ==
  ASSUME NEW fn \in {"user", "io", "eof", "flush", "cancel"}, NEW s \in Stream
  PROVE  /\ Frame(fn, s) \in FrameRec /\ Frame(fn, s).fn = fn /\ Frame(fn, s).stream = s
  BY DEF Frame, FrameRec, Events

-----------------------------------------------------------------------------
(* How a step changes the streams and their descriptors. *)

LEMMA FreshType == Fresh \in StreamRec /\ NoConn \in ConnRec /\ NoReg \in RegRec
  BY BoundAssumption DEF Fresh, NoConn, NoReg, StreamRec, ConnRec, RegRec, Masks, Status

(* What no step but on_close takes from a stream. *)
Kept ==
  \A s \in Stream :
    /\ Opened(s) => Opened(s)'
    /\ stream[s].handler = "client" => stream'[s].handler = "client"

SameOwners == conn' \in [Fd -> ConnRec] /\ \A f \in Fd : conn'[f].owner = conn[f].owner

StaysLive == \A s \in Stream : Live(s) => Live(s)'

SameLife ==
  \A s \in Stream :
    /\ Opened(s)' = Opened(s) /\ Live(s)' = Live(s)
    /\ stream[s].status = "CLOSED" <=> stream'[s].status = "CLOSED"

LEMMA StreamsSame ==
  ASSUME Streams, stream' = stream, reg' = reg, SameOwners
  PROVE  Streams' /\ Kept /\ SameLife /\ StaysLive
<1>1. \A s \in Stream : Opened(s)' = Opened(s) /\ Live(s)' = Live(s) BY DEF Opened, Live
<1>2. Kept /\ SameLife /\ StaysLive BY <1>1 DEF Kept, SameLife, StaysLive
<1>3. ASSUME NEW s \in Stream PROVE Attached(s)'
  BY <1>1 DEF Attached, Streams, SameOwners, StreamRec, Live, Opened
<1>4. ASSUME NEW f \in Fd PROVE Watched(f)'
  BY DEF Watched, Streams, SameOwners, Open, Live, Opened
<1> QED BY <1>2, <1>3, <1>4 DEF Streams, SameOwners

(* What Streams says of a live stream, and of an open descriptor. *)
LEMMA LiveFacts ==
  ASSUME Streams, NEW s \in Stream, Live(s)
  PROVE  /\ stream[s].fd \in Fd /\ Open(stream[s].fd) /\ conn[stream[s].fd].owner = s
         /\ reg[stream[s].fd] = [stream |-> s, mask |-> stream[s].flags]
         /\ reg[stream[s].fd] # NoReg
<1>1. stream[s].fd \in Fd BY DEF Streams, Live, Opened, StreamRec
<1>2. conn[stream[s].fd].owner = s /\ Open(stream[s].fd)
  BY <1>1, StreamAssumption DEF Streams, Attached, Open
<1>3. reg[stream[s].fd] = [stream |-> s, mask |-> stream[s].flags]
  BY <1>1, <1>2 DEF Streams, Watched
<1> QED BY <1>1, <1>2, <1>3, StreamAssumption DEF NoReg

LEMMA OpenFacts ==
  ASSUME Streams, NEW f \in Fd, Open(f)
  PROVE  /\ conn[f].owner \in Stream /\ Live(conn[f].owner) /\ stream[conn[f].owner].fd = f
         /\ reg[f] = [stream |-> conn[f].owner, mask |-> stream[conn[f].owner].flags]
  BY DEF Streams, Watched, Open, ConnRec

(* The code changes fields of a live stream, and tells epoll. *)
LEMMA StreamsUpdate ==
  ASSUME Streams, SameOwners, NEW s \in Stream, Live(s),
         NEW r \in StreamRec, r.fd = stream[s].fd, r.status # "CLOSED",
         r.handler = "client" => r.status # "NONE",
         r.handler = "connect" => r.status = "NONE",
         r.handler # "none", stream[s].handler = "client" => r.handler = "client",
         stream' = [stream EXCEPT ![s] = r],
         \/ reg' = EventSet(s, r)
         \/ reg' = reg /\ r.flags = stream[s].flags
  PROVE  Streams' /\ Kept /\ SameLife /\ StaysLive
<1> DEFINE f == stream[s].fd
<1>1. /\ f \in Fd /\ Open(f) /\ conn[f].owner = s
      /\ reg[f] = [stream |-> s, mask |-> stream[s].flags] /\ reg[f] # NoReg
  BY LiveFacts
<1>2. reg' = [reg EXCEPT ![f] = [stream |-> s, mask |-> r.flags]]
  BY <1>1 DEF EventSet, Streams
<1>3. stream' \in [Stream -> StreamRec] /\ reg' \in [Fd -> RegRec]
  BY <1>1, <1>2 DEF Streams, RegRec, StreamRec
<1>4. /\ stream'[s] = r /\ \A t \in Stream \ {s} : stream'[t] = stream[t]
      /\ reg'[f] = [stream |-> s, mask |-> r.flags] /\ \A g \in Fd \ {f} : reg'[g] = reg[g]
  BY <1>1, <1>2 DEF Streams
<1>5. \A t \in Stream : Opened(t)' = Opened(t) /\ Live(t)' = Live(t)
  BY <1>4 DEF Opened, Live
<1>6. \A g \in Fd : Open(g)' = Open(g) /\ conn'[g].owner = conn[g].owner BY DEF Open, SameOwners
<1>7. Kept /\ SameLife /\ StaysLive BY <1>4, <1>5 DEF Kept, SameLife, StaysLive, Live
<1> HIDE DEF f
<1>8. ASSUME NEW t \in Stream PROVE Attached(t)'
  <2>1. CASE t = s
    <3>1. Opened(s)' /\ stream'[s].fd = f BY <1>4, <1>5 DEF Live, f
    <3>2. conn'[f].owner = s BY <1>1, <1>6
    <3> QED BY <2>1, <3>1, <3>2, <1>4 DEF Attached
  <2>2. CASE t # s
    <3>1. Attached(t) /\ stream'[t] = stream[t] BY <2>2, <1>4 DEF Streams
    <3>2. Live(t) => stream[t].fd \in Fd BY LiveFacts
    <3> QED BY <3>1, <3>2, <1>5, <1>6 DEF Attached
  <2> QED BY <2>1, <2>2
<1>9. ASSUME NEW g \in Fd PROVE Watched(g)'
  <2>1. CASE g = f BY <2>1, <1>1, <1>4, <1>5, <1>6 DEF Watched, f
  <2>2. CASE g # f /\ Open(g)
    <3>1. /\ conn[g].owner \in Stream /\ Live(conn[g].owner) /\ stream[conn[g].owner].fd = g
          /\ reg[g] = [stream |-> conn[g].owner, mask |-> stream[conn[g].owner].flags]
      BY <2>2, OpenFacts
    <3>2. conn[g].owner # s BY <2>2, <3>1 DEF f
    <3> QED BY <2>2, <3>1, <3>2, <1>4, <1>5, <1>6 DEF Watched
  <2>3. CASE g # f /\ ~Open(g) BY <2>3, <1>4, <1>6 DEF Streams, Watched
  <2> QED BY <2>1, <2>2, <2>3
<1> QED BY <1>3, <1>7, <1>8, <1>9 DEF Streams, SameOwners

LEMMA StreamsRegister ==
  ASSUME Streams, NEW s \in Stream, stream[s] = Fresh, NEW f \in FreeFd,
         NEW r \in StreamRec, NEW up \in BOOLEAN, Register(s, f, r, up),
         r.fd = f, r.status # "CLOSED", r.handler # "none",
         r.handler = "client" => r.status # "NONE",
         r.handler = "connect" => r.status = "NONE"
  PROVE  Streams' /\ Kept /\ StaysLive /\ stream' = [stream EXCEPT ![s] = r]
<1>1. f \in Fd /\ ~Open(f) BY DEF FreeFd
<1> DEFINE c == [NoConn EXCEPT !.owner = s, !.up = up]
<1>2. /\ stream' = [stream EXCEPT ![s] = r] /\ reg' = [reg EXCEPT ![f] = [stream |-> s, mask |-> r.flags]]
      /\ conn' = [conn EXCEPT ![f] = c]
  BY DEF Register
<1>3. c \in ConnRec /\ c.owner = s
  <2>1. NoConn \in ConnRec BY FreshType
  <2> QED BY <2>1 DEF ConnRec, NoConn
<1> HIDE DEF c
<1>4. /\ stream' \in [Stream -> StreamRec] /\ reg' \in [Fd -> RegRec] /\ conn' \in [Fd -> ConnRec]
  BY <1>1, <1>2, <1>3 DEF Streams, RegRec, StreamRec
<1>5. /\ stream'[s] = r /\ \A t \in Stream \ {s} : stream'[t] = stream[t]
      /\ conn'[f].owner = s /\ \A g \in Fd \ {f} : conn'[g] = conn[g] /\ reg'[g] = reg[g]
      /\ reg'[f] = [stream |-> s, mask |-> r.flags]
  BY <1>1, <1>2, <1>3 DEF Streams
<1>6. ~Opened(s) /\ stream[s].handler = "none" BY DEF Opened, Fresh
<1>7. /\ Opened(s)' /\ Live(s)'
      /\ \A t \in Stream \ {s} : Opened(t)' = Opened(t) /\ Live(t)' = Live(t)
      /\ Open(f)' /\ \A g \in Fd \ {f} : Open(g)' = Open(g)
  BY <1>1, <1>5, FdAssumption, StreamAssumption DEF Opened, Live, Open
<1>8. Kept /\ StaysLive BY <1>5, <1>6, <1>7 DEF Kept, StaysLive, Live
<1>9. ASSUME NEW t \in Stream PROVE Attached(t)'
  <2>1. CASE t = s BY <2>1, <1>5, <1>7 DEF Attached
  <2>2. CASE t # s
    <3>1. Attached(t) /\ stream'[t] = stream[t] BY <2>2, <1>5 DEF Streams
    <3>2. Live(t) => stream[t].fd \in Fd \ {f} BY <1>1, LiveFacts
    <3> QED BY <2>2, <3>1, <3>2, <1>5, <1>7 DEF Attached
  <2> QED BY <2>1, <2>2
<1>10. ASSUME NEW g \in Fd PROVE Watched(g)'
  <2>1. CASE g = f BY <2>1, <1>5, <1>7 DEF Watched
  <2>2. CASE g # f /\ Open(g)
    <3>1. /\ conn[g].owner \in Stream /\ Live(conn[g].owner) /\ stream[conn[g].owner].fd = g
          /\ reg[g] = [stream |-> conn[g].owner, mask |-> stream[conn[g].owner].flags]
      BY <2>2, OpenFacts
    <3>2. conn[g].owner # s BY <3>1, <1>6 DEF Live
    <3> QED BY <2>2, <3>1, <3>2, <1>5, <1>7 DEF Watched
  <2>3. CASE g # f /\ ~Open(g) BY <2>3, <1>5, <1>7 DEF Streams, Watched
  <2> QED BY <2>1, <2>2, <2>3
<1> QED BY <1>2, <1>4, <1>8, <1>9, <1>10 DEF Streams

(* pd_tcp_close of a live stream. *)
LEMMA StreamsClose ==
  ASSUME Streams, NEW s \in Stream, Live(s), NEW rest, CloseOver(s, rest)
  PROVE  /\ Streams' /\ Kept /\ (\A t \in Stream : Opened(t)' = Opened(t))
         /\ stream'[s] = [stream[s] EXCEPT !.status = "CLOSED"]
         /\ \A t \in Stream \ {s} : stream'[t] = stream[t]
<1> PICK f \in Fd : f = stream[s].fd BY LiveFacts
<1> DEFINE r == [stream[s] EXCEPT !.status = "CLOSED"]
<1>1. conn[f].owner = s /\ r \in StreamRec
  <2>1. stream[s] \in StreamRec BY DEF Streams
  <2>2. r \in StreamRec BY <2>1 DEF StreamRec, Status
  <2> QED BY <2>2, LiveFacts
<1>2. /\ stream' = [stream EXCEPT ![s] = r]
      /\ reg' = [g \in Fd |-> IF g = f THEN NoReg ELSE reg[g]]
      /\ conn' = [g \in Fd |-> IF g = f THEN NoConn ELSE conn[g]]
  BY DEF CloseOver, Live
<1>3. stream' \in [Stream -> StreamRec] /\ reg' \in [Fd -> RegRec] /\ conn' \in [Fd -> ConnRec]
  BY <1>1, <1>2, FreshType DEF Streams
<1>4. /\ stream'[s] = r /\ \A t \in Stream \ {s} : stream'[t] = stream[t]
      /\ r.fd = f /\ r.handler = stream[s].handler /\ r.status = "CLOSED"
      /\ reg'[f] = NoReg /\ conn'[f].owner = None
      /\ \A g \in Fd \ {f} : reg'[g] = reg[g] /\ conn'[g] = conn[g]
  BY <1>1, <1>2 DEF Streams, StreamRec, NoConn
<1>5. /\ Opened(s)' /\ \A t \in Stream \ {s} : Opened(t)' = Opened(t)
      /\ ~Live(s)' /\ \A t \in Stream \ {s} : Live(t)' = Live(t)
      /\ ~Open(f)' /\ \A g \in Fd \ {f} : Open(g)' = Open(g)
  BY <1>1, <1>4, FdAssumption DEF Opened, Live, Open
<1>6. Kept BY <1>4, <1>5 DEF Kept
<1> HIDE DEF r
<1>7. ASSUME NEW t \in Stream PROVE Attached(t)'
  <2>1. CASE t = s
    <3>1. stream[s].handler # "none" BY DEF Streams, Attached, Live
    <3> QED BY <2>1, <3>1, <1>4, <1>5 DEF Attached
  <2>2. CASE t # s
    <3>1. Attached(t) /\ stream'[t] = stream[t] BY <2>2, <1>4 DEF Streams
    <3>2. Live(t) => stream[t].fd \in Fd \ {f} BY <1>1, <2>2, LiveFacts
    <3> QED BY <2>2, <3>1, <3>2, <1>4, <1>5 DEF Attached
  <2> QED BY <2>1, <2>2
<1>8. ASSUME NEW g \in Fd PROVE Watched(g)'
  <2>1. CASE g = f BY <2>1, <1>4, <1>5 DEF Watched
  <2>2. CASE g # f /\ Open(g)
    <3>1. /\ conn[g].owner \in Stream /\ Live(conn[g].owner) /\ stream[conn[g].owner].fd = g
          /\ reg[g] = [stream |-> conn[g].owner, mask |-> stream[conn[g].owner].flags]
      BY <2>2, OpenFacts
    <3>2. conn[g].owner # s BY <2>2, <3>1
    <3> QED BY <2>2, <3>1, <3>2, <1>4, <1>5 DEF Watched
  <2>3. CASE g # f /\ ~Open(g) BY <2>3, <1>4, <1>5 DEF Streams, Watched
  <2> QED BY <2>1, <2>2, <2>3
<1>9. \A t \in Stream : Opened(t)' = Opened(t) BY <1>5 DEF Live, Opened
<1> QED BY <1>3, <1>4, <1>6, <1>7, <1>8, <1>9 DEF Streams, r

(* A step that changes a queue of writes only. *)
LEMMA StreamsQueue ==
  ASSUME Streams, SameOwners, reg' = reg, NEW s \in Stream, Opened(s), NEW w \in Seq(Op),
         stream' = [stream EXCEPT ![s].writes = w]
  PROVE  Streams' /\ Kept /\ SameLife /\ StaysLive
<1>1. stream[s] \in StreamRec BY DEF Streams
<1> DEFINE r == [stream[s] EXCEPT !.writes = w]
<1>2. /\ r \in StreamRec /\ r.status = stream[s].status /\ r.handler = stream[s].handler
      /\ r.fd = stream[s].fd /\ r.flags = stream[s].flags
  BY <1>1 DEF StreamRec
<1>3. stream' = [stream EXCEPT ![s] = r] BY DEF Streams
<1> HIDE DEF r
<1>4. stream' \in [Stream -> StreamRec] BY <1>2, <1>3 DEF Streams
<1>5. stream'[s] = r /\ \A t \in Stream \ {s} : stream'[t] = stream[t] BY <1>3 DEF Streams
<1>6. \A t \in Stream :
        /\ stream'[t].status = stream[t].status /\ stream'[t].handler = stream[t].handler
        /\ stream'[t].fd = stream[t].fd /\ stream'[t].flags = stream[t].flags
        /\ Opened(t)' = Opened(t) /\ Live(t)' = Live(t)
  BY <1>2, <1>5 DEF Opened, Live
<1>7. Kept /\ SameLife /\ StaysLive BY <1>6 DEF Kept, SameLife, StaysLive
<1>8. ASSUME NEW t \in Stream PROVE Attached(t)'
  <2>1. Attached(t) BY DEF Streams
  <2>2. Live(t) => stream[t].fd \in Fd BY LiveFacts
  <2>3. t # s => stream'[t] = stream[t] BY <1>5
  <2> QED BY <2>1, <2>2, <2>3, <1>6 DEF Attached, SameOwners
<1>9. ASSUME NEW g \in Fd PROVE Watched(g)'
  <2>1. Open(g)' = Open(g) /\ conn'[g].owner = conn[g].owner BY DEF SameOwners, Open
  <2>2. Open(g) => conn[g].owner \in Stream BY OpenFacts
  <2> QED BY <2>1, <2>2, <1>6 DEF Streams, Watched
<1> QED BY <1>4, <1>7, <1>8, <1>9 DEF Streams, SameOwners

(* on_close: nothing is left of a closed stream. *)
LEMMA StreamsFree ==
  ASSUME Streams, UNCHANGED sysVars, NEW s \in Stream, ~Live(s),
         stream' = [stream EXCEPT ![s] = Fresh]
  PROVE  /\ Streams' /\ stream'[s] = Fresh
         /\ \A t \in Stream \ {s} : stream'[t] = stream[t]
<1>1. stream' \in [Stream -> StreamRec] BY FreshType DEF Streams
<1>2. /\ stream'[s] = Fresh /\ \A t \in Stream \ {s} : stream'[t] = stream[t]
      /\ conn' = conn /\ reg' = reg
  BY DEF Streams, sysVars
<1>3. /\ ~Opened(s)' /\ ~Live(s)'
      /\ \A t \in Stream \ {s} : Opened(t)' = Opened(t) /\ Live(t)' = Live(t)
  BY <1>2 DEF Opened, Live, Fresh
<1>4. ASSUME NEW t \in Stream PROVE Attached(t)'
  <2>1. CASE t = s BY <2>1, <1>2, <1>3 DEF Attached, Fresh
  <2>2. CASE t # s BY <2>2, <1>2, <1>3 DEF Streams, Attached
  <2> QED BY <2>1, <2>2
<1>5. ASSUME NEW g \in Fd PROVE Watched(g)'
  <2>1. Open(g)' = Open(g) BY <1>2 DEF Open
  <2>2. Open(g) => conn[g].owner \in Stream \ {s} BY OpenFacts
  <2> QED BY <2>1, <2>2, <1>2, <1>3 DEF Streams, Watched
<1> QED BY <1>1, <1>2, <1>4, <1>5 DEF Streams

-----------------------------------------------------------------------------
(* How a step changes the calls. *)

Lives(k) == \A i \in 1..k : stack[i].fn = "flush" => Live(stack[i].stream)

LEMMA CallsStep ==
  ASSUME Calls, Kept, batch' \subseteq batch, pc' = pc, stack' \in Seq(FrameRec),
         NEW k, Keeps(k), Lives(k)', \A i \in k + 1..Len(stack') : Good(i)',
         stack' # <<>> => pc \in ProgramPc \cup {"dispatch"}
  PROVE  Calls'
<1>1. Len(stack) \in Nat /\ Len(stack') \in Nat /\ k \in Nat /\ k <= Len(stack)
  BY DEF Calls, Keeps
<1>2. ASSUME NEW i \in 1..k PROVE Good(i)'
  <2>1. i \in 1..Len(stack) /\ stack'[i] = stack[i] BY <1>1 DEF Keeps
  <2>2. Good(i) /\ stack[i] \in FrameRec BY <2>1 DEF Calls
  <2>3. i = 2 => 1 \in 1..k BY <1>1
  <2>4. i = 2 => stack'[1] = stack[1] BY <2>3 DEF Keeps
  <2>5. stack[i].stream \in Stream BY <2>2 DEF FrameRec
  <2>6. Opened(stack[i].stream)' BY <2>1, <2>2, <2>5 DEF Good, Kept, Opened
  <2>7. stack[i].fn = "flush" => Live(stack[i].stream)' BY <2>1 DEF Lives
  <2> QED BY <2>1, <2>2, <2>4, <2>5, <2>6, <2>7 DEF Good, Kept
<1>3. \A i \in 1..Len(stack') : Good(i)'
  <2> TAKE i \in 1..Len(stack')
  <2>1. i \in 1..k \/ i \in k + 1..Len(stack') BY <1>1
  <2> QED BY <2>1, <1>2
<1>4. \A e \in batch' : Opened(e.stream)'
  <2> TAKE e \in batch'
  <2>1. e.stream \in Stream /\ Opened(e.stream) BY DEF Calls, EventRec
  <2> QED BY <2>1 DEF Kept, Opened
<1> QED BY <1>3, <1>4 DEF Calls, ProgramPc

LEMMA LivesKept ==
  ASSUME Calls, StaysLive, NEW k, Keeps(k)
  PROVE  Lives(k)'
<1> SUFFICES ASSUME NEW i \in 1..k, stack'[i].fn = "flush" PROVE Live(stack[i].stream)'
  BY DEF Lives
<1>1. i \in 1..Len(stack) /\ stack'[i] = stack[i] BY DEF Keeps, Calls
<1>2. Good(i) /\ stack[i] \in FrameRec BY <1>1 DEF Calls
<1>3. stack[i].stream \in Stream BY <1>2 DEF FrameRec
<1>4. Live(stack[i].stream) BY <1>1, <1>2 DEF Good
<1> QED BY <1>1, <1>3, <1>4 DEF StaysLive, Live, Opened

LEMMA CallsSame ==
  ASSUME Calls, Kept, StaysLive, stack' = stack, pc' = pc, batch' \subseteq batch
  PROVE  Calls'
<1>1. Len(stack) \in Nat /\ Keeps(Len(stack)) BY DEF Keeps, Calls
<1>2. Lives(Len(stack))' BY <1>1, LivesKept
<1>3. \A i \in Len(stack) + 1..Len(stack') : Good(i)' BY <1>1
<1> QED BY <1>1, <1>2, <1>3, CallsStep DEF Calls

(* The calls below stay; the new call is a callback of the program, or a
   pd_tcp_close that starts to cancel. *)
LEMMA CallsTop ==
  ASSUME Calls, Kept, batch' \subseteq batch, pc' = pc, pc \in ProgramPc \cup {"dispatch"},
         NEW s \in Stream, Opened(s)', NEW fn \in {"user", "cancel"}, stack' \in Seq(FrameRec),
         NEW k, Keeps(k), Lives(k)', Len(stack') = k + 1, stack'[k + 1] = Frame(fn, s)
  PROVE  Calls'
<1>1. k \in Nat BY DEF Keeps, Calls
<1>2. \A i \in k + 1..Len(stack') : i = k + 1 BY <1>1
<1>3. stack'[k + 1].fn = fn /\ stack'[k + 1].stream = s BY FrameType
<1>4. \A i \in k + 1..Len(stack') : Good(i)' BY <1>2, <1>3 DEF Good, Opened
<1> QED BY <1>4, CallsStep

LEMMA CallsPop ==
  ASSUME Calls, Kept, StaysLive, stack # <<>>, stack' = Under, pc' = pc, batch' = batch
  PROVE  Calls'
<1>1. Len(stack) - 1 \in Nat BY TopFacts DEF Calls
<1>2. PICK k \in Nat : k = Len(stack) - 1 BY <1>1
<1>3. Keeps(k) /\ Len(stack') = k /\ stack' \in Seq(FrameRec) BY <1>2, PopFacts DEF Calls
<1>4. Lives(k)' BY <1>3, LivesKept
<1>5. \A i \in k + 1..Len(stack') : Good(i)' BY <1>2, <1>3
<1> QED BY <1>3, <1>4, <1>5, CallsStep DEF Calls

LEMMA CallsPush ==
  ASSUME Calls, Kept, StaysLive, NEW fn \in {"user", "cancel"}, NEW s \in Stream, Opened(s)',
         stack' = Append(stack, Frame(fn, s)), pc' = pc, batch' \subseteq batch,
         pc \in ProgramPc \cup {"dispatch"}
  PROVE  Calls'
<1>1. Frame(fn, s) \in FrameRec BY FrameType
<1>2. PICK k \in Nat : k = Len(stack) BY DEF Calls
<1>3. Keeps(k) /\ Len(stack') = k + 1 /\ stack'[k + 1] = Frame(fn, s) /\ stack' \in Seq(FrameRec)
  BY <1>1, <1>2, PushFacts DEF Calls
<1>4. Lives(k)' BY <1>3, LivesKept
<1> QED BY <1>3, <1>4, CallsTop

LEMMA CallsSwap ==
  ASSUME Calls, Kept, StaysLive, NEW s \in Stream, Opened(s)', stack # <<>>,
         stack' = Append(Under, Frame("user", s)), pc' = pc, batch' = batch
  PROVE  Calls'
<1>1. Frame("user", s) \in FrameRec BY FrameType
<1>2. Len(stack) - 1 \in Nat BY TopFacts DEF Calls
<1>3. PICK k \in Nat : k = Len(stack) - 1 BY <1>2
<1>4. /\ Keeps(k) /\ Len(stack') = k + 1 /\ stack'[k + 1] = Frame("user", s)
      /\ stack' \in Seq(FrameRec)
  BY <1>1, <1>3, SwapFacts DEF Calls
<1>5. Lives(k)' BY <1>4, LivesKept
<1>6. pc \in ProgramPc \cup {"dispatch"} BY DEF Calls
<1> QED BY <1>4, <1>5, <1>6, CallsTop

LEMMA ProgramFacts ==
  ASSUME Calls, InProgram
  PROVE  pc \in ProgramPc \cup {"dispatch"}
  BY DEF Calls, InProgram

(* The stream of the call on top. *)
LEMMA TopGood ==
  ASSUME Calls, stack # <<>>
  PROVE  /\ Top.stream \in Stream /\ Opened(Top.stream)
         /\ pc \in ProgramPc \cup {"dispatch"} /\ Good(Len(stack))
<1>1. Top \in FrameRec /\ Top = stack[Len(stack)] /\ Len(stack) \in 1..Len(stack)
  BY TopFacts DEF Calls
<1> QED BY <1>1 DEF Calls, Good, FrameRec

-----------------------------------------------------------------------------
(* Streams and calls, one action after another. *)

LEMMA NetworkStep ==
  ASSUME Streams, Calls, Network
  PROVE  Streams' /\ Calls' /\ Kept /\ SameLife
<1>1. PICK f \in Fd : Established(f) \/ PeerSend(f) \/ PeerFin(f) \/ Reset(f) BY DEF Network
<1>2. conn[f] \in ConnRec BY DEF Streams
<1>3. SameOwners
  <2>1. conn' = [conn EXCEPT ![f] = conn'[f]] /\ conn'[f] \in ConnRec /\ conn'[f].owner = conn[f].owner
    <3>1. CASE Established(f) BY <1>2, <3>1 DEF Established, ConnRec, Streams
    <3>2. CASE PeerSend(f) BY <1>2, <3>2, BoundAssumption DEF PeerSend, ConnRec, Streams
    <3>3. CASE PeerFin(f) BY <1>2, <3>3 DEF PeerFin, ConnRec, Streams
    <3>4. CASE Reset(f) BY <1>2, <3>4 DEF Reset, ConnRec, Streams
    <3> QED BY <1>1, <3>1, <3>2, <3>3, <3>4
  <2> QED BY <2>1 DEF SameOwners, Streams
<1>4. Streams' /\ Kept /\ SameLife /\ StaysLive BY <1>3, StreamsSame DEF Network
<1> QED BY <1>4, CallsSame DEF Network, loopVars

LEMMA ConnectStep ==
  ASSUME Streams, Calls, NEW s \in Stream, Connect(s)
  PROVE  Streams' /\ Calls'
<1>1. PICK f \in FreeFd :
        Register(s, f, [stream[s] EXCEPT !.fd = f, !.handler = "connect", !.flags = {"IN", "OUT"}],
                 FALSE)
  BY DEF Connect
<1> DEFINE r == [stream[s] EXCEPT !.fd = f, !.handler = "connect", !.flags = {"IN", "OUT"}]
<1>2. f \in Fd /\ stream[s] = Fresh BY DEF FreeFd, Connect
<1>3. /\ r \in StreamRec /\ r.fd = f /\ r.status = "NONE" /\ r.handler = "connect"
  <2>1. r = [Fresh EXCEPT !.fd = f, !.handler = "connect", !.flags = {"IN", "OUT"}] BY <1>2
  <2> QED BY <2>1, <1>2, FreshType DEF StreamRec, Fresh, Masks
<1> HIDE DEF r
<1>4. Streams' /\ Kept /\ StaysLive BY <1>1, <1>2, <1>3, StreamsRegister DEF r
<1> QED BY <1>4, CallsSame DEF Connect, loopVars

LEMMA AcceptStep ==
  ASSUME Streams, Calls, NEW s \in Stream, stream[s] = Fresh, AcceptOver(s), UNCHANGED loopVars
  PROVE  Streams' /\ Calls'
<1>1. PICK f \in FreeFd :
        Register(s, f, [Fresh EXCEPT !.fd = f, !.handler = "client", !.flags = {"IN"},
                                     !.status = "ACTIVE"], TRUE)
  BY DEF AcceptOver, LowestFree
<1> DEFINE r == [Fresh EXCEPT !.fd = f, !.handler = "client", !.flags = {"IN"}, !.status = "ACTIVE"]
<1>2. f \in Fd BY DEF FreeFd
<1>3. /\ r \in StreamRec /\ r.fd = f /\ r.status = "ACTIVE" /\ r.handler = "client"
  BY <1>2, FreshType DEF StreamRec, Fresh, Masks, Status
<1> HIDE DEF r
<1>4. Streams' /\ Kept /\ StaysLive BY <1>1, <1>2, <1>3, StreamsRegister DEF r
<1> QED BY <1>4, CallsSame DEF loopVars

LEMMA SetFlagsStep ==
  ASSUME Careful, Streams, Calls, NEW s \in Stream, NEW flags \in Masks, SetFlags(s, flags)
  PROVE  Streams' /\ Calls' /\ SameLife
<1> DEFINE r == [stream[s] EXCEPT !.flags = flags]
<1>1. stream[s] \in StreamRec /\ Attached(s) BY DEF Streams
<1>2. Live(s) BY DEF SetFlags, Live, Opened, Careful, Allowed
<1>3. /\ r \in StreamRec /\ r.fd = stream[s].fd /\ r.status = stream[s].status
      /\ r.handler = stream[s].handler
  BY <1>1 DEF StreamRec
<1>4. stream' = [stream EXCEPT ![s] = r] /\ reg' = EventSet(s, r) /\ SameOwners
  BY DEF SetFlags, SameOwners, Streams
<1> HIDE DEF r
<1>5. Streams' /\ Kept /\ SameLife /\ StaysLive
  BY <1>1, <1>2, <1>3, <1>4, StreamsUpdate DEF Attached, Live
<1> QED BY <1>5, CallsSame DEF SetFlags, loopVars

LEMMA ShutdownStep ==
  ASSUME Streams, Calls, NEW s \in Stream, Shutdown(s)
  PROVE  Streams' /\ Calls' /\ SameLife
<1> DEFINE r == [stream[s] EXCEPT !.status = "SHUTDOWN"]
           w == [r EXCEPT !.flags = @ \cup {"OUT"}]
<1>1. stream[s] \in StreamRec /\ Attached(s) BY DEF Streams
<1>2. Live(s)
  <2>1. stream[s].status = "ACTIVE" BY DEF Shutdown
  <2> QED BY <1>1, <2>1 DEF Attached, Live, Fresh
<1>3. /\ r \in StreamRec /\ r.fd = stream[s].fd /\ r.status = "SHUTDOWN"
      /\ r.handler = stream[s].handler /\ r.flags = stream[s].flags
  BY <1>1 DEF StreamRec, Status
<1>4. /\ w \in StreamRec /\ w.fd = stream[s].fd /\ w.status = "SHUTDOWN"
      /\ w.handler = stream[s].handler
  BY <1>3 DEF StreamRec, Masks
<1>5. stream[s].handler = "client"
  BY <1>1, <1>2 DEF Attached, Live, Shutdown, StreamRec
<1>6. stream[s].fd \in Fd BY <1>2, LiveFacts
<1>7. SameOwners /\ UNCHANGED loopVars
  <2>1. conn[stream[s].fd] \in ConnRec BY <1>6 DEF Streams
  <2>2. conn' = conn \/ conn' = [conn EXCEPT ![stream[s].fd].shut = TRUE]
    BY <1>3 DEF Shutdown
  <2>3. [conn[stream[s].fd] EXCEPT !.shut = TRUE] \in ConnRec BY <2>1 DEF ConnRec
  <2>4. SameOwners BY <2>1, <2>2, <2>3, <1>6 DEF SameOwners, Streams, ConnRec
  <2> QED BY <2>4 DEF Shutdown
<1>8. \/ stream' = [stream EXCEPT ![s] = r] /\ reg' = reg
      \/ stream' = [stream EXCEPT ![s] = w] /\ reg' = EventSet(s, w)
  BY DEF Shutdown
<1> HIDE DEF r, w
<1>9. Streams' /\ Kept /\ SameLife /\ StaysLive
  BY <1>1, <1>2, <1>3, <1>4, <1>5, <1>7, <1>8, StreamsUpdate
<1> QED BY <1>7, <1>9, CallsSame DEF loopVars

(* pd_tcp_write_async, of any live stream. *)
LEMMA WriteAsyncStep ==
  ASSUME Streams, NEW s \in Stream, stream[s].status = "ACTIVE", NEW o \in Op,
         WriteAsync(s, o), UNCHANGED conn
  PROVE  /\ Streams' /\ Kept /\ SameLife /\ StaysLive
         /\ stream' = [stream EXCEPT ![s] = stream'[s]]
         /\ stream'[s] = [stream[s] EXCEPT !.writes = Append(@, o), !.flags = @ \cup {"OUT"}]
<1> DEFINE r == [stream[s] EXCEPT !.writes = Append(@, o), !.flags = @ \cup {"OUT"}]
<1>1. stream[s] \in StreamRec /\ Attached(s) BY DEF Streams
<1>2. Live(s) /\ stream[s].handler = "client"
  BY <1>1 DEF Attached, Live, Fresh, StreamRec
<1>3. /\ r \in StreamRec /\ r.fd = stream[s].fd /\ r.status = "ACTIVE"
      /\ r.handler = "client" /\ ("OUT" \in stream[s].flags => r.flags = stream[s].flags)
  <2>1. Append(stream[s].writes, o) \in Seq(Op) BY <1>1 DEF StreamRec
  <2> QED BY <1>1, <1>2, <2>1 DEF StreamRec, Masks
<1>4. /\ stream' = [stream EXCEPT ![s] = r] /\ SameOwners
      /\ reg' = EventSet(s, r) \/ (reg' = reg /\ r.flags = stream[s].flags)
  BY <1>3 DEF WriteAsync, SameOwners, Streams
<1>5. stream'[s] = r BY <1>4 DEF Streams
<1> HIDE DEF r
<1>6. Streams' /\ Kept /\ SameLife /\ StaysLive
  BY <1>2, <1>3, <1>4, StreamsUpdate
<1> QED BY <1>4, <1>5, <1>6 DEF r

LEMMA WriteStep ==
  ASSUME Streams, Calls, NEW s \in Stream, NEW o \in Op, Write(s, o)
  PROVE  Streams' /\ Calls' /\ SameLife
<1>1. /\ InProgram /\ UNCHANGED <<conn, pc, batch>> /\ Opened(s)
  BY DEF Write, MayCall, Opened
<1>2. pc \in ProgramPc \cup {"dispatch"} BY <1>1, ProgramFacts
<1>3. CASE WriteAsync(s, o) /\ stream[s].status = "ACTIVE"
  <2>1. Streams' /\ Kept /\ SameLife /\ StaysLive BY <1>1, <1>3, WriteAsyncStep
  <2>2. stack' = stack BY <1>3 DEF WriteAsync
  <2> QED BY <1>1, <2>1, <2>2, CallsSame
<1>4. CASE CallBack(s, o) /\ UNCHANGED <<stream, reg>>
  <2>1. SameOwners BY <1>1 DEF SameOwners, Streams
  <2>2. Streams' /\ Kept /\ SameLife /\ StaysLive BY <1>4, <2>1, StreamsSame
  <2>3. Opened(s)' BY <1>1, <1>4 DEF Opened
  <2>4. stack' = Append(stack, Frame("user", s)) BY <1>4 DEF CallBack, Push
  <2> QED BY <1>1, <1>2, <2>2, <2>3, <2>4, CallsPush
<1>5. \/ WriteAsync(s, o) /\ stream[s].status = "ACTIVE"
      \/ CallBack(s, o) /\ UNCHANGED <<stream, reg>>
  BY DEF Write, WriteRefused, WriteDirect, WriteQueued
<1> QED BY <1>3, <1>4, <1>5

-----------------------------------------------------------------------------
(* Closing, and the handlers. *)

(* No write of s is being flushed below the kept calls. *)
LEMMA CloseStep ==
  ASSUME Streams, Calls, NEW s \in Stream, Live(s), NEW rest, CloseOver(s, rest),
         pc \in ProgramPc \cup {"dispatch"}, rest \in Seq(FrameRec),
         NEW k \in Nat, k <= Len(stack), Len(rest) = k, \A i \in 1..k : rest[i] = stack[i],
         \A i \in 1..k : stack[i].fn = "flush" => stack[i].stream # s
  PROVE  Streams' /\ Calls'
<1>1. /\ Streams' /\ Kept /\ stream'[s] = [stream[s] EXCEPT !.status = "CLOSED"]
      /\ \A t \in Stream : Opened(t)' = Opened(t)
      /\ \A t \in Stream \ {s} : stream'[t] = stream[t]
  BY StreamsClose
<1>2. Opened(s)' BY <1>1 DEF Live, Opened
<1>3. stack' = Append(rest, Frame("cancel", s)) /\ UNCHANGED <<pc, batch>>
  BY DEF CloseOver, Live
<1>4. Frame("cancel", s) \in FrameRec BY FrameType
<1>5. /\ stack' \in Seq(FrameRec) /\ Len(stack') = k + 1 /\ stack'[k + 1] = Frame("cancel", s)
      /\ \A i \in 1..k : stack'[i] = rest[i]
  BY <1>3, <1>4, AppendProperties
<1>6. Keeps(k) BY <1>5 DEF Keeps, Calls
<1>7. Lives(k)'
  <2> SUFFICES ASSUME NEW i \in 1..k, stack'[i].fn = "flush" PROVE Live(stack[i].stream)'
    BY DEF Lives
  <2>1. i \in 1..Len(stack) /\ stack'[i] = stack[i] BY <1>6 DEF Keeps, Calls
  <2>2. Good(i) /\ stack[i] \in FrameRec BY <2>1 DEF Calls
  <2>3. stack[i].stream \in Stream \ {s} BY <2>1, <2>2 DEF FrameRec
  <2>4. Live(stack[i].stream) BY <2>1, <2>2 DEF Good
  <2> QED BY <2>1, <2>3, <2>4, <1>1 DEF Live, Opened
<1> QED BY <1>1, <1>2, <1>3, <1>5, <1>6, <1>7, CallsTop

LEMMA CloseAgain ==
  ASSUME Streams, stream' = stream, UNCHANGED sysVars
  PROVE  Streams' /\ Kept /\ SameLife /\ StaysLive
<1>1. SameOwners /\ reg' = reg BY DEF SameOwners, sysVars, Streams
<1> QED BY <1>1, StreamsSame

LEMMA CloseProgram ==
  ASSUME Careful, Streams, Calls, NEW s \in Stream, Close(s)
  PROVE  Streams' /\ Calls'
<1>1. /\ InProgram /\ CloseOver(s, stack) /\ ~Inside("flush", s) /\ Opened(s)
  BY DEF Close, MayCall, Careful, Allowed, Opened
<1>2. CASE stream[s].status = "CLOSED"
  <2>1. stream' = stream /\ UNCHANGED sysVars /\ stack' = stack /\ UNCHANGED <<pc, batch>>
    BY <1>1, <1>2 DEF CloseOver
  <2>2. Streams' /\ Kept /\ SameLife /\ StaysLive BY <2>1, CloseAgain
  <2> QED BY <2>1, <2>2, CallsSame
<1>3. CASE stream[s].status # "CLOSED"
  <2>1. Live(s) /\ pc \in ProgramPc \cup {"dispatch"} BY <1>1, <1>3, ProgramFacts DEF Live
  <2>2. PICK k \in Nat : k = Len(stack) BY DEF Calls
  <2>3. stack \in Seq(FrameRec) /\ DOMAIN stack = 1..k BY <2>2 DEF Calls
  <2>4. \A i \in 1..k : stack[i].fn = "flush" => stack[i].stream # s BY <1>1, <2>3 DEF Inside
  <2> QED BY <1>1, <2>1, <2>2, <2>3, <2>4, CloseStep
<1> QED BY <1>2, <1>3

(* pd_tcp_close by the handler of an event, which is over then. *)
LEMMA CloseHandler ==
  ASSUME Streams, Calls, stack # <<>>, Top.fn \in {"io", "eof"}, CloseOver(Top.stream, Under)
  PROVE  Streams' /\ Calls'
<1>1. /\ Top.stream \in Stream /\ Opened(Top.stream) /\ pc \in ProgramPc \cup {"dispatch"}
      /\ Good(Len(stack))
  BY TopGood
<1>2. /\ Top = stack[Len(stack)] /\ Under \in Seq(FrameRec) /\ Len(Under) = Len(stack) - 1
      /\ Len(stack) \in Nat \ {0} /\ \A i \in 1..Len(stack) - 1 : Under[i] = stack[i]
  BY TopFacts DEF Calls
<1>3. CASE stream[Top.stream].status = "CLOSED"
  <2>1. stream' = stream /\ UNCHANGED sysVars /\ stack' = Under /\ UNCHANGED <<pc, batch>>
    BY <1>3 DEF CloseOver
  <2>2. Streams' /\ Kept /\ SameLife /\ StaysLive BY <2>1, CloseAgain
  <2> QED BY <2>1, <2>2, CallsPop
<1>4. CASE stream[Top.stream].status # "CLOSED"
  <2>1. Live(Top.stream) BY <1>1, <1>4 DEF Live
  <2>2. PICK k \in Nat : k = Len(stack) - 1 BY <1>2
  <2>3. \A i \in 1..k : stack[i].fn # "flush"
    <3> TAKE i \in 1..k
    <3>1. i \in 1..Len(stack) /\ Good(i) BY <1>2, <2>2 DEF Calls
    <3> QED BY <3>1, <1>1, <1>2, <2>2 DEF Good
  <2> QED BY <1>1, <1>2, <2>1, <2>2, <2>3, CloseStep
<1> QED BY <1>3, <1>4

LEMMA CancelStep ==
  ASSUME Streams, Calls, Cancel
  PROVE  Streams' /\ Calls' /\ SameLife
<1>1. stack # <<>> /\ UNCHANGED <<conn, reg, pc, batch>> BY DEF Cancel, Runs, sysVars
<1>2. PICK s \in Stream : s = Top.stream BY <1>1, TopGood
<1>3. Opened(s) /\ pc \in ProgramPc \cup {"dispatch"} BY <1>1, <1>2, TopGood
<1>4. SameOwners BY <1>1 DEF SameOwners, Streams
<1>5. CASE stream[s].writes # <<>>
  <2>1. /\ stream' = [stream EXCEPT ![s].writes = Tail(stream[s].writes)]
        /\ stack' = Append(stack, Frame("user", s))
    BY <1>2, <1>5 DEF Cancel, CallBack, Push
  <2>2. stream[s].writes \in Seq(Op) BY DEF Streams, StreamRec
  <2>3. Tail(stream[s].writes) \in Seq(Op) BY <2>2, <1>5
  <2>4. Streams' /\ Kept /\ SameLife /\ StaysLive
    BY <1>1, <1>3, <1>4, <2>1, <2>3, StreamsQueue
  <2>5. Opened(s)' BY <1>3, <2>4 DEF Kept
  <2> QED BY <1>1, <1>3, <2>1, <2>4, <2>5, CallsPush
<1>6. CASE stream[s].writes = <<>>
  <2>1. stream' = stream /\ stack' = Under BY <1>2, <1>6 DEF Cancel
  <2>2. Streams' /\ Kept /\ SameLife /\ StaysLive BY <1>1, <1>4, <2>1, StreamsSame
  <2> QED BY <1>1, <2>1, <2>2, CallsPop
<1> QED BY <1>5, <1>6

LEMMA DispatchStep ==
  ASSUME Streams, Calls, Dispatch
  PROVE  Streams' /\ Calls' /\ SameLife
<1>1. /\ pc = "dispatch" /\ stack = <<>> /\ UNCHANGED <<conn, pc>> BY DEF Dispatch
<1>2. PICK e \in batch :
        /\ batch' = batch \ {e}
        /\ IF stream[e.stream].handler = "connect" THEN ConnectIo(e.stream, e.events)
           ELSE stack' = Call(e.stream, e.events) /\ UNCHANGED <<stream, reg>>
  BY DEF Dispatch
<1>3. e \in EventRec /\ Opened(e.stream) BY DEF Calls
<1>4. PICK s \in Stream : s = e.stream BY <1>3 DEF EventRec
<1>5. SameOwners BY <1>1 DEF SameOwners, Streams
<1>6. batch' \subseteq batch /\ Opened(s) BY <1>2, <1>3, <1>4
<1>7. stream[s] \in StreamRec /\ Attached(s) BY DEF Streams
<1>8. CASE UNCHANGED <<stream, reg, stack>>
  <2>1. Streams' /\ Kept /\ SameLife /\ StaysLive BY <1>5, <1>8, StreamsSame
  <2> QED BY <1>1, <1>6, <1>8, <2>1, CallsSame
<1>9. CASE stack' = Push("user", s) /\ UNCHANGED <<stream, reg>>
  <2>1. Streams' /\ Kept /\ SameLife /\ StaysLive BY <1>5, <1>9, StreamsSame
  <2>2. Opened(s)' BY <1>6, <2>1 DEF Kept
  <2> QED BY <1>1, <1>6, <1>9, <2>1, <2>2, CallsPush DEF Push
<1> DEFINE r == [stream[s] EXCEPT !.status = "ACTIVE", !.handler = "client", !.flags = @ \ {"OUT"}]
<1>10. CASE /\ stream[s].handler = "connect" /\ stream[s].status # "CLOSED"
            /\ stack' = Push("user", s) /\ stream' = [stream EXCEPT ![s] = r]
            /\ reg' = EventSet(s, r)
  <2>1. /\ r \in StreamRec /\ r.fd = stream[s].fd /\ r.status = "ACTIVE" /\ r.handler = "client"
    BY <1>7 DEF StreamRec, Masks, Status
  <2>2. Live(s) BY <1>6, <1>10 DEF Live
  <2> HIDE DEF r
  <2>3. Streams' /\ Kept /\ SameLife /\ StaysLive BY <1>5, <1>10, <2>1, <2>2, StreamsUpdate
  <2>4. Opened(s)' BY <1>6, <2>3 DEF Kept
  <2> QED BY <1>1, <1>6, <1>10, <2>3, <2>4, CallsPush DEF Push
<1>11. CASE /\ stream[s].handler # "connect" /\ stack' = Call(s, e.events)
            /\ UNCHANGED <<stream, reg>>
  <2>1. Streams' /\ Kept /\ SameLife /\ StaysLive BY <1>5, <1>11, StreamsSame
  <2>2. stream'[s].handler = "client" /\ Opened(s)'
    BY <1>6, <1>7, <1>11 DEF Attached, StreamRec, Opened
  <2> DEFINE fr == [fn |-> "io", stream |-> s, events |-> e.events]
  <2>3. fr \in FrameRec /\ fr.fn = "io" /\ fr.stream = s BY <1>3 DEF EventRec, FrameRec
  <2>4. stack' = <<fr>> BY <1>11 DEF Call
  <2> HIDE DEF fr
  <2>5. stack' \in Seq(FrameRec) /\ Len(stack') = 1 /\ stack'[1] = fr BY <2>3, <2>4
  <2>6. Keeps(0) /\ Lives(0)' BY <2>5, <1>1 DEF Keeps, Lives
  <2>7. Good(1)' BY <2>2, <2>3, <2>5, <1>1 DEF Good, Opened
  <2>8. \A i \in 0 + 1..Len(stack') : Good(i)'
    <3>1. \A i \in 0 + 1..Len(stack') : i = 1 BY <2>5
    <3> QED BY <3>1, <2>7
  <2> QED BY <1>1, <1>6, <2>1, <2>5, <2>6, <2>8, CallsStep
<1> QED BY <1>2, <1>4, <1>8, <1>9, <1>10, <1>11 DEF ConnectIo

(* A handler of an event is the first call. *)
LEMMA HandlerFirst ==
  ASSUME Calls, stack # <<>>, Top.fn \in {"io", "flush"}
  PROVE  /\ Len(stack) = 1 /\ stack[1] = Top /\ Under = <<>> /\ pc = "dispatch"
         /\ stream[Top.stream].handler = "client"
<1>1. Good(Len(stack)) BY TopGood
<1>2. /\ Top = stack[Len(stack)] /\ Under \in Seq(FrameRec) /\ Len(Under) = Len(stack) - 1
      /\ Len(stack) \in Nat \ {0}
  BY TopFacts DEF Calls
<1>3. Len(stack) = 1 BY <1>1, <1>2 DEF Good
<1>4. Under = <<>> BY <1>2, <1>3, EmptySeq
<1> QED BY <1>1, <1>2, <1>3, <1>4 DEF Good

LEMMA ReadStack ==
  ASSUME Calls, Read
  PROVE  /\ stack' \in Seq(FrameRec) /\ Len(stack') \in {2, 3}
         /\ stack'[1].fn = "io" /\ stack'[1].stream = Top.stream
         /\ stack'[Len(stack')] = Frame("user", Top.stream)
         /\ Len(stack') = 3 => stack'[2] = Frame("eof", Top.stream)
<1>1. stack # <<>> /\ Top.fn = "io" /\ Top \in FrameRec BY TopFacts DEF Read, Runs, Calls
<1>2. Under = <<>> BY <1>1, HandlerFirst
<1>3. PICK s \in Stream : s = Top.stream BY <1>1, TopGood
<1> DEFINE top == [Top EXCEPT !.events = @ \ {"IN"}]
           io == Append(Under, top)
           eof == IF ReadResult(stream[s].fd) = "eof" THEN Append(io, Frame("eof", s)) ELSE io
<1>4. stack' = Append(eof, Frame("user", s)) BY <1>3 DEF Read
<1>5. top \in FrameRec /\ top.fn = "io" /\ top.stream = s
  BY <1>1, <1>3 DEF FrameRec, Events
<1>6. Frame("user", s) \in FrameRec /\ Frame("eof", s) \in FrameRec BY FrameType
<1> HIDE DEF top
<1>7. io \in Seq(FrameRec) /\ Len(io) = 1 /\ io[1] = top BY <1>2, <1>5
<1> HIDE DEF io
<1>8. /\ eof \in Seq(FrameRec) /\ Len(eof) \in {1, 2} /\ eof[1] = top
      /\ Len(eof) = 2 => eof[2] = Frame("eof", s)
  <2> eof = io \/ eof = Append(io, Frame("eof", s)) OBVIOUS
  <2> HIDE DEF eof
  <2>1. CASE eof = io BY <2>1, <1>7
  <2>2. CASE eof = Append(io, Frame("eof", s))
    <3>1. /\ eof \in Seq(FrameRec) /\ Len(eof) = Len(io) + 1 /\ eof[Len(io) + 1] = Frame("eof", s)
          /\ \A i \in 1..Len(io) : eof[i] = io[i]
      <4>1. io \in Seq(FrameRec) BY <1>7
      <4> QED BY <2>2, <4>1, <1>6, AppendProperties
    <3> QED BY <3>1, <1>7
  <2> QED BY <2>1, <2>2
<1> HIDE DEF eof
<1>9. /\ stack' \in Seq(FrameRec) /\ Len(stack') = Len(eof) + 1
      /\ stack'[Len(eof) + 1] = Frame("user", s)
      /\ \A i \in 1..Len(eof) : stack'[i] = eof[i]
  BY <1>4, <1>6, <1>8, AppendProperties
<1>10. CASE Len(eof) = 1
  <2>1. Len(stack') = 2 /\ stack'[2] = Frame("user", s) /\ stack'[1] = eof[1] BY <1>9, <1>10
  <2> QED BY <2>1, <1>3, <1>5, <1>8, <1>9
<1>11. CASE Len(eof) = 2
  <2>1. /\ Len(stack') = 3 /\ stack'[3] = Frame("user", s) /\ stack'[1] = eof[1]
        /\ stack'[2] = eof[2]
    BY <1>9, <1>11
  <2> QED BY <2>1, <1>3, <1>5, <1>8, <1>9, <1>11
<1> QED BY <1>8, <1>10, <1>11

LEMMA ReadStep ==
  ASSUME Streams, Calls, Read
  PROVE  Streams' /\ Calls' /\ SameLife
<1>1. /\ stack # <<>> /\ Top.fn = "io" /\ UNCHANGED <<stream, reg, pc, batch>>
  BY DEF Read, Runs
<1>2. /\ Len(stack) = 1 /\ stack[1] = Top /\ Under = <<>> /\ pc = "dispatch"
      /\ stream[Top.stream].handler = "client"
  BY <1>1, HandlerFirst
<1>3. PICK s \in Stream : s = Top.stream BY <1>1, TopGood
<1>4. Opened(s) /\ Top \in FrameRec BY <1>1, <1>3, TopGood, TopFacts DEF Calls
<1>5. SameOwners
  <2> DEFINE f == stream[s].fd
  <2>1. conn' = conn \/ (ReadResult(f) = "data" /\ conn' = [conn EXCEPT ![f].in = @ - 1])
    BY <1>3 DEF Read
  <2>2. CASE ReadResult(f) = "data" /\ conn' = [conn EXCEPT ![f].in = @ - 1]
    <3>1. f \in Fd /\ conn[f] \in ConnRec BY <1>4 DEF Streams, StreamRec, Opened
    <3> HIDE DEF f
    <3>2. conn[f].in # 0
      <4> SUFFICES ASSUME conn[f].in = 0 PROVE ReadResult(f) # "data" BY <2>2
      <4> QED BY <3>1 DEF ReadResult
    <3>3. [conn[f] EXCEPT !.in = @ - 1] \in ConnRec BY <3>1, <3>2, BoundAssumption DEF ConnRec
    <3> QED BY <2>2, <3>1, <3>3 DEF SameOwners, Streams, ConnRec
  <2> QED BY <2>1, <2>2 DEF SameOwners, Streams
<1>6. Streams' /\ Kept /\ SameLife /\ StaysLive BY <1>1, <1>5, StreamsSame
<1>7. /\ stack' \in Seq(FrameRec) /\ Len(stack') \in {2, 3}
      /\ stack'[1].fn = "io" /\ stack'[1].stream = s
      /\ stack'[Len(stack')] = Frame("user", s)
      /\ Len(stack') = 3 => stack'[2] = Frame("eof", s)
  BY <1>3, ReadStack
<1>8. Keeps(0) /\ Lives(0)' BY <1>2, <1>7 DEF Keeps, Lives
<1>9. \A i \in 0 + 1..Len(stack') : Good(i)'
  <2> TAKE i \in 0 + 1..Len(stack')
  <2>1. Opened(s)' /\ stream'[s].handler = "client" /\ pc' = "dispatch"
    BY <1>1, <1>2, <1>3, <1>4 DEF Opened
  <2>2. i = 1 \/ i = 2 \/ i = 3 BY <1>7
  <2>3. CASE i = 1 BY <2>1, <2>3, <1>7 DEF Good, Opened
  <2>4. CASE i = Len(stack')
    <3>1. stack'[i].fn = "user" /\ stack'[i].stream = s BY <2>4, <1>7, FrameType
    <3> QED BY <3>1, <2>1 DEF Good, Opened
  <2>5. CASE i = 2 /\ Len(stack') = 3
    <3>1. stack'[i].fn = "eof" /\ stack'[i].stream = s BY <2>5, <1>7, FrameType
    <3> QED BY <2>5, <3>1, <2>1, <1>7 DEF Good, Opened
  <2> QED BY <2>2, <2>3, <2>4, <2>5, <1>7
<1> QED BY <1>1, <1>2, <1>6, <1>7, <1>8, <1>9, CallsStep

LEMMA AfterReadStep ==
  ASSUME Streams, Calls, AfterRead
  PROVE  Streams' /\ Calls'
<1>1. stack # <<>> /\ Top.fn = "io" BY DEF AfterRead, Runs
<1>2. CASE CloseOver(Top.stream, Under) BY <1>1, <1>2, CloseHandler
<1>3. CASE UNCHANGED <<stream, sysVars, pc, batch>> /\ stack' = Under
  <2>1. Streams' /\ Kept /\ SameLife /\ StaysLive BY <1>3, CloseAgain
  <2> QED BY <1>1, <1>3, <2>1, CallsPop
<1>4. CASE /\ UNCHANGED <<stream, sysVars, pc, batch>>
           /\ stream[Top.stream].status # "CLOSED"
           /\ stack' = Append(Under, Frame("flush", Top.stream))
  <2>1. Streams' /\ Kept /\ SameLife /\ StaysLive BY <1>4, CloseAgain
  <2>2. PICK s \in Stream : s = Top.stream BY <1>1, TopGood
  <2>3. /\ Opened(s) /\ Len(stack) = 1 /\ Under = <<>> /\ pc = "dispatch"
        /\ stream[s].handler = "client"
    BY <1>1, <2>2, HandlerFirst, TopGood
  <2>4. Frame("flush", s) \in FrameRec /\ Frame("flush", s).fn = "flush" /\ Frame("flush", s).stream = s
    BY FrameType
  <2>5. stack' \in Seq(FrameRec) /\ Len(stack') = 1 /\ stack'[1] = Frame("flush", s)
    BY <1>4, <2>2, <2>3, <2>4
  <2>6. Keeps(0) /\ Lives(0)' BY <2>3, <2>5 DEF Keeps, Lives
  <2>7. Good(1)' BY <2>2, <2>3, <2>4, <2>5, <1>4 DEF Good, Opened, Live
  <2>8. \A i \in 0 + 1..Len(stack') : Good(i)'
    <3>1. \A i \in 0 + 1..Len(stack') : i = 1 BY <2>5
    <3> QED BY <3>1, <2>7
  <2> QED BY <1>4, <2>1, <2>3, <2>5, <2>6, <2>8, CallsStep
<1> QED BY <1>2, <1>3, <1>4 DEF AfterRead

LEMMA FlushWriteStep ==
  ASSUME Streams, Calls, FlushWrite
  PROVE  Streams' /\ Calls' /\ SameLife
<1>1. stack # <<>> /\ Top.fn = "flush" /\ UNCHANGED <<conn, reg, pc, batch>>
  BY DEF FlushWrite, Runs, sysVars
<1>2. PICK s \in Stream : s = Top.stream BY <1>1, TopGood
<1>3. Opened(s) /\ pc \in ProgramPc \cup {"dispatch"} BY <1>1, <1>2, TopGood
<1>4. SameOwners BY <1>1 DEF SameOwners, Streams
<1>5. stream[s].writes \in Seq(Op) /\ stream[s].writes # <<>>
  BY <1>2 DEF Streams, StreamRec, FlushWrite
<1>6. Tail(stream[s].writes) \in Seq(Op) BY <1>5
<1>7. CASE stream' = [stream EXCEPT ![s].writes = Tail(stream[s].writes)]
  <2>1. Streams' /\ Kept /\ SameLife /\ StaysLive
    BY <1>1, <1>3, <1>4, <1>6, <1>7, StreamsQueue
  <2>2. Opened(s)' BY <1>3, <2>1 DEF Kept
  <2>3. CASE stack' = Append(Under, Frame("user", s)) BY <1>1, <2>1, <2>2, <2>3, CallsSwap
  <2>4. CASE stack' = Append(stack, Frame("user", s)) BY <1>1, <1>3, <2>1, <2>2, <2>4, CallsPush
  <2>5. stack' = Append(Under, Frame("user", s)) \/ stack' = Append(stack, Frame("user", s))
    <3>1. \/ stack' = Append(Under, Frame("user", s)) \/ stack' = Append(stack, Frame("user", s))
          \/ stream' = stream
      BY <1>2 DEF FlushWrite, CallBack, Push
    <3>2. stream' # stream
      <4>1. stream'[s].writes = Tail(stream[s].writes) BY <1>7 DEF Streams, StreamRec
      <4>2. Len(Tail(stream[s].writes)) # Len(stream[s].writes) BY <1>5
      <4> QED BY <4>1, <4>2
    <3> QED BY <3>1, <3>2
  <2> QED BY <2>1, <2>3, <2>4, <2>5
<1>8. CASE stream' = stream /\ stack' \in {Under, stack}
  <2>1. Streams' /\ Kept /\ SameLife /\ StaysLive BY <1>1, <1>4, <1>8, StreamsSame
  <2>2. CASE stack' = Under BY <1>1, <2>1, <2>2, CallsPop
  <2>3. CASE stack' = stack BY <1>1, <2>1, <2>3, CallsSame
  <2> QED BY <1>8, <2>1, <2>2, <2>3
<1>9. \/ stream' = [stream EXCEPT ![s].writes = Tail(stream[s].writes)]
      \/ stream' = stream /\ stack' \in {Under, stack}
  BY <1>2 DEF FlushWrite
<1> QED BY <1>7, <1>8, <1>9

LEMMA FlushDoneStep ==
  ASSUME Streams, Calls, FlushDone
  PROVE  Streams' /\ Calls' /\ SameLife
<1>1. stack # <<>> /\ Top.fn = "flush" /\ UNCHANGED <<pc, batch>> /\ stack' = Under
  BY DEF FlushDone, Runs
<1>2. PICK s \in Stream : s = Top.stream BY <1>1, TopGood
<1>3. Live(s) /\ stream[s].handler = "client"
  <2>1. Good(Len(stack)) /\ Top = stack[Len(stack)] BY <1>1, TopGood, TopFacts DEF Calls
  <2>2. stream[Top.stream].handler = "client" BY <1>1, HandlerFirst
  <2> QED BY <1>1, <1>2, <2>1, <2>2 DEF Good
<1>4. stream[s] \in StreamRec /\ Attached(s) BY DEF Streams
<1>5. stream[s].fd \in Fd BY <1>3, LiveFacts
<1> DEFINE r == [stream[s] EXCEPT !.flags = @ \ {"OUT"}]
<1>6. /\ r \in StreamRec /\ r.fd = stream[s].fd /\ r.status = stream[s].status
      /\ r.handler = "client"
  BY <1>3, <1>4 DEF StreamRec, Masks
<1>7. /\ stream' = [stream EXCEPT ![s] = r] /\ reg' = EventSet(s, r)
      /\ conn' = conn \/ conn' = [conn EXCEPT ![r.fd].shut = TRUE]
  BY <1>2 DEF FlushDone
<1> HIDE DEF r
<1>8. SameOwners
  <2>1. [conn[r.fd] EXCEPT !.shut = TRUE] \in ConnRec BY <1>5, <1>6 DEF Streams, ConnRec
  <2> QED BY <1>5, <1>6, <1>7, <2>1 DEF SameOwners, Streams, ConnRec
<1>9. Streams' /\ Kept /\ SameLife /\ StaysLive
  BY <1>3, <1>4, <1>6, <1>7, <1>8, StreamsUpdate DEF Attached, Live
<1> QED BY <1>1, <1>9, CallsPop

LEMMA ReturnStep ==
  ASSUME Streams, Calls, Return
  PROVE  Streams' /\ Calls' /\ SameLife
<1>1. Streams' /\ Kept /\ SameLife /\ StaysLive BY CloseAgain DEF Return
<1> QED BY <1>1, CallsPop DEF Return, Runs

LEMMA EofStep ==
  ASSUME Streams, Calls, Eof
  PROVE  Streams' /\ Calls'
  BY CloseHandler DEF Eof, Runs

(* The steps of pd_io_run that only move on. *)
Moves(from, to) == Go(from, to) /\ (from = "dispatch" => batch = {})
                                /\ (from = "closes" => pending_closes = <<>>)

MoveOn ==
  \/ Moves("script", "loop") \/ Moves("loop", "poll") \/ Moves("loop", "script")
  \/ Moves("dispatch", "timers") \/ Moves("timers", "closes") \/ Moves("closes", "after")
  \/ Moves("after", "loop")

LEMMA MoveStep ==
  ASSUME Streams, Calls, MoveOn
  PROVE  Streams' /\ Calls' /\ SameLife
<1>1. UNCHANGED <<stream, sysVars, stack, batch>> /\ stack = <<>> BY DEF MoveOn, Moves, Go
<1>2. Streams' /\ Kept /\ SameLife BY <1>1, CloseAgain
<1>3. batch = {} BY DEF MoveOn, Moves, Go, Calls
<1>4. pc' \in ProgramPc \cup {"loop", "poll", "dispatch", "closes"}
  BY DEF MoveOn, Moves, Go, ProgramPc
<1>5. Len(stack') = 0 BY <1>1
<1>6. Calls' BY <1>1, <1>3, <1>4, <1>5 DEF Calls
<1> QED BY <1>2, <1>6

LEMMA PollStep ==
  ASSUME Streams, Calls, Poll
  PROVE  Streams' /\ Calls' /\ SameLife
<1>1. /\ pc = "poll" /\ pc' = "dispatch" /\ UNCHANGED <<stream, sysVars, stack>> BY DEF Poll
<1>2. Streams' /\ Kept /\ SameLife BY <1>1, CloseAgain
<1>3. stack = <<>> BY <1>1 DEF Calls, ProgramPc
<1>4. PICK room \in SUBSET Fd :
        batch' = {[stream |-> reg[f].stream, events |-> Ready(f, f \in room)] :
                    f \in {g \in Fd : reg[g] # NoReg /\ Ready(g, g \in room) # {}}}
  BY DEF Poll
<1>5. ASSUME NEW e \in batch' PROVE e \in EventRec /\ Opened(e.stream)
  <2>1. PICK f \in Fd : /\ reg[f] # NoReg
                         /\ e = [stream |-> reg[f].stream, events |-> Ready(f, f \in room)]
    BY <1>4, <1>5
  <2>2. Open(f) BY <2>1 DEF Streams, Watched
  <2>3. reg[f].stream \in Stream /\ Opened(reg[f].stream) /\ reg[f].mask \in Masks
    BY <2>2, OpenFacts DEF Live, Streams, RegRec
  <2>4. Ready(f, f \in room) \in Events BY <2>3 DEF Ready, Events, Masks
  <2> QED BY <2>1, <2>3, <2>4 DEF EventRec
<1>6. Len(stack') = 0 /\ stack' \in Seq(FrameRec) BY <1>1, <1>3
<1>7. Calls'
  <2>1. \A e \in batch' : Opened(e.stream)' BY <1>1, <1>5 DEF Opened
  <2> QED BY <1>1, <1>3, <1>5, <1>6, <2>1 DEF Calls
<1> QED BY <1>2, <1>7

LEMMA CloseCbStep ==
  ASSUME Streams, Calls, Closing, CloseCb
  PROVE  /\ Streams' /\ Calls'
         /\ \E s \in Stream :
              /\ s = Head(pending_closes) /\ Opened(s) /\ stream[s].status = "CLOSED"
              /\ stream[s].writes = <<>> /\ ~Opened(s)'
              /\ stream' = [stream EXCEPT ![s] = Fresh] /\ stream'[s] = Fresh
              /\ \A t \in Stream \ {s} : stream'[t] = stream[t]
<1>1. /\ pc = "closes" /\ pc' = "closecb" /\ UNCHANGED <<sysVars, stack, batch>>
      /\ pending_closes # <<>> /\ stream' = [stream EXCEPT ![Head(pending_closes)] = Fresh]
  BY DEF CloseCb
<1>2. stack = <<>> /\ batch = {} BY <1>1 DEF Calls, ProgramPc
<1>3. pending_closes \in Seq(Stream) BY DEF Closing
<1>4. PICK s \in Stream : s = Head(pending_closes) BY <1>1, <1>3
<1>5. s \in Range(pending_closes) BY <1>1, <1>3, <1>4 DEF Range
<1>6. stream[s].status = "CLOSED" /\ stream[s].writes = <<>> BY <1>5 DEF Closing
<1>7. Opened(s)
  <2>1. Attached(s) BY DEF Streams
  <2> QED BY <2>1, <1>6 DEF Attached, Fresh
<1>8. /\ Streams' /\ stream'[s] = Fresh /\ \A t \in Stream \ {s} : stream'[t] = stream[t]
  BY <1>1, <1>4, <1>6, StreamsFree DEF Live
<1>9. Len(stack') = 0 /\ batch' = {} BY <1>1, <1>2
<1>10. Calls' BY <1>1, <1>2, <1>9 DEF Calls, ProgramPc
<1>11. ~Opened(s)' BY <1>8 DEF Opened, Fresh
<1> QED BY <1>1, <1>4, <1>6, <1>7, <1>8, <1>10, <1>11

LEMMA CloseReturnStep ==
  ASSUME Streams, Calls, CloseReturn
  PROVE  Streams' /\ Calls' /\ SameLife
<1>1. UNCHANGED <<stream, sysVars, stack, batch>> /\ stack = <<>> /\ pc = "closecb" /\ pc' = "closes"
  BY DEF CloseReturn
<1>2. Streams' /\ Kept /\ SameLife BY <1>1, CloseAgain
<1>3. batch = {} BY <1>1 DEF Calls
<1>4. Len(stack') = 0 BY <1>1
<1>5. Calls' BY <1>1, <1>3, <1>4 DEF Calls
<1> QED BY <1>2, <1>5

-----------------------------------------------------------------------------
(* Closing. *)

SameClosed == \A s \in Stream : stream[s].status = "CLOSED" <=> stream'[s].status = "CLOSED"

CancelsSame ==
  \A i \in Nat :
    Cancels(i)' = Cancels(i) /\ (Cancels(i) => stack'[i].stream = stack[i].stream)

(* Only other calls come and go. *)
LEMMA CancelsKeep ==
  ASSUME stack \in Seq(FrameRec), stack' \in Seq(FrameRec), NEW k \in Nat, Keeps(k),
         \A i \in k + 1..Len(stack) : stack[i].fn # "cancel",
         \A i \in k + 1..Len(stack') : stack'[i].fn # "cancel"
  PROVE  CancelsSame
<1> SUFFICES ASSUME NEW i \in Nat
             PROVE  Cancels(i)' = Cancels(i) /\ (Cancels(i) => stack'[i].stream = stack[i].stream)
  BY DEF CancelsSame
<1>1. Len(stack) \in Nat /\ Len(stack') \in Nat /\ k <= Len(stack) /\ k <= Len(stack')
  BY DEF Keeps
<1>2. CASE i \in 1..k
  <2>1. stack'[i] = stack[i] /\ i \in 1..Len(stack) /\ i \in 1..Len(stack')
    BY <1>1, <1>2 DEF Keeps
  <2> QED BY <2>1 DEF Cancels
<1>3. CASE i \notin 1..k
  <2>1. i \in 1..Len(stack) => i \in k + 1..Len(stack) BY <1>1, <1>3
  <2>2. i \in 1..Len(stack') => i \in k + 1..Len(stack') BY <1>1, <1>3
  <2> QED BY <2>1, <2>2 DEF Cancels
<1> QED BY <1>2, <1>3

LEMMA CancelsPush ==
  ASSUME stack \in Seq(FrameRec), NEW s \in Stream, stack' = Append(stack, Frame("user", s))
  PROVE  CancelsSame
<1>1. Frame("user", s) \in FrameRec /\ Frame("user", s).fn = "user" BY FrameType
<1>2. PICK k \in Nat : k = Len(stack) OBVIOUS
<1>3. Keeps(k) /\ Len(stack') = k + 1 /\ stack'[k + 1].fn = "user" /\ stack' \in Seq(FrameRec)
  BY <1>1, <1>2, PushFacts
<1>4. \A i \in k + 1..Len(stack') : i = k + 1 BY <1>3
<1>5. \A i \in k + 1..Len(stack) : FALSE BY <1>2
<1> QED BY <1>3, <1>4, <1>5, CancelsKeep

LEMMA CancelsPop ==
  ASSUME stack \in Seq(FrameRec), stack # <<>>, Top.fn # "cancel", stack' = Under
  PROVE  CancelsSame
<1>1. PICK k \in Nat : k = Len(stack) - 1 BY TopFacts
<1>2. Keeps(k) /\ Len(stack') = k /\ stack' \in Seq(FrameRec) BY <1>1, PopFacts
<1>3. \A i \in k + 1..Len(stack') : FALSE BY <1>2
<1>4. \A i \in k + 1..Len(stack) : i = Len(stack) BY <1>1
<1> QED BY <1>2, <1>3, <1>4, TopFacts, CancelsKeep

LEMMA CancelsSwap ==
  ASSUME stack \in Seq(FrameRec), stack # <<>>, Top.fn # "cancel", NEW s \in Stream,
         NEW fn \in {"user", "flush"}, stack' = Append(Under, Frame(fn, s))
  PROVE  CancelsSame
<1>1. Frame(fn, s) \in FrameRec /\ Frame(fn, s).fn = fn BY FrameType
<1>2. PICK k \in Nat : k = Len(stack) - 1 BY TopFacts
<1>3. Keeps(k) /\ Len(stack') = k + 1 /\ stack'[k + 1].fn = fn /\ stack' \in Seq(FrameRec)
  BY <1>1, <1>2, SwapFacts
<1>4. \A i \in k + 1..Len(stack') : i = k + 1 BY <1>3
<1>5. \A i \in k + 1..Len(stack) : i = Len(stack) BY <1>2
<1> QED BY <1>3, <1>4, <1>5, TopFacts, CancelsKeep

LEMMA InsideCancels ==
  ASSUME stack \in Seq(FrameRec), NEW s
  PROVE  Inside("cancel", s) <=> \E i \in Nat : Cancels(i) /\ stack[i].stream = s
<1>1. DOMAIN stack = 1..Len(stack) /\ Len(stack) \in Nat OBVIOUS
<1> QED BY <1>1 DEF Inside, Cancels

LEMMA InsideSame ==
  ASSUME stack \in Seq(FrameRec), stack' \in Seq(FrameRec), CancelsSame, NEW s
  PROVE  Inside("cancel", s)' <=> Inside("cancel", s)
<1>1. Inside("cancel", s) <=> \E i \in Nat : Cancels(i) /\ stack[i].stream = s BY InsideCancels
<1>2. Inside("cancel", s)' <=> \E i \in Nat : Cancels(i)' /\ stack'[i].stream = s
  <2>1. DOMAIN stack' = 1..Len(stack') /\ Len(stack') \in Nat OBVIOUS
  <2> QED BY <2>1 DEF Inside, Cancels
<1> QED BY <1>1, <1>2 DEF CancelsSame

(* A step that closes nothing and gives no stream a write that is closed. *)
LEMMA ClosingSame ==
  ASSUME Calls, Calls', Closing, SameClosed, CancelsSame, pending_closes' = pending_closes,
         \A s \in Stream : stream[s].status = "CLOSED" /\ stream[s].writes = <<>> =>
                             stream'[s].writes = <<>>
  PROVE  Closing'
<1>1. \A s \in Stream : Inside("cancel", s)' <=> Inside("cancel", s) BY InsideSame DEF Calls
<1>2. \A s \in Range(pending_closes) : s \in Stream
  BY DEF Closing, Range
<1>3. Range(pending_closes)' = Range(pending_closes) BY DEF Range
<1>4. \A i \in Nat : Cancels(i) => stack[i].stream \in Stream
  <2> TAKE i \in Nat
  <2>1. Cancels(i) => stack[i] \in FrameRec BY DEF Cancels, Calls
  <2> QED BY <2>1 DEF FrameRec
<1>5. NoRepeat(pending_closes)' BY DEF Closing, NoRepeat
<1>6. \A s \in Range(pending_closes)' :
        stream'[s].status = "CLOSED" /\ stream'[s].writes = <<>> /\ ~Inside("cancel", s)'
  BY <1>1, <1>2, <1>3 DEF Closing, SameClosed
<1>7. \A s \in Stream :
        stream'[s].status = "CLOSED" => s \in Range(pending_closes)' \/ Inside("cancel", s)'
  BY <1>1, <1>3 DEF Closing, SameClosed
<1>8. \A i \in Nat : Cancels(i)' => stream'[stack'[i].stream].status = "CLOSED"
  BY <1>4 DEF Closing, SameClosed, CancelsSame
<1>9. \A i, j \in Nat :
        Cancels(i)' /\ Cancels(j)' /\ stack'[i].stream = stack'[j].stream => i = j
  BY DEF Closing, CancelsSame
<1> QED BY <1>5, <1>6, <1>7, <1>8, <1>9 DEF Closing

(* The first half of pd_tcp_close puts a stream between the two places. *)
LEMMA ClosingClose ==
  ASSUME Streams, Calls, Calls', Closing, NEW s \in Stream, Live(s), NEW rest,
         CloseOver(s, rest), pending_closes' = pending_closes, rest \in Seq(FrameRec),
         NEW k \in Nat, k <= Len(stack), Len(rest) = k, \A i \in 1..k : rest[i] = stack[i],
         \A i \in k + 1..Len(stack) : stack[i].fn # "cancel"
  PROVE  Closing'
<1>1. /\ stream'[s] = [stream[s] EXCEPT !.status = "CLOSED"]
      /\ \A t \in Stream \ {s} : stream'[t] = stream[t]
  BY StreamsClose
<1>2. stack' = Append(rest, Frame("cancel", s)) BY DEF CloseOver, Live
<1>3. Frame("cancel", s) \in FrameRec BY FrameType
<1>4. /\ Len(stack') = k + 1 /\ stack'[k + 1] = Frame("cancel", s)
      /\ \A i \in 1..k : stack'[i] = stack[i]
  BY <1>2, <1>3, AppendProperties
<1>5. stack'[k + 1].fn = "cancel" /\ stack'[k + 1].stream = s BY <1>4, FrameType
<1>6. Len(stack) \in Nat /\ stack' \in Seq(FrameRec) /\ stack \in Seq(FrameRec) BY DEF Calls
<1>7. stream[s].status # "CLOSED" BY DEF Live
<1>8. \A i \in Nat : Cancels(i) => i \in 1..k /\ stack[i].stream \in Stream \ {s}
  <2> SUFFICES ASSUME NEW i \in Nat, Cancels(i)
               PROVE  i \in 1..k /\ stack[i].stream \in Stream \ {s}
    OBVIOUS
  <2>1. i \in 1..Len(stack) /\ stack[i].fn = "cancel" /\ stack[i] \in FrameRec
    BY <1>6 DEF Cancels
  <2>2. i \in 1..k BY <2>1, <1>6
  <2>3. stream[stack[i].stream].status = "CLOSED" BY DEF Closing
  <2>4. stack[i].stream \in Stream BY <2>1 DEF FrameRec
  <2> QED BY <2>2, <2>3, <2>4, <1>7
<1>9. \A i \in Nat : Cancels(i)' <=> i = k + 1 \/ Cancels(i)
  <2> TAKE i \in Nat
  <2>1. CASE i \in 1..k
    <3>1. i \in 1..Len(stack) /\ i \in 1..Len(stack') /\ stack'[i] = stack[i] /\ i # k + 1
      BY <2>1, <1>4, <1>6
    <3> QED BY <3>1 DEF Cancels
  <2>2. CASE i \notin 1..k
    <3>1. ~Cancels(i) BY <2>2, <1>8
    <3>2. i \in 1..Len(stack') <=> i = k + 1 BY <2>2, <1>4
    <3> QED BY <3>1, <3>2, <1>5 DEF Cancels
  <2> QED BY <2>1, <2>2
<1>10. \A i \in Nat : Cancels(i) => stack'[i] = stack[i] BY <1>4, <1>8
<1>11. \A t : Inside("cancel", t)' <=> t = s \/ Inside("cancel", t)
  <2> TAKE t
  <2>1. Inside("cancel", t) <=> \E i \in Nat : Cancels(i) /\ stack[i].stream = t
    BY <1>6, InsideCancels
  <2>2. Inside("cancel", t)' <=> \E i \in Nat : Cancels(i)' /\ stack'[i].stream = t
    <3>1. DOMAIN stack' = 1..Len(stack') /\ Len(stack') \in Nat BY <1>6
    <3> QED BY <3>1 DEF Inside, Cancels
  <2> QED BY <2>1, <2>2, <1>5, <1>9, <1>10
<1>12. \A t \in Range(pending_closes) : t \in Stream \ {s} BY <1>7 DEF Closing, Range
<1>13. Range(pending_closes)' = Range(pending_closes) BY DEF Range
<1>14. stream'[s].status = "CLOSED"
  <2>1. stream[s] \in StreamRec BY DEF Streams
  <2> QED BY <2>1, <1>1 DEF StreamRec
<1>15. NoRepeat(pending_closes)' BY DEF Closing, NoRepeat
<1>16. \A t \in Range(pending_closes)' :
         stream'[t].status = "CLOSED" /\ stream'[t].writes = <<>> /\ ~Inside("cancel", t)'
  BY <1>1, <1>11, <1>12, <1>13 DEF Closing
<1>17. \A t \in Stream :
         stream'[t].status = "CLOSED" => t \in Range(pending_closes)' \/ Inside("cancel", t)'
  BY <1>1, <1>11, <1>13 DEF Closing
<1>18. \A i \in Nat : Cancels(i)' => stream'[stack'[i].stream].status = "CLOSED"
  <2> TAKE i \in Nat
  <2>1. CASE i = k + 1 BY <2>1, <1>5, <1>14
  <2>2. CASE Cancels(i)
    <3>1. stack'[i] = stack[i] /\ stack[i].stream \in Stream \ {s} BY <2>2, <1>8, <1>10
    <3>2. stream[stack[i].stream].status = "CLOSED" BY <2>2 DEF Closing
    <3> QED BY <3>1, <3>2, <1>1
  <2> QED BY <2>1, <2>2, <1>9
<1>19. \A i, j \in Nat :
         Cancels(i)' /\ Cancels(j)' /\ stack'[i].stream = stack'[j].stream => i = j
  <2> SUFFICES ASSUME NEW i \in Nat, NEW j \in Nat, Cancels(i)', Cancels(j)',
                      stack'[i].stream = stack'[j].stream
               PROVE  i = j
    OBVIOUS
  <2>1. CASE i = k + 1 /\ j # k + 1
    <3>1. stack'[i].stream = s /\ stack'[j].stream # s BY <2>1, <1>5, <1>8, <1>9, <1>10
    <3> QED BY <3>1
  <2>2. CASE i # k + 1 /\ j = k + 1
    <3>1. stack'[j].stream = s /\ stack'[i].stream # s BY <2>2, <1>5, <1>8, <1>9, <1>10
    <3> QED BY <3>1
  <2>3. CASE i # k + 1 /\ j # k + 1
    <3>1. Cancels(i) /\ Cancels(j) BY <2>3, <1>9
    <3>2. stack[i].stream = stack[j].stream BY <3>1, <1>10
    <3> QED BY <3>1, <3>2 DEF Closing
  <2> QED BY <2>1, <2>2, <2>3
<1> QED BY <1>15, <1>16, <1>17, <1>18, <1>19 DEF Closing

(* pd_tcp_close, with the calls it returns to. *)
LEMMA ClosingCloseAny ==
  ASSUME Streams, Calls, Calls', Closing, NEW s \in Stream, Opened(s), CloseOver(s, stack),
         pending_closes' = pending_closes
  PROVE  Closing'
<1>1. stack \in Seq(FrameRec) BY DEF Calls
<1>2. CASE Live(s)
  <2>1. PICK k \in Nat : k = Len(stack) BY <1>1
  <2>2. \A i \in k + 1..Len(stack) : FALSE BY <2>1
  <2> QED BY <1>1, <1>2, <2>1, <2>2, ClosingClose
<1>3. CASE ~Live(s)
  <2>1. stack' = stack /\ stream' = stream /\ UNCHANGED sysVars BY <1>3 DEF CloseOver, Live
  <2>2. SameClosed BY <2>1, CloseAgain DEF SameLife, SameClosed
  <2>3. CancelsSame BY <2>1 DEF CancelsSame, Cancels
  <2> QED BY <2>1, <2>2, <2>3, ClosingSame
<1> QED BY <1>2, <1>3

LEMMA ClosingHandler ==
  ASSUME Streams, Calls, Calls', Closing, stack # <<>>, Top.fn \in {"io", "eof"},
         CloseOver(Top.stream, Under), pending_closes' = pending_closes
  PROVE  Closing'
<1>1. /\ Top = stack[Len(stack)] /\ Under \in Seq(FrameRec) /\ Len(Under) = Len(stack) - 1
      /\ Len(stack) \in Nat \ {0} /\ \A i \in 1..Len(stack) - 1 : Under[i] = stack[i]
  BY TopFacts DEF Calls
<1>2. PICK s \in Stream : s = Top.stream BY TopGood
<1>3. Opened(s) BY <1>2, TopGood
<1>4. CASE Live(s)
  <2>1. PICK k \in Nat : k = Len(stack) - 1 BY <1>1
  <2>2. \A i \in k + 1..Len(stack) : i = Len(stack) BY <1>1, <2>1
  <2>3. \A i \in k + 1..Len(stack) : stack[i].fn # "cancel" BY <1>1, <2>2
  <2> QED BY <1>1, <1>2, <1>4, <2>1, <2>3, ClosingClose
<1>5. CASE ~Live(s)
  <2>1. stack' = Under /\ stream' = stream /\ UNCHANGED sysVars
    BY <1>2, <1>3, <1>5 DEF CloseOver, Live
  <2>2. SameClosed BY <2>1, CloseAgain DEF SameLife, SameClosed
  <2>3. CancelsSame BY <2>1, CancelsPop DEF Calls
  <2> QED BY <2>1, <2>2, <2>3, ClosingSame
<1> QED BY <1>4, <1>5

LEMMA ClosingCancel ==
  ASSUME Streams, Calls, Calls', Closing, Cancel
  PROVE  Closing'
<1>1. stack # <<>> /\ Top.fn = "cancel" /\ stack \in Seq(FrameRec) BY DEF Cancel, Runs, Calls
<1>2. PICK s \in Stream : s = Top.stream BY <1>1, TopGood
<1>3. PICK m \in Nat : m = Len(stack) BY <1>1
<1>4. m # 0 /\ stack[m] = Top BY <1>1, <1>3, TopFacts
<1>5. Cancels(m) /\ stack[m].stream = s BY <1>1, <1>2, <1>3, <1>4 DEF Cancels
<1>6. Inside("cancel", s) BY <1>1, <1>5, InsideCancels
<1>7. s \notin Range(pending_closes) /\ stream[s].status = "CLOSED" BY <1>5, <1>6 DEF Closing
<1>8. CASE stream[s].writes # <<>>
  <2>1. /\ stream' = [stream EXCEPT ![s].writes = Tail(stream[s].writes)]
        /\ stack' = Append(stack, Frame("user", s)) /\ UNCHANGED pending_closes
    BY <1>2, <1>8 DEF Cancel, CallBack, Push
  <2>2. CancelsSame BY <1>1, <2>1, CancelsPush
  <2>3. SameClosed BY CancelStep DEF SameLife, SameClosed
  <2>4. \A t \in Stream : stream[t].writes = <<>> => stream'[t].writes = <<>>
    BY <1>8, <2>1 DEF Streams
  <2> QED BY <2>1, <2>2, <2>3, <2>4, ClosingSame
<1>9. CASE stream[s].writes = <<>>
  <2>1. /\ pending_closes' = Append(pending_closes, s) /\ stack' = Under /\ stream' = stream
    BY <1>2, <1>9 DEF Cancel
  <2>2. /\ stack' \in Seq(FrameRec) /\ Len(stack') = m - 1
        /\ \A i \in 1..m - 1 : stack'[i] = stack[i]
    BY <1>1, <1>3, <2>1, TopFacts
  <2>3. \A i \in Nat : Cancels(i)' <=> Cancels(i) /\ i # m
    <3> TAKE i \in Nat
    <3>1. i \in 1..m - 1 <=> i \in 1..m /\ i # m BY <1>4
    <3> QED BY <3>1, <1>3, <2>2 DEF Cancels
  <2>4. \A i \in Nat : Cancels(i)' => stack'[i] = stack[i]
    <3> TAKE i \in Nat
    <3>1. Cancels(i)' => i \in 1..m - 1 BY <2>2 DEF Cancels
    <3> QED BY <3>1, <2>2
  <2>5. \A t : Inside("cancel", t)' <=> t # s /\ Inside("cancel", t)
    <3> TAKE t
    <3>1. Inside("cancel", t) <=> \E i \in Nat : Cancels(i) /\ stack[i].stream = t
      BY <1>1, InsideCancels
    <3>2. Inside("cancel", t)' <=> \E i \in Nat : Cancels(i)' /\ stack'[i].stream = t
      <4>1. DOMAIN stack' = 1..Len(stack') /\ Len(stack') \in Nat BY <2>2
      <4> QED BY <4>1 DEF Inside, Cancels
    <3>3. \A i \in Nat : Cancels(i) /\ stack[i].stream = s => i = m BY <1>5 DEF Closing
    <3> QED BY <3>1, <3>2, <3>3, <1>5, <2>3, <2>4
  <2>6. /\ pending_closes \in Seq(Stream) /\ pending_closes' \in Seq(Stream)
        /\ NoRepeat(pending_closes)' /\ Range(pending_closes)' = Range(pending_closes) \cup {s}
    <3>1. pending_closes \in Seq(Stream) /\ NoRepeat(pending_closes) BY DEF Closing
    <3> QED BY <2>1, <3>1, <1>7, AppendNoRepeat
  <2>7. \A t \in Range(pending_closes)' :
          stream'[t].status = "CLOSED" /\ stream'[t].writes = <<>> /\ ~Inside("cancel", t)'
    BY <1>7, <1>9, <2>1, <2>5, <2>6 DEF Closing
  <2>8. \A t \in Stream :
          stream'[t].status = "CLOSED" => t \in Range(pending_closes)' \/ Inside("cancel", t)'
    BY <2>1, <2>5, <2>6 DEF Closing
  <2>9. \A i \in Nat : Cancels(i)' => stream'[stack'[i].stream].status = "CLOSED"
    BY <2>1, <2>3, <2>4 DEF Closing
  <2>10. \A i, j \in Nat :
           Cancels(i)' /\ Cancels(j)' /\ stack'[i].stream = stack'[j].stream => i = j
    BY <2>3, <2>4 DEF Closing
  <2> QED BY <2>6, <2>7, <2>8, <2>9, <2>10 DEF Closing
<1> QED BY <1>8, <1>9

LEMMA ClosingCb ==
  ASSUME Streams, Calls, Closing, CloseCb
  PROVE  Closing'
<1>1. PICK s \in Stream :
        /\ s = Head(pending_closes) /\ stream'[s] = Fresh
        /\ \A t \in Stream \ {s} : stream'[t] = stream[t]
  BY CloseCbStep
<1>2. /\ pending_closes # <<>> /\ pending_closes' = Tail(pending_closes) /\ pc = "closes"
      /\ stack' = stack
  BY DEF CloseCb
<1>3. stack = <<>> BY <1>2 DEF Calls, ProgramPc
<1>4. pending_closes \in Seq(Stream) BY DEF Closing
<1>6. /\ pending_closes' \in Seq(Stream) /\ NoRepeat(pending_closes')
      /\ Range(pending_closes') = Range(pending_closes) \ {s}
  BY <1>1, <1>2, <1>4, TailNoRepeat DEF Closing
<1>8. NoRepeat(pending_closes)' BY <1>6 DEF NoRepeat
<1>9. Range(pending_closes)' = Range(pending_closes) \ {s} BY <1>6 DEF Range
<1>10. \A t : ~Inside("cancel", t) /\ ~Inside("cancel", t)' BY <1>2, <1>3 DEF Inside
<1>11. \A i \in Nat : ~Cancels(i)'
  <2>1. Len(stack') = 0 BY <1>2, <1>3
  <2> QED BY <2>1 DEF Cancels
<1>12. \A t \in Range(pending_closes)' :
         t \in Stream /\ stream'[t].status = "CLOSED" /\ stream'[t].writes = <<>>
  <2>1. \A t \in Range(pending_closes) : t \in Stream BY <1>4 DEF Range
  <2> QED BY <2>1, <1>1, <1>9 DEF Closing
<1>13. \A t \in Stream : stream'[t].status = "CLOSED" => t \in Range(pending_closes)'
  BY <1>1, <1>9, <1>10 DEF Closing, Fresh
<1> QED BY <1>6, <1>8, <1>10, <1>11, <1>12, <1>13 DEF Closing

(* A step of the loop, of the peers or of the program that leaves the calls alone. *)
LEMMA ClosingQuiet ==
  ASSUME Calls, Calls', Closing, SameClosed, UNCHANGED <<stack, pending_closes>>,
         \A s \in Stream : stream[s].status = "CLOSED" => stream'[s].writes = stream[s].writes
  PROVE  Closing'
<1>1. CancelsSame BY DEF CancelsSame, Cancels
<1>2. \A s \in Stream : stream[s].status = "CLOSED" /\ stream[s].writes = <<>> =>
                          stream'[s].writes = <<>>
  OBVIOUS
<1> QED BY <1>1, <1>2, ClosingSame

LEMMA ClosingOpen ==
  ASSUME Streams, Calls, Calls', Closing, NEW s \in Stream, Connect(s) \/ Accept(s)
  PROVE  Closing'
<1>1. stream[s] = Fresh BY DEF Connect, Accept
<1>2. PICK f \in Fd :
        stream' = [stream EXCEPT ![s] = [Fresh EXCEPT !.fd = f, !.handler = "connect",
                                                      !.flags = {"IN", "OUT"}]]
        \/ stream' = [stream EXCEPT ![s] = [Fresh EXCEPT !.fd = f, !.handler = "client",
                                                         !.flags = {"IN"}, !.status = "ACTIVE"]]
  <2>1. CASE Connect(s)
    <3>1. PICK f \in FreeFd :
            stream' = [stream EXCEPT ![s] = [stream[s] EXCEPT !.fd = f, !.handler = "connect",
                                                              !.flags = {"IN", "OUT"}]]
      BY <2>1 DEF Connect, Register
    <3> QED BY <3>1, <1>1 DEF FreeFd
  <2>2. CASE Accept(s) BY <2>2 DEF Accept, AcceptOver, LowestFree, FreeFd, Register
  <2> QED BY <2>1, <2>2
<1>3. stream'[s].status # "CLOSED" /\ \A t \in Stream \ {s} : stream'[t] = stream[t]
  BY <1>2 DEF Streams, Fresh
<1>4. stream[s].status # "CLOSED" BY <1>1 DEF Fresh
<1>5. SameClosed BY <1>3, <1>4 DEF SameClosed
<1>6. UNCHANGED <<stack, pending_closes>> BY DEF Connect, Accept, AcceptOver, Register, loopVars
<1> QED BY <1>3, <1>4, <1>5, <1>6, ClosingQuiet

LEMMA ClosingProgram ==
  ASSUME Careful, Streams, Calls, Calls', Closing, NEW s \in Stream, NEW flags \in Masks,
         SetFlags(s, flags) \/ Shutdown(s)
  PROVE  Closing'
<1>1. SameClosed BY SetFlagsStep, ShutdownStep DEF SameLife, SameClosed
<1>2. UNCHANGED <<stack, pending_closes>> BY DEF SetFlags, Shutdown, loopVars, ctxVars
<1>3. \A t \in Stream : stream'[t].writes = stream[t].writes
  <2>1. \A t \in Stream : stream[t] \in StreamRec BY DEF Streams
  <2>2. CASE SetFlags(s, flags)
    <3>1. stream' = [stream EXCEPT ![s] = [stream[s] EXCEPT !.flags = flags]]
      BY <2>2 DEF SetFlags
    <3> QED BY <3>1, <2>1 DEF Streams, StreamRec
  <2>3. CASE Shutdown(s)
    <3> DEFINE r == [stream[s] EXCEPT !.status = "SHUTDOWN"]
               w == [r EXCEPT !.flags = @ \cup {"OUT"}]
    <3>1. stream' = [stream EXCEPT ![s] = r] \/ stream' = [stream EXCEPT ![s] = w]
      BY <2>3 DEF Shutdown
    <3>2. r.writes = stream[s].writes /\ w.writes = stream[s].writes BY <2>1 DEF StreamRec
    <3> HIDE DEF r, w
    <3> QED BY <3>1, <3>2 DEF Streams
  <2> QED BY <2>2, <2>3
<1> QED BY <1>1, <1>2, <1>3, ClosingQuiet

LEMMA ClosingWrite ==
  ASSUME Streams, Calls, Calls', Closing, NEW s \in Stream, NEW o \in Op, Write(s, o)
  PROVE  Closing'
<1>1. SameClosed /\ pending_closes' = pending_closes
  BY WriteStep DEF Write, ctxVars, SameLife, SameClosed
<1>2. CASE CallBack(s, o) /\ UNCHANGED stream
  <2>1. CancelsSame BY <1>2, CancelsPush DEF CallBack, Push, Calls
  <2> QED BY <1>1, <1>2, <2>1, ClosingSame
<1>3. CASE WriteAsync(s, o) /\ stream[s].status = "ACTIVE"
  <2>1. stack' = stack BY <1>3 DEF WriteAsync
  <2>2. \A t \in Stream \ {s} : stream'[t] = stream[t] BY <1>3 DEF WriteAsync, Streams
  <2> QED BY <1>1, <1>3, <2>1, <2>2, ClosingQuiet
<1>4. (CallBack(s, o) /\ UNCHANGED stream) \/ (WriteAsync(s, o) /\ stream[s].status = "ACTIVE")
  BY DEF Write, WriteRefused, WriteDirect, WriteQueued
<1> QED BY <1>2, <1>3, <1>4

LEMMA ClosingDispatch ==
  ASSUME Streams, Calls, Calls', Closing, Dispatch
  PROVE  Closing'
<1>1. SameClosed /\ pending_closes' = pending_closes /\ stack = <<>>
  BY DispatchStep DEF Dispatch, ctxVars, SameLife, SameClosed
<1>2. PICK e \in batch :
        /\ batch' = batch \ {e}
        /\ IF stream[e.stream].handler = "connect" THEN ConnectIo(e.stream, e.events)
           ELSE stack' = Call(e.stream, e.events) /\ UNCHANGED <<stream, reg>>
  BY DEF Dispatch
<1>3. PICK s \in Stream : s = e.stream
  <2>1. e \in EventRec BY DEF Calls
  <2> QED BY <2>1 DEF EventRec
<1>4. CancelsSame
  <2>1. CASE stack' = stack BY <2>1 DEF CancelsSame, Cancels
  <2>2. CASE stack' = Push("user", s) BY <2>2, CancelsPush DEF Push, Calls
  <2>3. CASE stack' = Call(s, e.events)
    <3>1. Len(stack') = 1 /\ stack'[1].fn = "io" /\ Len(stack) = 0 BY <1>1, <2>3 DEF Call
    <3> QED BY <3>1 DEF CancelsSame, Cancels
  <2> QED BY <1>2, <1>3, <2>1, <2>2, <2>3 DEF ConnectIo
<1>5. \A t \in Stream : stream'[t].writes = stream[t].writes
  <2>1. \A t \in Stream : stream[t] \in StreamRec BY DEF Streams
  <2> DEFINE r == [stream[s] EXCEPT !.status = "ACTIVE", !.handler = "client", !.flags = @ \ {"OUT"}]
  <2>2. stream' = stream \/ stream' = [stream EXCEPT ![s] = r] BY <1>2, <1>3 DEF ConnectIo
  <2>3. r.writes = stream[s].writes BY <2>1 DEF StreamRec
  <2> HIDE DEF r
  <2> QED BY <2>2, <2>3 DEF Streams
<1> QED BY <1>1, <1>4, <1>5, ClosingSame

LEMMA ClosingRead ==
  ASSUME Streams, Calls, Calls', Closing, Read
  PROVE  Closing'
<1>1. SameClosed /\ UNCHANGED <<stream, pending_closes>> /\ stack # <<>> /\ Top.fn = "io"
  BY ReadStep DEF Read, Runs, ctxVars, SameLife, SameClosed
<1>2. CancelsSame
  <2>1. Len(stack) = 1 /\ stack[1].fn = "io" BY <1>1, HandlerFirst
  <2>2. \A i \in 1..Len(stack') : stack'[i].fn # "cancel"
    <3> TAKE i \in 1..Len(stack')
    <3>1. i = 1 \/ i = Len(stack') \/ (i = 2 /\ Len(stack') = 3) BY ReadStack
    <3>2. PICK s \in Stream : s = Top.stream BY <1>1, TopGood
    <3>3. Frame("user", s).fn = "user" /\ Frame("eof", s).fn = "eof" BY FrameType
    <3> QED BY <3>1, <3>2, <3>3, ReadStack
  <2> QED BY <2>1, <2>2 DEF CancelsSame, Cancels
<1> QED BY <1>1, <1>2, ClosingSame

LEMMA ClosingFlush ==
  ASSUME Streams, Calls, Calls', Closing, FlushWrite \/ FlushDone \/ Return
  PROVE  Closing'
<1>1. SameClosed /\ pending_closes' = pending_closes
  BY FlushWriteStep, FlushDoneStep, ReturnStep
  DEF FlushWrite, FlushDone, Return, ctxVars, SameLife, SameClosed
<1>2. stack # <<>> /\ Top.fn # "cancel" /\ stack \in Seq(FrameRec)
  BY DEF FlushWrite, FlushDone, Return, Runs, Calls
<1>3. PICK s \in Stream : s = Top.stream BY <1>2, TopGood
<1>4. CancelsSame
  <2>1. CASE stack' = stack BY <2>1 DEF CancelsSame, Cancels
  <2>2. CASE stack' = Under BY <1>2, <2>2, CancelsPop
  <2>3. CASE stack' = Append(stack, Frame("user", s)) BY <1>2, <2>3, CancelsPush
  <2>4. CASE stack' = Append(Under, Frame("user", s)) BY <1>2, <2>4, CancelsSwap
  <2> QED BY <1>3, <2>1, <2>2, <2>3, <2>4 DEF FlushWrite, FlushDone, Return, CallBack, Push
<1>5. \A t \in Stream : stream[t].writes = <<>> => stream'[t].writes = <<>>
  <2>1. \A t \in Stream : stream[t] \in StreamRec BY DEF Streams
  <2>2. CASE stream' = stream BY <2>2
  <2>3. CASE /\ stream[s].writes # <<>>
             /\ stream' = [stream EXCEPT ![s].writes = Tail(stream[s].writes)]
    BY <2>3 DEF Streams
  <2>4. CASE stream' = [stream EXCEPT ![s] = [stream[s] EXCEPT !.flags = @ \ {"OUT"}]]
    BY <2>1, <2>4 DEF Streams, StreamRec
  <2> QED BY <1>3, <2>2, <2>3, <2>4 DEF FlushWrite, FlushDone, Return
<1> QED BY <1>1, <1>4, <1>5, ClosingSame

LEMMA ClosingAfterRead ==
  ASSUME Streams, Calls, Calls', Closing, AfterRead
  PROVE  Closing'
<1>1. stack # <<>> /\ Top.fn = "io" /\ pending_closes' = pending_closes
  BY DEF AfterRead, Runs, CloseOver, ctxVars
<1>2. CASE CloseOver(Top.stream, Under) BY <1>1, <1>2, ClosingHandler
<1>3. CASE UNCHANGED <<stream, sysVars>> /\ stack' = Under
  <2>1. SameClosed BY <1>3 DEF SameClosed
  <2>2. CancelsSame BY <1>1, <1>3, CancelsPop DEF Calls
  <2> QED BY <1>1, <1>3, <2>1, <2>2, ClosingSame
<1>4. CASE UNCHANGED <<stream, sysVars>> /\ stack' = Append(Under, Frame("flush", Top.stream))
  <2>1. SameClosed BY <1>4 DEF SameClosed
  <2>2. CancelsSame BY <1>1, <1>4, CancelsSwap, TopGood DEF Calls
  <2> QED BY <1>1, <1>4, <2>1, <2>2, ClosingSame
<1> QED BY <1>2, <1>3, <1>4 DEF AfterRead

-----------------------------------------------------------------------------
(* The core of the invariant holds. *)

Core == Streams /\ Calls /\ Closing

(* pd_tcp_pause and pd_tcp_resume leave EPOLLOUT alone. *)
Masking(s) ==
  \E flags \in Masks : SetFlags(s, flags) /\ ("OUT" \in stream[s].flags => "OUT" \in flags)

Program(s) ==
  \/ Masking(s)
  \/ Connect(s) \/ Accept(s) \/ Shutdown(s) \/ Close(s) \/ \E o \in Op : Write(s, o)

Loop ==
  \/ MoveOn \/ Poll \/ Network \/ Dispatch \/ CloseCb \/ CloseReturn
  \/ Return \/ Cancel \/ Read \/ Eof \/ AfterRead \/ FlushWrite \/ FlushDone

LEMMA StepCases ==
  ASSUME Streams, Next
  PROVE  (\E s \in Stream : Program(s)) \/ Loop
<1>1. CASE UserCall
  <2>1. PICK s \in Stream :
          \/ Connect(s) \/ Accept(s) \/ Pause(s) \/ Resume(s) \/ Shutdown(s) \/ Close(s)
          \/ \E o \in Op : Write(s, o)
    BY <1>1 DEF UserCall
  <2>2. stream[s] \in StreamRec BY DEF Streams
  <2>3. stream[s].flags \ {"IN"} \in Masks /\ stream[s].flags \cup {"IN"} \in Masks
    BY <2>2 DEF StreamRec, Masks
  <2>4. Pause(s) \/ Resume(s) => Masking(s) BY <2>3 DEF Pause, Resume, Masking
  <2> QED BY <2>1, <2>4 DEF Program
<1>2. CASE RunLoop \/ LoopTest \/ DispatchEnd \/ TimersEnd \/ ClosesEnd \/ AfterReturn
  BY <1>2 DEF RunLoop, LoopTest, DispatchEnd, TimersEnd, ClosesEnd, AfterReturn, Loop, MoveOn, Moves
<1> QED BY <1>1, <1>2 DEF Next, LoopStep, Loop

LEMMA CoreInit == Init => Core
<1> SUFFICES ASSUME Init PROVE Core OBVIOUS
<1>1. Streams
  <2>1. \A s \in Stream : ~Opened(s) /\ ~Live(s) /\ stream[s] = Fresh
    BY DEF Init, Opened, Live, Fresh
  <2>2. \A f \in Fd : ~Open(f) BY DEF Init, Open, NoConn
  <2>3. ASSUME NEW s \in Stream PROVE Attached(s)
    <3>1. stream[s].handler = "none" BY <2>1 DEF Fresh
    <3> QED BY <2>1, <3>1 DEF Attached
  <2>4. \A f \in Fd : Watched(f) BY <2>2 DEF Watched, Init
  <2> QED BY <2>3, <2>4, FreshType DEF Streams, Init
<1>2. Calls
  <2>1. Len(stack) = 0 /\ stack \in Seq(FrameRec) BY DEF Init
  <2> QED BY <2>1 DEF Calls, Init, ProgramPc
<1>3. Closing
  <2>1. Len(stack) = 0 /\ pending_closes \in Seq(Stream) /\ DOMAIN pending_closes = {} BY DEF Init
  <2>2. \A i : ~Cancels(i) BY <2>1 DEF Cancels
  <2>3. \A s \in Stream : stream[s].status # "CLOSED" BY DEF Init, Fresh
  <2> QED BY <2>1, <2>2, <2>3 DEF Closing, NoRepeat, Range
<1> QED BY <1>1, <1>2, <1>3 DEF Core

LEMMA CoreLoop ==
  ASSUME Core, Loop
  PROVE  Core'
<1> USE DEF Core
<1>1. CASE MoveOn \/ Poll \/ Network \/ CloseReturn
  <2>1. Streams' /\ Calls' /\ SameLife BY <1>1, MoveStep, PollStep, NetworkStep, CloseReturnStep
  <2>2. UNCHANGED <<stream, stack, pending_closes>>
    BY <1>1 DEF MoveOn, Moves, Go, Poll, Network, CloseReturn, loopVars, ctxVars
  <2> QED BY <2>1, <2>2, ClosingQuiet DEF SameLife, SameClosed
<1>2. CASE Dispatch BY <1>2, DispatchStep, ClosingDispatch
<1>3. CASE CloseCb BY <1>3, CloseCbStep, ClosingCb
<1>4. CASE Return \/ FlushWrite \/ FlushDone
  BY <1>4, ReturnStep, FlushWriteStep, FlushDoneStep, ClosingFlush
<1>5. CASE Cancel BY <1>5, CancelStep, ClosingCancel
<1>6. CASE Read BY <1>6, ReadStep, ClosingRead
<1>7. CASE AfterRead BY <1>7, AfterReadStep, ClosingAfterRead
<1>8. CASE Eof
  <2>1. Streams' /\ Calls' BY <1>8, EofStep
  <2> QED BY <1>8, <2>1, ClosingHandler DEF Eof, Runs, CloseOver, ctxVars
<1> QED BY <1>1, <1>2, <1>3, <1>4, <1>5, <1>6, <1>7, <1>8 DEF Loop

LEMMA CoreProgram ==
  ASSUME Careful, Core, NEW s \in Stream, Program(s)
  PROVE  Core'
<1> USE DEF Core
<1>1. CASE Connect(s) \/ Accept(s)
  <2>1. Streams' /\ Calls' BY <1>1, ConnectStep, AcceptStep DEF Accept
  <2> QED BY <1>1, <2>1, ClosingOpen
<1>2. CASE Masking(s)
  <2>1. PICK flags \in Masks : SetFlags(s, flags) BY <1>2 DEF Masking
  <2> QED BY <2>1, SetFlagsStep, ClosingProgram
<1>3. CASE Shutdown(s)
  <2>1. {} \in Masks BY DEF Masks
  <2> QED BY <1>3, <2>1, ShutdownStep, ClosingProgram
<1>4. CASE Close(s)
  <2>1. Streams' /\ Calls' BY <1>4, CloseProgram
  <2>2. Opened(s) /\ CloseOver(s, stack) /\ pending_closes' = pending_closes
    BY <1>4 DEF Close, Careful, Allowed, Opened, CloseOver, ctxVars
  <2> QED BY <2>1, <2>2, ClosingCloseAny
<1>5. CASE \E o \in Op : Write(s, o)
  <2>1. PICK o \in Op : Write(s, o) BY <1>5
  <2> QED BY <2>1, WriteStep, ClosingWrite
<1> QED BY <1>1, <1>2, <1>3, <1>4, <1>5 DEF Program

LEMMA CoreStep ==
  ASSUME Careful, Core, [Next]_vars
  PROVE  Core'
<1>1. CASE Next BY <1>1, StepCases, CoreLoop, CoreProgram DEF Core
<1>2. CASE UNCHANGED vars
  <2>1. UNCHANGED <<stream, conn, reg, pending_closes, stack, pc, batch>>
    BY <1>2 DEF vars, ctxVars, sysVars, loopVars
  <2>2. Streams'
    BY <2>1 DEF Core, Streams, Attached, Watched, Opened, Live, Open
  <2>3. Calls' BY <2>1 DEF Core, Calls, Good, Opened, Live
  <2>4. Closing' BY <2>1 DEF Core, Closing, Inside, Cancels
  <2> QED BY <2>2, <2>3, <2>4 DEF Core
<1> QED BY <1>1, <1>2

LEMMA CoreAlways ==
  ASSUME Careful
  PROVE  Spec => []Core
  BY CoreInit, CoreStep, PTL DEF Spec

-----------------------------------------------------------------------------
(* The count of open streams. *)

OpenedSet == {s \in Stream : Opened(s)}

LEMMA RefsSame ==
  ASSUME StreamRefs, refs' = refs, \A s \in Stream : Opened(s)' = Opened(s),
         (pc' = "closecb") = (pc = "closecb")
  PROVE  StreamRefs'
<1>1. {s \in Stream : stream'[s].fd # None} = {s \in Stream : stream[s].fd # None}
  BY DEF Opened
<1> QED BY <1>1 DEF StreamRefs

LEMMA OpenedClose ==
  ASSUME Streams, NEW s \in Stream, Opened(s), NEW rest, CloseOver(s, rest)
  PROVE  \A t \in Stream : Opened(t)' = Opened(t)
<1>1. CASE Live(s) BY <1>1, StreamsClose
<1>2. CASE ~Live(s) BY <1>2 DEF CloseOver, Live, Opened
<1> QED BY <1>1, <1>2

LEMMA RefsOpen ==
  ASSUME Core, Core', StreamRefs, NEW s \in Stream, Connect(s) \/ Accept(s)
  PROVE  StreamRefs'
<1>1. stream[s] = Fresh /\ refs' = refs + 1 /\ pc' = pc
  BY DEF Connect, Accept, AcceptOver, Register, loopVars
<1>2. PICK f \in Fd : \E r : stream' = [stream EXCEPT ![s] = r] /\ r.fd = f
  <2>1. CASE Connect(s)
    <3>1. PICK f \in FreeFd :
            stream' = [stream EXCEPT ![s] = [stream[s] EXCEPT !.fd = f, !.handler = "connect",
                                                              !.flags = {"IN", "OUT"}]]
      BY <2>1 DEF Connect, Register
    <3>2. stream[s] \in StreamRec BY DEF Core, Streams
    <3>3. [stream[s] EXCEPT !.fd = f, !.handler = "connect", !.flags = {"IN", "OUT"}].fd = f
      BY <3>2 DEF StreamRec
    <3> QED BY <3>1, <3>3 DEF FreeFd
  <2>2. CASE Accept(s)
    <3>1. PICK f \in FreeFd :
            stream' = [stream EXCEPT ![s] = [Fresh EXCEPT !.fd = f, !.handler = "client",
                                                          !.flags = {"IN"}, !.status = "ACTIVE"]]
      BY <2>2 DEF Accept, AcceptOver, LowestFree, Register
    <3>2. [Fresh EXCEPT !.fd = f, !.handler = "client", !.flags = {"IN"}, !.status = "ACTIVE"].fd = f
      BY DEF Fresh
    <3> QED BY <3>1, <3>2 DEF FreeFd
  <2> QED BY <2>1, <2>2
<1>3. ~Opened(s) /\ Opened(s)' /\ \A t \in Stream \ {s} : Opened(t)' = Opened(t)
  BY <1>1, <1>2, FdAssumption DEF Core, Streams, Opened, Fresh
<1>4. {t \in Stream : stream'[t].fd # None} = {t \in Stream : stream[t].fd # None} \cup {s}
  BY <1>3 DEF Opened
<1>5. s \notin {t \in Stream : stream[t].fd # None} BY <1>3 DEF Opened
<1>6. IsFiniteSet({t \in Stream : stream[t].fd # None}) BY StreamAssumption, FS_Subset
<1>7. /\ Cardinality({t \in Stream : stream'[t].fd # None}) =
             Cardinality({t \in Stream : stream[t].fd # None}) + 1
      /\ Cardinality({t \in Stream : stream[t].fd # None}) \in Nat
  BY <1>4, <1>5, <1>6, FS_AddElement, FS_CardinalityType
<1> QED BY <1>1, <1>7 DEF StreamRefs

LEMMA RefsClose ==
  ASSUME Core, StreamRefs, CloseCb
  PROVE  StreamRefs'
<1>1. PICK s \in Stream : /\ Opened(s) /\ ~Opened(s)'
                          /\ \A t \in Stream \ {s} : stream'[t] = stream[t]
  BY CloseCbStep DEF Core
<1>2. refs' = refs /\ pc = "closes" /\ pc' = "closecb" BY DEF CloseCb
<1> DEFINE A == {t \in Stream : stream[t].fd # None}
<1>3. {t \in Stream : stream'[t].fd # None} = A \ {s} /\ s \in A BY <1>1 DEF Opened
<1>4. IsFiniteSet(A) BY StreamAssumption, FS_Subset
<1>5. refs = Cardinality(A) + 0 BY <1>2 DEF StreamRefs
<1> HIDE DEF A
<1>6. Cardinality(A \ {s}) = Cardinality(A) - 1 /\ Cardinality(A) \in Nat
  BY <1>3, <1>4, FS_RemoveElement, FS_CardinalityType
<1>8. refs' = Cardinality(A \ {s}) + 1 BY <1>2, <1>5, <1>6
<1> QED BY <1>2, <1>3, <1>8 DEF StreamRefs

LEMMA RefsStep ==
  ASSUME Careful, Core, Core', StreamRefs, [Next]_vars
  PROVE  StreamRefs'
<1> USE DEF Core
<1>1. ASSUME NEW s \in Stream, Program(s) PROVE StreamRefs'
  <2>1. CASE Connect(s) \/ Accept(s) BY <2>1, RefsOpen
  <2>2. CASE Masking(s) \/ Shutdown(s) \/ (\E o \in Op : Write(s, o))
    <3>1. SameLife BY <2>2, SetFlagsStep, ShutdownStep, WriteStep DEF Masking
    <3>2. refs' = refs /\ pc' = pc
      BY <2>2 DEF Masking, SetFlags, Shutdown, Write, ctxVars, loopVars
    <3> QED BY <3>1, <3>2, RefsSame DEF SameLife
  <2>3. CASE Close(s)
    <3>1. Opened(s) /\ CloseOver(s, stack) BY <2>3 DEF Close, Careful, Allowed, Opened
    <3>2. \A t \in Stream : Opened(t)' = Opened(t) BY <3>1, OpenedClose
    <3> QED BY <3>1, <3>2, RefsSame DEF CloseOver, ctxVars
  <2> QED BY <1>1, <2>1, <2>2, <2>3 DEF Program
<1>2. CASE MoveOn \/ Poll
  <2>1. SameLife BY <1>2, MoveStep, PollStep
  <2>2. refs' = refs /\ pc # "closecb" /\ pc' # "closecb"
    BY <1>2 DEF MoveOn, Moves, Go, Poll, ctxVars
  <2> QED BY <2>1, <2>2, RefsSame DEF SameLife
<1>3. CASE Network \/ Dispatch \/ Return \/ Cancel \/ Read \/ FlushWrite \/ FlushDone
  <2>1. SameLife
    BY <1>3, NetworkStep, DispatchStep, ReturnStep, CancelStep, ReadStep, FlushWriteStep, FlushDoneStep
  <2>2. refs' = refs /\ pc' = pc
    BY <1>3 DEF Network, Dispatch, Return, Cancel, Read, FlushWrite, FlushDone, ctxVars, loopVars
  <2> QED BY <2>1, <2>2, RefsSame DEF SameLife
<1>4. CASE AfterRead \/ Eof
  <2>1. refs' = refs /\ pc' = pc BY <1>4 DEF AfterRead, Eof, CloseOver, ctxVars
  <2>2. stack # <<>> BY <1>4 DEF AfterRead, Eof, Runs
  <2>3. Top.stream \in Stream /\ Opened(Top.stream) BY <2>2, TopGood
  <2>4. CASE stream' = stream BY <2>1, <2>4, RefsSame DEF Opened
  <2>5. CASE CloseOver(Top.stream, Under)
    <3>1. \A t \in Stream : Opened(t)' = Opened(t) BY <2>3, <2>5, OpenedClose
    <3> QED BY <2>1, <3>1, RefsSame
  <2> QED BY <1>4, <2>4, <2>5 DEF AfterRead, Eof
<1>5. CASE CloseCb BY <1>5, RefsClose
<1>6. CASE CloseReturn
  <2>1. /\ refs' = refs - 1 /\ stream' = stream /\ pc = "closecb" /\ pc' = "closes"
    BY <1>6 DEF CloseReturn
  <2>2. IsFiniteSet({t \in Stream : stream[t].fd # None}) BY StreamAssumption, FS_Subset
  <2>3. Cardinality({t \in Stream : stream[t].fd # None}) \in Nat BY <2>2, FS_CardinalityType
  <2> QED BY <2>1, <2>3 DEF StreamRefs
<1>7. CASE UNCHANGED vars BY <1>7, RefsSame DEF vars, ctxVars, loopVars, Opened
<1> QED BY <1>1, <1>2, <1>3, <1>4, <1>5, <1>6, <1>7, StepCases DEF Loop

(* ctx->refs, by which pd_io_run decides to go on, is the number of streams
   that are not over. *)
THEOREM TcpStreamRefs ==
  ASSUME Careful
  PROVE  Spec => []StreamRefs
<1>1. Init => StreamRefs
  <2> SUFFICES ASSUME Init PROVE StreamRefs OBVIOUS
  <2>1. {s \in Stream : stream[s].fd # None} = {} BY DEF Init, Fresh
  <2>2. Cardinality({}) = 0 BY FS_EmptySet
  <2>3. refs = 0 /\ pc = "script" BY DEF Init
  <2>4. Cardinality({s \in Stream : stream[s].fd # None}) = 0 BY <2>1, <2>2
  <2> QED BY <2>3, <2>4 DEF StreamRefs
<1>2. Core /\ Core' /\ StreamRefs /\ [Next]_vars => StreamRefs' BY RefsStep
<1> QED BY <1>1, <1>2, CoreAlways, PTL DEF Spec

-----------------------------------------------------------------------------
(* Queued writes. *)

LEMMA QueueFacts ==
  ASSUME Streams, Writes, NEW s \in Stream
  PROVE  /\ stream[s].writes \in Seq(Op) /\ Queued(s) \subseteq Op
         /\ order[s] \in Seq(Op) /\ Accepted(s) \subseteq Op
<1>1. stream[s] \in StreamRec BY DEF Streams
<1>2. stream[s].writes \in Seq(Op) BY <1>1 DEF StreamRec
<1>3. order[s] \in Seq(Op) BY DEF Writes
<1> QED BY <1>2, <1>3 DEF Range, Queued, Accepted

LEMMA UnusedFacts ==
  ASSUME NEW o
  PROVE  /\ Unused(o) <=> calls[o] = 0 /\ \A s \in Stream : o \notin Accepted(s)
         /\ Unused(o)' <=> calls'[o] = 0 /\ \A s \in Stream : o \notin Accepted(s)'
  BY DEF Unused, Accepted, Range

LEMMA NextQueue ==
  ASSUME NEW s
  PROVE  /\ Queued(s)' = Range(stream'[s].writes) /\ Accepted(s)' = Range(order'[s])
         /\ NoRepeat(stream[s].writes)' = NoRepeat(stream'[s].writes)
  BY DEF Queued, Accepted, Range, NoRepeat

LEMMA WritesSame ==
  ASSUME Writes, UNCHANGED <<written, calls, order>>,
         \A s \in Stream : stream'[s].writes = stream[s].writes
  PROVE  Writes'
<1>1. \A s \in Stream : Queued(s)' = Queued(s) /\ Accepted(s)' = Accepted(s)
  BY DEF Queued, Accepted, Range
<1>2. \A s \in Stream : NoRepeat(stream[s].writes)' = NoRepeat(stream[s].writes)
  BY DEF NoRepeat
<1>3. \A s \in Stream : Queue(s)' BY <1>1, <1>2 DEF Writes, Queue
<1>4. \A o \in Op : Unused(o)' => Unused(o) BY <1>1, UnusedFacts
<1> QED BY <1>1, <1>3, <1>4 DEF Writes

(* The first write of a queue leaves it for its callback. *)
LEMMA WritesPop ==
  ASSUME Streams, Writes, NEW s \in Stream, stream[s].writes # <<>>,
         NEW o, o = Head(stream[s].writes),
         stream' = [stream EXCEPT ![s].writes = Tail(stream[s].writes)],
         calls' = [calls EXCEPT ![o] = @ + 1], order' = order,
         written' \in [Op -> Nat], \A x \in Op : written'[x] <= Size[x],
         \A x \in Op : x # o => written'[x] = written[x]
  PROVE  Writes'
<1>1. stream[s].writes \in Seq(Op) /\ Queue(s) BY QueueFacts DEF Writes
<1>2. /\ o \in Op /\ o \in Queued(s) /\ NoRepeat(Tail(stream[s].writes))
      /\ Range(Tail(stream[s].writes)) = Queued(s) \ {o}
  BY <1>1, TailNoRepeat DEF Queue, Queued
<1>3. o \in Accepted(s) /\ calls[o] = 0 BY <1>1, <1>2 DEF Queue
<1>4. /\ calls' \in [Op -> {0, 1}] /\ calls'[o] = 1
      /\ \A x \in Op : x # o => calls'[x] = calls[x]
  BY <1>2, <1>3 DEF Writes
<1>5. /\ stream'[s].writes = Tail(stream[s].writes)
      /\ \A t \in Stream \ {s} : stream'[t] = stream[t]
  <2>1. stream[s] \in StreamRec BY DEF Streams
  <2> QED BY <2>1 DEF Streams, StreamRec
<1>6. \A t \in Stream : Accepted(t)' = Accepted(t) BY DEF Accepted, Range
<1>7. /\ Queued(s)' = Queued(s) \ {o} /\ NoRepeat(stream[s].writes)'
      /\ \A t \in Stream \ {s} : Queued(t)' = Queued(t)
  <2>1. Queued(s)' = Queued(s) \ {o} /\ NoRepeat(stream[s].writes)' BY <1>2, <1>5, NextQueue
  <2>2. \A t \in Stream \ {s} : Queued(t)' = Queued(t) BY <1>5, NextQueue DEF Queued
  <2> QED BY <2>1, <2>2
<1>8. ASSUME NEW t \in Stream PROVE Queue(t)'
  <2>1. CASE t = s BY <2>1, <1>1, <1>3, <1>4, <1>6, <1>7 DEF Queue
  <2>2. CASE t # s
    <3>1. Queue(t) /\ o \notin Accepted(t) BY <1>2, <1>3, <2>2 DEF Writes
    <3>2. NoRepeat(stream[t].writes)' BY <1>5, <2>2, <3>1 DEF Queue, NoRepeat
    <3> QED BY <1>4, <1>6, <1>7, <2>2, <3>1, <3>2 DEF Queue
  <2> QED BY <2>1, <2>2
<1>9. ASSUME NEW x \in Op, Unused(x)' PROVE written'[x] = 0
  <2>1. x # o /\ Unused(x) BY <1>3, <1>4, <1>6, <1>9, UnusedFacts
  <2> QED BY <2>1 DEF Writes
<1>10. order' \in [Stream -> Seq(Op)] BY DEF Writes
<1> QED BY <1>4, <1>6, <1>8, <1>9, <1>10 DEF Writes

(* An unused write is handed over: refused, or it goes to stream s, where it
   is done or queued. *)
LEMMA WritesNew ==
  ASSUME Streams, Writes, NEW s \in Stream, NEW o \in Op, Unused(o),
         \/ /\ order' \in {order, [order EXCEPT ![s] = Append(@, o)]}
            /\ stream'[s].writes = stream[s].writes /\ calls' = [calls EXCEPT ![o] = @ + 1]
         \/ /\ order' = [order EXCEPT ![s] = Append(@, o)]
            /\ stream'[s].writes = Append(stream[s].writes, o) /\ calls' = calls,
         \A t \in Stream \ {s} : stream'[t] = stream[t],
         written' \in [Op -> Nat], \A x \in Op : written'[x] <= Size[x],
         \A x \in Op : x # o => written'[x] = written[x]
  PROVE  Writes'
<1> PICK q \in {0, 1} :
      /\ order' = [order EXCEPT ![s] = Append(@, o)] \/ (order' = order /\ q = 0)
      /\ stream'[s].writes = (IF q = 1 THEN Append(stream[s].writes, o) ELSE stream[s].writes)
      /\ IF q = 1 THEN calls' = calls ELSE calls' = [calls EXCEPT ![o] = @ + 1]
  <2>1. \E q \in {0, 1} : q = 0 OBVIOUS
  <2>2. \E q \in {0, 1} : q = 1 OBVIOUS
  <2> QED BY <2>1, <2>2
<1>1. calls[o] = 0 /\ \A t \in Stream : o \notin Accepted(t) BY UnusedFacts
<1>2. /\ calls' \in [Op -> {0, 1}] /\ calls'[o] = 1 - q
      /\ \A x \in Op : x # o => calls'[x] = calls[x]
  <2>1. CASE q = 1 BY <2>1, <1>1 DEF Writes
  <2>2. CASE q = 0
    <3>1. calls' = [calls EXCEPT ![o] = 1] BY <2>2, <1>1
    <3> QED BY <2>2, <3>1 DEF Writes
  <2> QED BY <2>1, <2>2
<1>3. /\ order[s] \in Seq(Op) /\ stream[s].writes \in Seq(Op) /\ Queue(s)
  BY QueueFacts DEF Writes
<1>4. /\ order' \in [Stream -> Seq(Op)] /\ \A t \in Stream \ {s} : Accepted(t)' = Accepted(t)
      /\ Accepted(s)' = Accepted(s) \/ Accepted(s)' = Accepted(s) \cup {o}
      /\ q = 1 => Accepted(s)' = Accepted(s) \cup {o}
  <2>1. /\ Append(order[s], o) \in Seq(Op)
        /\ Range(Append(order[s], o)) = Range(order[s]) \cup {o}
    BY <1>3, AppendNoRepeat
  <2>2. CASE order' = [order EXCEPT ![s] = Append(@, o)]
    <3>1. /\ order' \in [Stream -> Seq(Op)] /\ order'[s] = Append(order[s], o)
          /\ \A t \in Stream \ {s} : order'[t] = order[t]
      BY <2>1, <2>2 DEF Writes
    <3>2. Accepted(s)' = Accepted(s) \cup {o} BY <2>1, <3>1, NextQueue DEF Accepted
    <3>3. \A t \in Stream \ {s} : Accepted(t)' = Accepted(t) BY <3>1, NextQueue DEF Accepted
    <3> QED BY <3>1, <3>2, <3>3
  <2>3. CASE order' = order /\ q = 0 BY <2>3 DEF Writes, Accepted, Range
  <2> QED BY <2>2, <2>3
<1>5. o \notin Queued(s) BY <1>1, <1>3 DEF Queue
<1>6. \A t \in Stream \ {s} : Queued(t)' = Queued(t) BY DEF Queued, Range
<1>7. ASSUME NEW t \in Stream PROVE Queue(t)'
  <2>1. CASE t = s /\ q = 1
    <3>1. /\ NoRepeat(Append(stream[s].writes, o))
          /\ Range(Append(stream[s].writes, o)) = Queued(s) \cup {o}
      BY <1>3, <1>5, AppendNoRepeat DEF Queue, Queued
    <3>2. NoRepeat(stream[s].writes)' /\ Queued(s)' = Queued(s) \cup {o}
      BY <2>1, <3>1, NextQueue
    <3> QED BY <1>1, <1>2, <1>3, <1>4, <2>1, <3>2 DEF Queue
  <2>2. CASE t = s /\ q = 0
    <3>1. NoRepeat(stream[s].writes)' /\ Queued(s)' = Queued(s)
      BY <1>3, <2>2 DEF NoRepeat, Queued, Range, Queue
    <3> QED BY <1>1, <1>2, <1>3, <1>4, <1>5, <2>2, <3>1 DEF Queue
  <2>3. CASE t # s
    <3>1. Queue(t) /\ o \notin Accepted(t) BY <1>1 DEF Writes
    <3>2. NoRepeat(stream[t].writes)' BY <2>3, <3>1 DEF Queue, NoRepeat
    <3> QED BY <1>2, <1>4, <1>6, <2>3, <3>1, <3>2 DEF Queue
  <2> QED BY <2>1, <2>2, <2>3
<1>8. ASSUME NEW x \in Op, Unused(x)' PROVE written'[x] = 0
  <2>1. calls'[x] = 0 /\ \A t \in Stream : x \notin Accepted(t)' BY <1>8, UnusedFacts
  <2>2. x # o BY <2>1, <1>2, <1>4
  <2>3. ASSUME NEW t \in Stream PROVE x \notin Accepted(t)
    <3>1. x \notin Accepted(t)' BY <2>1
    <3>2. CASE t = s
      <4>1. x \notin Accepted(s)' BY <3>1, <3>2
      <4>2. Accepted(s) \subseteq Accepted(s)' BY ONLY <1>4
      <4> QED BY ONLY <3>2, <4>1, <4>2
    <3>3. CASE t # s
      <4>1. Accepted(t)' = Accepted(t) BY ONLY <1>4, <3>3, t \in Stream
      <4> QED BY ONLY <3>1, <4>1
    <3> QED BY <3>2, <3>3
  <2>4. Unused(x) BY <2>1, <2>2, <2>3, <1>2, UnusedFacts
  <2> QED BY <2>2, <2>4 DEF Writes
<1>9. ASSUME NEW p \in Stream, NEW t \in Stream, NEW x \in Op,
             x \in Accepted(p)', x \in Accepted(t)'
      PROVE  p = t
  <2>1. CASE x = o
    <3>1. \A u \in Stream : o \in Accepted(u)' => u = s BY <1>1, <1>4
    <3> QED BY <1>9, <2>1, <3>1
  <2>2. CASE x # o
    <3>1. ASSUME NEW u \in Stream, x \in Accepted(u)' PROVE x \in Accepted(u)
      <4>1. CASE u = s BY <1>4, <2>2, <3>1, <4>1
      <4>2. CASE u # s BY <1>4, <3>1, <4>2
      <4> QED BY <4>1, <4>2
    <3> QED BY <1>9, <3>1 DEF Writes
  <2> QED BY <2>1, <2>2
<1> QED BY <1>2, <1>4, <1>7, <1>8, <1>9 DEF Writes

LEMMA ResultFacts ==
  ASSUME NEW f, NEW n \in Nat, NEW k \in WriteResults(f, n)
  PROVE  k = -1 \/ k \in 0..n
  BY DEF WriteResults

LEMMA WritesWrite ==
  ASSUME Streams, Writes, NEW s \in Stream, NEW o \in Op, Write(s, o)
  PROVE  Writes'
<1>1. Unused(o) /\ written[o] = 0 BY DEF Write, Writes
<1>2. Size[o] \in Nat BY OpAssumption
<1>3. stream[s] \in StreamRec BY DEF Streams
<1>4. /\ written \in [Op -> Nat] /\ \A x \in Op : written[x] <= Size[x] BY DEF Writes
<1>5. CASE WriteRefused(s, o)
  <2>1. /\ calls' = [calls EXCEPT ![o] = @ + 1] /\ UNCHANGED <<stream, written, order>>
    BY <1>5 DEF WriteRefused, CallBack
  <2> QED BY <1>1, <1>4, <2>1, WritesNew
<1>6. CASE WriteQueued(s, o)
  <2>1. /\ order' = [order EXCEPT ![s] = Append(@, o)] /\ UNCHANGED <<calls, written>>
        /\ stream' = [stream EXCEPT ![s] = [stream[s] EXCEPT !.writes = Append(@, o), !.flags = @ \cup {"OUT"}]]
    BY <1>6 DEF WriteQueued, WriteAsync
  <2>2. /\ stream'[s].writes = Append(stream[s].writes, o)
        /\ \A t \in Stream \ {s} : stream'[t] = stream[t]
    BY <1>3, <2>1 DEF Streams, StreamRec
  <2> QED BY <1>1, <1>4, <2>1, <2>2, WritesNew
<1>7. CASE WriteDirect(s, o)
  <2>1. order' = [order EXCEPT ![s] = Append(@, o)] BY <1>7 DEF WriteDirect
  <2>2. PICK n \in WriteResults(stream[s].fd, Size[o]) :
          IF n = -1 THEN CallBack(s, o) /\ UNCHANGED <<stream, written, reg, wire>>
          ELSE /\ Send(s, o, n)
               /\ IF n = Size[o] THEN CallBack(s, o) /\ UNCHANGED <<stream, reg>> ELSE WriteAsync(s, o)
    BY <1>7 DEF WriteDirect
  <2>3. n = -1 \/ n \in 0..Size[o] BY <1>2, ResultFacts
  <2>4. /\ written' \in [Op -> Nat] /\ \A x \in Op : written'[x] <= Size[x]
        /\ \A x \in Op : x # o => written'[x] = written[x]
    <3>1. CASE n = -1 BY <1>4, <2>2, <3>1
    <3>2. CASE n # -1
      <4>1. n \in Nat /\ n <= Size[o] /\ written' = [written EXCEPT ![o] = n]
        BY <1>1, <1>2, <1>4, <2>2, <2>3, <3>2 DEF Send
      <4> QED BY <1>4, <4>1
    <3> QED BY <3>1, <3>2
  <2>5. CASE CallBack(s, o) /\ stream' = stream
    <3>1. calls' = [calls EXCEPT ![o] = @ + 1] BY <2>5 DEF CallBack
    <3> QED BY <1>1, <2>1, <2>4, <2>5, <3>1, WritesNew
  <2>6. CASE WriteAsync(s, o)
    <3>1. /\ UNCHANGED calls
          /\ stream' = [stream EXCEPT ![s] = [stream[s] EXCEPT !.writes = Append(@, o), !.flags = @ \cup {"OUT"}]]
      BY <2>6 DEF WriteAsync
    <3>2. /\ stream'[s].writes = Append(stream[s].writes, o)
          /\ \A t \in Stream \ {s} : stream'[t] = stream[t]
      BY <1>3, <3>1 DEF Streams, StreamRec
    <3> QED BY <1>1, <2>1, <2>4, <3>1, <3>2, WritesNew
  <2> QED BY <2>2, <2>5, <2>6
<1> QED BY <1>5, <1>6, <1>7 DEF Write

LEMMA WritesFlush ==
  ASSUME Streams, Calls, Writes, FlushWrite
  PROVE  Writes'
<1>1. stack # <<>> /\ stream[Top.stream].writes # <<>> /\ order' = order BY DEF FlushWrite, Runs
<1>2. PICK s \in Stream : s = Top.stream BY <1>1, TopGood
<1>3. PICK o : o = Head(stream[s].writes) OBVIOUS
<1>4. /\ stream[s].writes \in Seq(Op) /\ stream[s].writes # <<>> /\ o \in Op
  BY <1>1, <1>2, <1>3, QueueFacts
<1>5. /\ written \in [Op -> Nat] /\ \A x \in Op : written[x] <= Size[x]
      /\ Size[o] \in Nat /\ written[o] \in Nat
  BY <1>4, OpAssumption DEF Writes
<1> DEFINE rest == Size[o] - written[o]
           popped == [stream EXCEPT ![s].writes = Tail(stream[s].writes)]
<1>6. rest \in Nat BY <1>4, <1>5
<1>7. PICK n \in WriteResults(stream[s].fd, rest) :
        IF n = -1
        THEN /\ stream' = popped /\ calls' = [calls EXCEPT ![o] = @ + 1] /\ written' = written
        ELSE /\ Send(s, o, n)
             /\ IF n = rest THEN stream' = popped /\ CallBack(s, o)
                ELSE stream' = stream /\ calls' = calls
  BY <1>2, <1>3 DEF FlushWrite
<1>8. n = -1 \/ n \in 0..rest BY <1>6, ResultFacts
<1>9. /\ written' \in [Op -> Nat] /\ \A x \in Op : written'[x] <= Size[x]
      /\ \A x \in Op : x # o => written'[x] = written[x]
  <2>1. CASE n = -1 BY <1>5, <1>7, <2>1
  <2>2. CASE n # -1
    <3>1. n \in Nat /\ n + written[o] <= Size[o] BY <1>5, <1>6, <1>8, <2>2
    <3>2. written' = [written EXCEPT ![o] = @ + n] BY <1>7, <2>2 DEF Send
    <3> QED BY <1>4, <1>5, <3>1, <3>2
  <2> QED BY <2>1, <2>2
<1>10. CASE stream' = popped /\ calls' = [calls EXCEPT ![o] = @ + 1]
  BY <1>1, <1>3, <1>4, <1>9, <1>10, WritesPop
<1>11. CASE stream' = stream /\ calls' = calls
  <2>1. \A t \in Stream : Queued(t)' = Queued(t) /\ Accepted(t)' = Accepted(t)
    BY <1>1, <1>11, NextQueue DEF Queued, Accepted
  <2>2. \A t \in Stream : Queue(t)' BY <1>11, <2>1 DEF Writes, Queue, NoRepeat
  <2>3. o \in Queued(s) BY <1>3, <1>4, TailNoRepeat DEF Queued, Queue, Writes
  <2>4. o \in Accepted(s) BY <1>4, <2>3 DEF Writes, Queue
  <2>5. \A x \in Op : Unused(x)' => Unused(x) /\ x # o BY <1>11, <2>1, <2>4, UnusedFacts
  <2>6. order' \in [Stream -> Seq(Op)] /\ calls' \in [Op -> {0, 1}] BY <1>1, <1>11 DEF Writes
  <2> QED BY <1>9, <2>1, <2>2, <2>5, <2>6 DEF Writes
<1>12. (stream' = popped /\ calls' = [calls EXCEPT ![o] = @ + 1]) \/ (stream' = stream /\ calls' = calls)
  BY <1>7 DEF CallBack
<1> QED BY <1>10, <1>11, <1>12

LEMMA WritesCancel ==
  ASSUME Streams, Calls, Writes, Cancel
  PROVE  Writes'
<1>1. stack # <<>> /\ order' = order /\ written' = written BY DEF Cancel, Runs, history
<1>2. PICK s \in Stream : s = Top.stream BY <1>1, TopGood
<1>3. CASE stream[s].writes # <<>>
  <2>1. /\ stream' = [stream EXCEPT ![s].writes = Tail(stream[s].writes)]
        /\ calls' = [calls EXCEPT ![Head(stream[s].writes)] = @ + 1]
    BY <1>2, <1>3 DEF Cancel, CallBack
  <2> QED BY <1>1, <1>3, <2>1, WritesPop DEF Writes
<1>4. CASE stream[s].writes = <<>> BY <1>1, <1>2, <1>4, WritesSame DEF Cancel
<1> QED BY <1>3, <1>4

LEMMA WritesCb ==
  ASSUME Streams, Calls, Closing, Writes, CloseCb
  PROVE  Writes'
<1>1. PICK s \in Stream :
        /\ s = Head(pending_closes) /\ stream[s].writes = <<>> /\ stream'[s] = Fresh
        /\ \A t \in Stream \ {s} : stream'[t] = stream[t]
  BY CloseCbStep
<1>2. order' = [order EXCEPT ![s] = <<>>] /\ calls' = calls /\ written' = written
  BY <1>1 DEF CloseCb, opVars
<1>3. /\ order' \in [Stream -> Seq(Op)] /\ order'[s] = <<>>
      /\ \A t \in Stream \ {s} : order'[t] = order[t]
  BY <1>2 DEF Writes
<1>4. \A t \in Stream : stream'[t].writes = stream[t].writes BY <1>1 DEF Fresh
<1>5. Range(<<>>) = {} BY DEF Range
<1>6. /\ Queued(s) = {} /\ \A t \in Stream : Queued(t)' = Queued(t)
      /\ Accepted(s)' = {} /\ \A t \in Stream \ {s} : Accepted(t)' = Accepted(t)
  BY <1>1, <1>3, <1>4, <1>5, NextQueue DEF Queued, Accepted
<1>7. \A o \in Op : o \in Accepted(s) => calls[o] # 0 BY <1>6 DEF Writes, Queue
<1>8. ASSUME NEW t \in Stream PROVE Queue(t)'
  <2>1. NoRepeat(stream[t].writes)' BY <1>4 DEF Writes, Queue, NoRepeat
  <2>2. Queue(t) BY DEF Writes
  <2>3. CASE t = s BY <2>1, <2>3, <1>6 DEF Queue
  <2>4. CASE t # s BY <1>2, <1>6, <2>1, <2>2, <2>4 DEF Queue
  <2> QED BY <2>3, <2>4
<1>9. ASSUME NEW o \in Op, Unused(o)' PROVE written'[o] = 0
  <2>1. calls[o] = 0 /\ \A t \in Stream : o \notin Accepted(t)'
    BY <1>2, <1>9, UnusedFacts
  <2>2. \A t \in Stream : o \notin Accepted(t) BY <1>6, <1>7, <2>1
  <2>3. Unused(o) BY <2>1, <2>2, UnusedFacts
  <2> QED BY <1>2, <2>3 DEF Writes
<1>10. ASSUME NEW p \in Stream, NEW t \in Stream, NEW o \in Op,
              o \in Accepted(p)', o \in Accepted(t)'
       PROVE  p = t
  <2>1. p # s /\ t # s BY <1>6, <1>10
  <2>2. o \in Accepted(p) /\ o \in Accepted(t) BY <1>6, <1>10, <2>1
  <2> QED BY <2>2 DEF Writes
<1> QED BY <1>2, <1>3, <1>8, <1>9, <1>10 DEF Writes

(* No other step touches a queue, or sends anything. *)
LEMMA QueuesSame ==
  ASSUME Core,
         \/ \E s \in Stream : Masking(s)
         \/ \E s \in Stream : Connect(s) \/ Accept(s) \/ Shutdown(s) \/ Close(s)
         \/ MoveOn \/ Poll \/ Network \/ Dispatch \/ CloseReturn \/ Return \/ Read \/ Eof
         \/ AfterRead \/ FlushDone \/ UNCHANGED vars
  PROVE  /\ UNCHANGED <<written, calls, history>>
         /\ \A s \in Stream : stream'[s].writes = stream[s].writes
<1>1. \A s \in Stream : stream[s] \in StreamRec /\ Fresh.writes = <<>>
  BY DEF Core, Streams, Fresh
<1>2. CASE \E s \in Stream : Masking(s)
  <2>1. PICK s \in Stream, flags \in Masks : SetFlags(s, flags) BY <1>2 DEF Masking
  <2>2. stream' = [stream EXCEPT ![s] = [stream[s] EXCEPT !.flags = flags]] BY <2>1 DEF SetFlags
  <2> QED BY <2>1, <2>2, <1>1 DEF SetFlags, opVars, history, Core, Streams, StreamRec
<1>3. ASSUME NEW s \in Stream, Connect(s) \/ Accept(s)
      PROVE  /\ UNCHANGED <<written, calls, history>>
             /\ \A t \in Stream : stream'[t].writes = stream[t].writes
  <2>1. stream[s] = Fresh /\ UNCHANGED <<written, calls, history>>
    BY <1>3 DEF Connect, Accept, AcceptOver, Register, opVars, history
  <2>2. PICK f \in Fd :
          \/ stream' = [stream EXCEPT ![s] = [Fresh EXCEPT !.fd = f, !.handler = "connect",
                                                           !.flags = {"IN", "OUT"}]]
          \/ stream' = [stream EXCEPT ![s] = [Fresh EXCEPT !.fd = f, !.handler = "client",
                                                           !.flags = {"IN"}, !.status = "ACTIVE"]]
    <3>1. CASE Connect(s)
      <4>1. PICK f \in FreeFd :
              stream' = [stream EXCEPT ![s] = [stream[s] EXCEPT !.fd = f, !.handler = "connect",
                                                                !.flags = {"IN", "OUT"}]]
        BY <3>1 DEF Connect, Register
      <4> QED BY <4>1, <2>1 DEF FreeFd
    <3>2. CASE Accept(s) BY <3>2 DEF Accept, AcceptOver, LowestFree, FreeFd, Register
    <3> QED BY <1>3, <3>1, <3>2
  <2>3. stream'[s].writes = <<>> /\ \A t \in Stream \ {s} : stream'[t] = stream[t]
    BY <2>2 DEF Core, Streams, Fresh
  <2> QED BY <2>1, <2>3, <1>1
<1>4. ASSUME NEW s \in Stream, Shutdown(s)
      PROVE  /\ UNCHANGED <<written, calls, history>>
             /\ \A t \in Stream : stream'[t].writes = stream[t].writes
  <2> DEFINE r == [stream[s] EXCEPT !.status = "SHUTDOWN"]
             w == [r EXCEPT !.flags = @ \cup {"OUT"}]
  <2>1. stream' = [stream EXCEPT ![s] = r] \/ stream' = [stream EXCEPT ![s] = w]
    BY <1>4 DEF Shutdown
  <2>2. r.writes = stream[s].writes /\ w.writes = stream[s].writes BY <1>1 DEF StreamRec
  <2> HIDE DEF r, w
  <2>3. \A t \in Stream : stream'[t].writes = stream[t].writes BY <2>1, <2>2 DEF Core, Streams
  <2> QED BY <1>4, <2>3 DEF Shutdown, opVars, history
<1>5. ASSUME NEW s \in Stream, NEW rest, CloseOver(s, rest)
      PROVE  /\ UNCHANGED <<written, calls, history>>
             /\ \A t \in Stream : stream'[t].writes = stream[t].writes
  <2>1. stream' = stream \/ stream' = [stream EXCEPT ![s].status = "CLOSED"]
    BY <1>5 DEF CloseOver
  <2>2. [stream[s] EXCEPT !.status = "CLOSED"].writes = stream[s].writes
    BY <1>1 DEF StreamRec
  <2>3. \A t \in Stream : stream'[t].writes = stream[t].writes
    BY <2>1, <2>2 DEF Core, Streams
  <2> QED BY <1>5, <2>3 DEF CloseOver, opVars, history
<1>6. CASE Dispatch
  <2>1. PICK e \in batch :
          /\ batch' = batch \ {e}
          /\ IF stream[e.stream].handler = "connect" THEN ConnectIo(e.stream, e.events)
             ELSE stack' = Call(e.stream, e.events) /\ UNCHANGED <<stream, reg>>
    BY <1>6 DEF Dispatch
  <2>2. PICK s \in Stream : s = e.stream
    <3>1. e \in EventRec BY DEF Core, Calls
    <3> QED BY <3>1 DEF EventRec
  <2> DEFINE r == [stream[s] EXCEPT !.status = "ACTIVE", !.handler = "client", !.flags = @ \ {"OUT"}]
  <2>3. stream' = stream \/ stream' = [stream EXCEPT ![s] = r] BY <2>1, <2>2 DEF ConnectIo
  <2>4. r.writes = stream[s].writes BY <1>1 DEF StreamRec
  <2> HIDE DEF r
  <2>5. \A t \in Stream : stream'[t].writes = stream[t].writes BY <2>3, <2>4 DEF Core, Streams
  <2> QED BY <1>6, <2>5 DEF Dispatch, opVars, history
<1>7. CASE FlushDone
  <2>1. PICK s \in Stream : s = Top.stream BY <1>7, TopGood DEF FlushDone, Runs, Core
  <2>2. stream' = [stream EXCEPT ![s] = [stream[s] EXCEPT !.flags = @ \ {"OUT"}]]
    BY <1>7, <2>1 DEF FlushDone
  <2>3. \A t \in Stream : stream'[t].writes = stream[t].writes
    BY <1>1, <2>2 DEF Core, Streams, StreamRec
  <2> QED BY <1>7, <2>3 DEF FlushDone, opVars, history
<1>8. CASE Eof \/ AfterRead
  <2>1. PICK s \in Stream : s = Top.stream BY <1>8, TopGood DEF Eof, AfterRead, Runs, Core
  <2>2. CASE CloseOver(s, Under) BY <2>2, <1>5
  <2>3. CASE UNCHANGED <<stream, opVars, history>> BY <2>3 DEF opVars, history
  <2> QED BY <1>8, <2>1, <2>2, <2>3 DEF Eof, AfterRead
<1>9. CASE MoveOn \/ Poll \/ Network \/ CloseReturn \/ Return \/ Read \/ UNCHANGED vars
  BY <1>9 DEF MoveOn, Moves, Go, Poll, Network, CloseReturn, Return, Read, vars, opVars, history
<1>10. ASSUME NEW s \in Stream, Close(s)
       PROVE  /\ UNCHANGED <<written, calls, history>>
              /\ \A t \in Stream : stream'[t].writes = stream[t].writes
  BY <1>5, <1>10 DEF Close
<1> QED BY <1>2, <1>3, <1>4, <1>6, <1>7, <1>8, <1>9, <1>10

LEMMA WritesMoves ==
  ASSUME Core, Writes, (\E s \in Stream : Program(s)) \/ Loop \/ UNCHANGED vars
  PROVE  Writes'
<1>1. ASSUME NEW s \in Stream, Program(s) PROVE Writes'
  <2>1. CASE \E o \in Op : Write(s, o) BY <2>1, WritesWrite DEF Core
  <2>2. CASE ~\E o \in Op : Write(s, o)
    <3>1. /\ UNCHANGED <<written, calls, history>>
          /\ \A t \in Stream : stream'[t].writes = stream[t].writes
      BY <1>1, <2>2, QueuesSame DEF Program
    <3> QED BY <3>1, WritesSame DEF history
  <2> QED BY <2>1, <2>2
<1>2. CASE Loop
  <2>1. CASE Cancel \/ FlushWrite \/ CloseCb
    BY <2>1, WritesCancel, WritesFlush, WritesCb DEF Core
  <2>2. CASE ~(Cancel \/ FlushWrite \/ CloseCb)
    <3>1. /\ UNCHANGED <<written, calls, history>>
          /\ \A t \in Stream : stream'[t].writes = stream[t].writes
      BY <1>2, <2>2, QueuesSame DEF Loop
    <3> QED BY <3>1, WritesSame DEF history
  <2> QED BY <2>1, <2>2
<1>3. CASE UNCHANGED vars
  <2>1. /\ UNCHANGED <<written, calls, history>>
        /\ \A t \in Stream : stream'[t].writes = stream[t].writes
    BY <1>3, QueuesSame
  <2> QED BY <2>1, WritesSame DEF history
<1> QED BY <1>1, <1>2, <1>3

LEMMA WritesStep ==
  ASSUME Core, Writes, [Next]_vars
  PROVE  Writes'
  BY StepCases, WritesMoves DEF Core

LEMMA WritesInit == Init => Writes
<1> SUFFICES ASSUME Init PROVE Writes OBVIOUS
<1>1. \A s \in Stream : stream[s].writes = <<>> /\ order[s] = <<>> BY DEF Init, Fresh
<1>2. Range(<<>>) = {} BY DEF Range
<1>3. \A s \in Stream : Queued(s) = {} /\ Accepted(s) = {} BY <1>1, <1>2 DEF Queued, Accepted
<1>4. \A s \in Stream : Queue(s) BY <1>1, <1>3 DEF Queue, NoRepeat
<1>5. /\ written \in [Op -> Nat] /\ calls \in [Op -> {0, 1}] /\ order \in [Stream -> Seq(Op)]
      /\ \A o \in Op : written[o] = 0
  BY DEF Init
<1>6. \A o \in Op : Size[o] \in Nat BY OpAssumption
<1> QED BY <1>3, <1>4, <1>5, <1>6 DEF Writes

LEMMA WritesAlways ==
  ASSUME Careful
  PROVE  Spec => []Writes
<1>1. Init => Writes BY WritesInit
<1>2. Core /\ Writes /\ [Next]_vars => Writes' BY WritesStep
<1> QED BY <1>1, <1>2, CoreAlways, PTL DEF Spec

LEMMA OnceIn ==
  ASSUME NEW q, NoRepeat(q), NEW x
  PROVE  Cardinality({i \in DOMAIN q : q[i] = x}) = IF x \in Range(q) THEN 1 ELSE 0
<1>1. CASE x \in Range(q)
  <2>1. PICK i \in DOMAIN q : q[i] = x BY <1>1 DEF Range
  <2>2. {j \in DOMAIN q : q[j] = x} = {i} BY <2>1 DEF NoRepeat
  <2>3. Cardinality({i}) = 1 BY FS_Singleton
  <2> QED BY <1>1, <2>2, <2>3
<1>2. CASE x \notin Range(q)
  <2>1. {j \in DOMAIN q : q[j] = x} = {} BY <1>2 DEF Range
  <2>2. Cardinality({}) = 0 BY FS_EmptySet
  <2> QED BY <1>2, <2>1, <2>2
<1> QED BY <1>1, <1>2

LEMMA EachOnce == Core /\ Writes => EachWriteOnce
<1> SUFFICES ASSUME Core, Writes PROVE EachWriteOnce OBVIOUS
<1>1. ASSUME NEW s \in Stream, NEW o \in Range(order[s])
      PROVE  Cardinality({i \in DOMAIN stream[s].writes : stream[s].writes[i] = o}) + calls[o] = 1
  <2>1. o \in Op /\ o \in Accepted(s) /\ Queue(s)
    BY QueueFacts DEF Core, Accepted, Writes
  <2>2. calls[o] \in {0, 1} BY <2>1 DEF Writes
  <2>3. o \in Range(stream[s].writes) <=> calls[o] = 0 BY <2>1 DEF Queue, Queued
  <2>4. Cardinality({i \in DOMAIN stream[s].writes : stream[s].writes[i] = o}) =
          IF o \in Range(stream[s].writes) THEN 1 ELSE 0
    BY <2>1, OnceIn DEF Queue
  <2> QED BY <2>2, <2>3, <2>4
<1>2. \A o \in Op : calls[o] <= 1 BY DEF Writes
<1> QED BY <1>1, <1>2 DEF EachWriteOnce

(* Each write of pd_tcp_write has one callback, whatever becomes of it. *)
THEOREM TcpEachWriteOnce ==
  ASSUME Careful
  PROVE  Spec => []EachWriteOnce
<1>1. Core /\ Writes => EachWriteOnce BY EachOnce
<1> QED BY <1>1, CoreAlways, WritesAlways, PTL

LEMMA ClosedOnce == Core => ClosingOnce
<1> SUFFICES ASSUME Core, NEW s \in Stream
             PROVE  /\ stream[s].status = "CLOSED" /\ ~Inside("cancel", s) <=> s \in Range(pending_closes)
                    /\ s \in Range(pending_closes) => stream[s].writes = <<>>
                    /\ Cardinality({i \in DOMAIN pending_closes : pending_closes[i] = s}) <= 1
  BY DEF ClosingOnce
<1>1. Cardinality({i \in DOMAIN pending_closes : pending_closes[i] = s}) =
        IF s \in Range(pending_closes) THEN 1 ELSE 0
  BY OnceIn DEF Core, Closing
<1> QED BY <1>1 DEF Core, Closing

(* pd_tcp_close leaves a stream in pending_closes once, after the last of its
   writes, however many times it was called meanwhile. *)
THEOREM TcpClosingOnce ==
  ASSUME Careful
  PROVE  Spec => []ClosingOnce
<1>1. Core => ClosingOnce BY ClosedOnce
<1> QED BY <1>1, CoreAlways, PTL

LEMMA OwnerReached == Core => EventsReachOwner
  BY DEF Core, Streams, Watched, EventsReachOwner

(* epoll gives the events of a descriptor to the stream that has it now, though
   the number was another stream's before. *)
THEOREM TcpEventsReachOwner ==
  ASSUME Careful
  PROVE  Spec => []EventsReachOwner
<1>1. Core => EventsReachOwner BY OwnerReached
<1> QED BY <1>1, CoreAlways, PTL

-----------------------------------------------------------------------------
(* What a stream waits for. *)

Armed(s) ==
  /\ stream[s].status = "NONE" => stream[s].writes = <<>>
  /\ stream[s].status # "CLOSED" /\ stream[s].writes # <<>> => "OUT" \in stream[s].flags

AllArmed == \A s \in Stream : Armed(s)

LEMMA ArmedUpdate ==
  ASSUME Core, AllArmed, NEW s \in Stream, NEW r, stream' = [stream EXCEPT ![s] = r],
         r.status = "NONE" => r.writes = <<>>,
         r.status # "CLOSED" /\ r.writes # <<>> => "OUT" \in r.flags
  PROVE  AllArmed'
<1>1. stream'[s] = r /\ \A t \in Stream \ {s} : stream'[t] = stream[t]
  BY DEF Core, Streams
<1> QED BY <1>1 DEF AllArmed, Armed

LEMMA ArmedSame ==
  ASSUME AllArmed, stream' = stream
  PROVE  AllArmed'
  BY DEF AllArmed, Armed

LEMMA ArmedProgram ==
  ASSUME Core, AllArmed, NEW s \in Stream, Program(s)
  PROVE  AllArmed'
<1>1. stream[s] \in StreamRec /\ Armed(s) BY DEF Core, Streams, AllArmed
<1>2. CASE Masking(s)
  <2>1. PICK flags \in Masks : SetFlags(s, flags) /\ ("OUT" \in stream[s].flags => "OUT" \in flags)
    BY <1>2 DEF Masking
  <2> DEFINE r == [stream[s] EXCEPT !.flags = flags]
  <2>2. r.status = stream[s].status /\ r.writes = stream[s].writes /\ r.flags = flags
    BY <1>1 DEF StreamRec
  <2>3. stream' = [stream EXCEPT ![s] = r] BY <2>1 DEF SetFlags
  <2> HIDE DEF r
  <2> QED BY <1>1, <2>1, <2>2, <2>3, ArmedUpdate DEF Armed
<1>3. CASE Connect(s)
  <2>1. PICK f \in FreeFd :
          stream' = [stream EXCEPT ![s] = [stream[s] EXCEPT !.fd = f, !.handler = "connect",
                                                            !.flags = {"IN", "OUT"}]]
    BY <1>3 DEF Connect, Register
  <2> DEFINE r == [stream[s] EXCEPT !.fd = f, !.handler = "connect", !.flags = {"IN", "OUT"}]
  <2>2. stream[s].writes = <<>> BY <1>3 DEF Connect, Fresh
  <2>3. r.writes = <<>> BY <1>1, <2>2 DEF StreamRec
  <2> HIDE DEF r
  <2> QED BY <2>1, <2>3, ArmedUpdate DEF r
<1>4. CASE Accept(s)
  <2>1. PICK f \in FreeFd :
          stream' = [stream EXCEPT ![s] = [Fresh EXCEPT !.fd = f, !.handler = "client",
                                                        !.flags = {"IN"}, !.status = "ACTIVE"]]
    BY <1>4 DEF Accept, AcceptOver, LowestFree, Register
  <2> DEFINE r == [Fresh EXCEPT !.fd = f, !.handler = "client", !.flags = {"IN"}, !.status = "ACTIVE"]
  <2>2. r.writes = <<>> BY DEF Fresh
  <2> HIDE DEF r
  <2> QED BY <2>1, <2>2, ArmedUpdate DEF r
<1>5. CASE Shutdown(s)
  <2> DEFINE r == [stream[s] EXCEPT !.status = "SHUTDOWN"]
             w == [r EXCEPT !.flags = @ \cup {"OUT"}]
  <2>1. \/ stream[s].writes = <<>> /\ stream' = [stream EXCEPT ![s] = r]
        \/ stream' = [stream EXCEPT ![s] = w]
    <3>1. r.writes = stream[s].writes BY <1>1 DEF StreamRec
    <3> QED BY <3>1, <1>5 DEF Shutdown
  <2>2. r.writes = stream[s].writes /\ r.status = "SHUTDOWN" /\ w.status = "SHUTDOWN" /\ "OUT" \in w.flags
    BY <1>1 DEF StreamRec
  <2> HIDE DEF r, w
  <2> QED BY <2>1, <2>2, ArmedUpdate
<1>6. ASSUME NEW o, stream' = [stream EXCEPT ![s] = [stream[s] EXCEPT !.writes = Append(@, o),
                                                                     !.flags = @ \cup {"OUT"}]],
             stream[s].status = "ACTIVE"
      PROVE  AllArmed'
  <2> DEFINE r == [stream[s] EXCEPT !.writes = Append(@, o), !.flags = @ \cup {"OUT"}]
  <2>1. r.status = "ACTIVE" /\ "OUT" \in r.flags BY <1>1, <1>6 DEF StreamRec
  <2>2. stream' = [stream EXCEPT ![s] = r] BY <1>6
  <2> HIDE DEF r
  <2> QED BY <2>1, <2>2, ArmedUpdate
<1>7. CASE \E o \in Op : Write(s, o)
  <2>1. PICK o \in Op : Write(s, o) BY <1>7
  <2>2. \/ stream' = stream
        \/ /\ stream' = [stream EXCEPT ![s] = [stream[s] EXCEPT !.writes = Append(@, o),
                                                                 !.flags = @ \cup {"OUT"}]]
           /\ stream[s].status = "ACTIVE"
    BY <2>1 DEF Write, WriteRefused, WriteDirect, WriteQueued, WriteAsync
  <2> QED BY <2>2, <1>6, ArmedSame
<1>8. CASE Close(s)
  <2>1. stream' = stream \/ stream' = [stream EXCEPT ![s] = [stream[s] EXCEPT !.status = "CLOSED"]]
    BY <1>8 DEF Close, CloseOver
  <2>2. [stream[s] EXCEPT !.status = "CLOSED"].status = "CLOSED" BY <1>1 DEF StreamRec
  <2> QED BY <2>1, <2>2, ArmedSame, ArmedUpdate
<1> QED BY <1>2, <1>3, <1>4, <1>5, <1>7, <1>8 DEF Program

LEMMA ArmedLoop ==
  ASSUME Core, AllArmed, Loop
  PROVE  AllArmed'
<1>1. \A s \in Stream : stream[s] \in StreamRec /\ Armed(s) /\ Attached(s)
  BY DEF Core, Streams, AllArmed
<1>2. CASE MoveOn \/ Poll \/ Network \/ CloseReturn \/ Return \/ Read
  BY <1>2, ArmedSame DEF MoveOn, Moves, Go, Poll, Network, CloseReturn, Return, Read
<1>3. CASE Dispatch
  <2>1. PICK e \in batch :
          /\ batch' = batch \ {e}
          /\ IF stream[e.stream].handler = "connect" THEN ConnectIo(e.stream, e.events)
             ELSE stack' = Call(e.stream, e.events) /\ UNCHANGED <<stream, reg>>
    BY <1>3 DEF Dispatch
  <2>2. PICK s \in Stream : s = e.stream
    <3>1. e \in EventRec BY DEF Core, Calls
    <3> QED BY <3>1 DEF EventRec
  <2> DEFINE r == [stream[s] EXCEPT !.status = "ACTIVE", !.handler = "client", !.flags = @ \ {"OUT"}]
  <2>3. \/ stream' = stream
        \/ /\ stream' = [stream EXCEPT ![s] = r] /\ stream[s].handler = "connect"
           /\ stream[s].status # "CLOSED"
    BY <2>1, <2>2 DEF ConnectIo
  <2>4. r.writes = stream[s].writes /\ r.status = "ACTIVE" BY <1>1 DEF StreamRec
  <2>5. stream[s].handler = "connect" /\ stream[s].status # "CLOSED" => stream[s].writes = <<>>
    BY <1>1 DEF Attached, Armed
  <2> HIDE DEF r
  <2> QED BY <2>3, <2>4, <2>5, ArmedSame, ArmedUpdate
<1>4. CASE CloseCb
  <2>1. PICK s \in Stream : stream' = [stream EXCEPT ![s] = Fresh]
    BY <1>4, CloseCbStep DEF Core
  <2>2. Fresh.writes = <<>> BY DEF Fresh
  <2> QED BY <2>1, <2>2, ArmedUpdate
<1>5. CASE Cancel \/ FlushWrite
  <2>1. PICK s \in Stream : s = Top.stream BY <1>5, TopGood DEF Cancel, FlushWrite, Runs, Core
  <2> DEFINE r == [stream[s] EXCEPT !.writes = Tail(stream[s].writes)]
  <2>2. stream' = stream \/ (stream[s].writes # <<>> /\ stream' = [stream EXCEPT ![s] = r])
    BY <1>5, <2>1 DEF Cancel, FlushWrite
  <2>3. r.status = stream[s].status /\ r.flags = stream[s].flags BY <1>1 DEF StreamRec
  <2>4. Armed(s) BY <1>1
  <2> HIDE DEF r
  <2> QED BY <2>2, <2>3, <2>4, ArmedSame, ArmedUpdate DEF Armed
<1>6. CASE FlushDone
  <2>1. PICK s \in Stream : s = Top.stream BY <1>6, TopGood DEF FlushDone, Runs, Core
  <2> DEFINE r == [stream[s] EXCEPT !.flags = @ \ {"OUT"}]
  <2>2. stream[s].writes = <<>> /\ stream' = [stream EXCEPT ![s] = r] BY <1>6, <2>1 DEF FlushDone
  <2>3. r.writes = stream[s].writes BY <1>1 DEF StreamRec
  <2> HIDE DEF r
  <2> QED BY <2>2, <2>3, ArmedUpdate
<1>7. CASE Eof \/ AfterRead
  <2>1. PICK s \in Stream : s = Top.stream BY <1>7, TopGood DEF Eof, AfterRead, Runs, Core
  <2>2. stream' = stream \/ stream' = [stream EXCEPT ![s] = [stream[s] EXCEPT !.status = "CLOSED"]]
    BY <1>7, <2>1 DEF Eof, AfterRead, CloseOver
  <2>3. [stream[s] EXCEPT !.status = "CLOSED"].status = "CLOSED" BY <1>1 DEF StreamRec
  <2> QED BY <2>2, <2>3, ArmedSame, ArmedUpdate
<1> QED BY <1>2, <1>3, <1>4, <1>5, <1>6, <1>7 DEF Loop

(* A stream with queued writes waits for room: its EPOLLOUT is asked for. *)
THEOREM TcpWritesArmed ==
  ASSUME Careful
  PROVE  Spec => []WritesArmed
<1>1. Init => AllArmed BY DEF Init, AllArmed, Armed, Fresh
<1>2. Core /\ AllArmed /\ [Next]_vars => AllArmed'
  <2> SUFFICES ASSUME Core, AllArmed, [Next]_vars PROVE AllArmed' OBVIOUS
  <2>1. CASE UNCHANGED vars BY <2>1, ArmedSame DEF vars
  <2> QED BY <2>1, StepCases, ArmedProgram, ArmedLoop DEF Core
<1>3. AllArmed => WritesArmed BY DEF AllArmed, Armed, WritesArmed
<1> QED BY <1>1, <1>2, <1>3, CoreAlways, PTL DEF Spec

-----------------------------------------------------------------------------
(* The end of a stream that was shut down. *)

Ended(f) == conn[f].shut \/ conn[f].rst

(* A connection does not forget that it was shut down or reset. *)
EndedKept ==
  \A f \in Fd :
    Open(f) /\ Open(f)' => (conn[f].shut => conn'[f].shut) /\ (conn[f].rst => conn'[f].rst)

EndSent(s) ==
  stream[s].status = "SHUTDOWN" /\ stream[s].writes = <<>> /\ ~Inside("flush", s) =>
    Ended(stream[s].fd)

AllEndsSent == \A s \in Stream : EndSent(s)

LEMMA EndedClose ==
  ASSUME Core, NEW s \in Stream, Opened(s), NEW rest, CloseOver(s, rest)
  PROVE  EndedKept
<1>1. CASE stream[s].status = "CLOSED" BY <1>1 DEF CloseOver, sysVars, EndedKept
<1>2. CASE stream[s].status # "CLOSED"
  <2>1. conn' = [f \in Fd |-> IF f = stream[s].fd THEN NoConn ELSE conn[f]]
    BY <1>2 DEF CloseOver
  <2> QED BY <2>1 DEF EndedKept, Open, NoConn
<1> QED BY <1>1, <1>2

LEMMA EndedLoop ==
  ASSUME Core, Loop
  PROVE  EndedKept
<1>1. CASE MoveOn \/ Poll \/ Dispatch \/ CloseCb \/ CloseReturn \/ Return \/ Cancel \/ FlushWrite
  <2>1. conn' = conn
    BY <1>1 DEF MoveOn, Moves, Go, Poll, Dispatch, CloseCb, CloseReturn, Return, Cancel, FlushWrite,
                sysVars
  <2> QED BY <2>1 DEF EndedKept
<1>2. CASE Network
  <2>1. PICK f \in Fd : Established(f) \/ PeerSend(f) \/ PeerFin(f) \/ Reset(f)
    BY <1>2 DEF Network
  <2>2. conn[f] \in ConnRec BY DEF Core, Streams
  <2>3. /\ \A g \in Fd \ {f} : conn'[g] = conn[g]
        /\ conn[f].shut => conn'[f].shut
        /\ conn[f].rst => conn'[f].rst
    BY <2>1, <2>2 DEF Established, PeerSend, PeerFin, Reset, Core, Streams, ConnRec
  <2> QED BY <2>3 DEF EndedKept
<1>3. CASE Read \/ FlushDone
  <2>1. PICK s \in Stream : s = Top.stream
    BY <1>3, TopGood DEF Read, FlushDone, Runs, Core
  <2>2. stream[s] \in StreamRec BY DEF Core, Streams
  <2>3. PICK f : f = stream[s].fd OBVIOUS
  <2>4. \/ conn' = conn
        \/ conn' = [conn EXCEPT ![f].in = @ - 1]
        \/ conn' = [conn EXCEPT ![f].shut = TRUE]
    BY <1>3, <2>1, <2>2, <2>3 DEF Read, FlushDone, StreamRec
  <2>5. \A g \in Fd : (conn[g].shut => conn'[g].shut) /\ (conn[g].rst => conn'[g].rst)
    BY <2>4 DEF Core, Streams, ConnRec
  <2> QED BY <2>5 DEF EndedKept
<1>4. CASE Eof \/ AfterRead
  <2>1. PICK s \in Stream : s = Top.stream /\ Opened(s)
    BY <1>4, TopGood DEF Eof, AfterRead, Runs, Core
  <2>2. CASE CloseOver(s, Under) BY <2>1, <2>2, EndedClose
  <2>3. CASE conn' = conn BY <2>3 DEF EndedKept
  <2> QED BY <1>4, <2>1, <2>2, <2>3 DEF Eof, AfterRead, sysVars
<1> QED BY <1>1, <1>2, <1>3, <1>4 DEF Loop

LEMMA EndedProgram ==
  ASSUME Careful, Core, NEW s \in Stream, Program(s)
  PROVE  EndedKept
<1>1. CASE Masking(s) \/ \E o \in Op : Write(s, o)
  BY <1>1 DEF Masking, SetFlags, Write, EndedKept
<1>2. CASE Connect(s) \/ Accept(s)
  <2>1. PICK f \in FreeFd : \E c : conn' = [conn EXCEPT ![f] = c]
    BY <1>2 DEF Connect, Accept, AcceptOver, LowestFree, Register
  <2>2. PICK c : conn' = [conn EXCEPT ![f] = c] BY <2>1
  <2> QED BY <2>2 DEF EndedKept, FreeFd, Core, Streams
<1>3. CASE Shutdown(s)
  <2>1. stream[s] \in StreamRec BY DEF Core, Streams
  <2>2. [stream[s] EXCEPT !.status = "SHUTDOWN"].fd = stream[s].fd BY <2>1 DEF StreamRec
  <2>3. conn' = conn \/ conn' = [conn EXCEPT ![stream[s].fd].shut = TRUE]
    BY <1>3, <2>2 DEF Shutdown
  <2>4. \A g \in Fd : (conn[g].shut => conn'[g].shut) /\ (conn[g].rst => conn'[g].rst)
    BY <2>3 DEF Core, Streams, ConnRec
  <2> QED BY <2>4 DEF EndedKept
<1>4. CASE Close(s)
  <2>1. Opened(s) /\ CloseOver(s, stack) BY <1>4 DEF Close, Careful, Allowed, Opened
  <2> QED BY <2>1, EndedClose
<1> QED BY <1>1, <1>2, <1>3, <1>4 DEF Program

(* The write of the first call goes on while there are calls above it. *)
LEMMA FlushStays ==
  ASSUME Calls, NEW s, Inside("flush", s), stack' \in Seq(FrameRec),
         \/ Keeps(Len(stack))
         \/ Keeps(Len(stack) - 1) /\ Top.fn # "flush"
  PROVE  Inside("flush", s)'
<1>1. PICK i \in 1..Len(stack) : stack[i].fn = "flush" /\ stack[i].stream = s
  BY DEF Inside, Calls
<1>2. i = 1 /\ Len(stack) \in Nat \ {0} BY <1>1 DEF Calls, Good
<1>3. Len(stack) = 1 => Top.fn = "flush" BY <1>1, <1>2 DEF Top
<1>4. PICK k \in Nat \ {0} : Keeps(k)
  <2>1. Len(stack) - 1 \in Nat /\ (Len(stack) # 1 => Len(stack) - 1 # 0) BY <1>2
  <2> QED BY <1>2, <1>3, <2>1
<1>5. stack'[1] = stack[1] /\ Len(stack') \in Nat \ {0} BY <1>4 DEF Keeps
<1>6. 1 \in DOMAIN stack' BY <1>5
<1> QED BY <1>1, <1>2, <1>5, <1>6 DEF Inside

(* A step that leaves a stream that was shut down alone. *)
LEMMA EndSentSame ==
  ASSUME Core, Core', AllEndsSent, EndedKept, NEW s \in Stream,
         stream'[s].status = stream[s].status, stream'[s].writes = stream[s].writes,
         stream'[s].fd = stream[s].fd, Inside("flush", s) => Inside("flush", s)'
  PROVE  EndSent(s)'
<1> SUFFICES ASSUME stream'[s].status = "SHUTDOWN", stream'[s].writes = <<>>, ~Inside("flush", s)'
             PROVE  Ended(stream[s].fd)'
  BY DEF EndSent
<1>1. PICK f : f = stream[s].fd OBVIOUS
<1>2. conn[f].shut \/ conn[f].rst BY <1>1 DEF AllEndsSent, EndSent, Ended
<1>3. Live(s) /\ Live(s)' BY DEF Core, Streams, Attached, Live, Opened, Fresh
<1>4. f \in Fd /\ Open(f) BY <1>1, <1>3, LiveFacts DEF Core
<1>5. conn'[f].owner = s BY <1>1, <1>3 DEF Core, Streams, Attached
<1>6. Open(f)' BY <1>5, StreamAssumption DEF Open
<1>7. conn'[f].shut \/ conn'[f].rst BY <1>2, <1>4, <1>6 DEF EndedKept
<1> QED BY <1>1, <1>7 DEF Ended

LEMMA FlushPush ==
  ASSUME Calls, NEW t, NEW s \in Stream, NEW fn \in {"user", "cancel"},
         \/ stack' \in {stack, Append(stack, Frame(fn, s))}
         \/ stack # <<>> /\ Top.fn # "flush" /\ stack' \in {Under, Append(Under, Frame(fn, s))}
  PROVE  Inside("flush", t) => Inside("flush", t)'
<1>1. Frame(fn, s) \in FrameRec /\ stack \in Seq(FrameRec) BY FrameType DEF Calls
<1>2. CASE stack' = stack BY <1>2 DEF Inside
<1>3. CASE stack' = Append(stack, Frame(fn, s)) BY <1>1, <1>3, PushFacts, FlushStays
<1>4. CASE stack # <<>> /\ Top.fn # "flush" /\ stack' = Under
  BY <1>1, <1>4, PopFacts, FlushStays
<1>5. CASE stack # <<>> /\ Top.fn # "flush" /\ stack' = Append(Under, Frame(fn, s))
  BY <1>1, <1>5, SwapFacts, FlushStays
<1> QED BY <1>2, <1>3, <1>4, <1>5

(* The other streams, when a step changes s alone. *)
LEMMA EndSentOthers ==
  ASSUME Core, Core', AllEndsSent, EndedKept, NEW s \in Stream,
         \A t \in Stream \ {s} : stream'[t] = stream[t],
         \A t \in Stream \ {s} : Inside("flush", t) => Inside("flush", t)',
         EndSent(s)'
  PROVE  AllEndsSent'
<1>1. ASSUME NEW t \in Stream \ {s} PROVE EndSent(t)' BY <1>1, EndSentSame
<1>2. \A t \in Stream : EndSent(t)' BY <1>1
<1> QED BY <1>2 DEF AllEndsSent

LEMMA EndSentProgram ==
  ASSUME Careful, Core, Core', AllEndsSent, NEW s \in Stream, Program(s)
  PROVE  AllEndsSent'
<1>1. EndedKept /\ stream[s] \in StreamRec /\ Fresh.status = "NONE"
  BY EndedProgram DEF Core, Streams, Fresh
<1>2. \A t \in Stream : Inside("flush", t) => Inside("flush", t)'
  <2>1. PICK fn \in {"user", "cancel"} : stack' \in {stack, Append(stack, Frame(fn, s))}
    BY DEF Program, Masking, SetFlags, Connect, Accept, Shutdown, Close, CloseOver, Write,
           WriteRefused, WriteDirect, WriteQueued, WriteAsync, CallBack, Push, loopVars
  <2> QED BY <2>1, FlushPush DEF Core
<1>3. CASE Masking(s)
  <2>1. PICK flags : stream' = [stream EXCEPT ![s] = [stream[s] EXCEPT !.flags = flags]]
    BY <1>3 DEF Masking, SetFlags
  <2>2. /\ stream'[s].status = stream[s].status /\ stream'[s].writes = stream[s].writes
        /\ stream'[s].fd = stream[s].fd /\ \A t \in Stream \ {s} : stream'[t] = stream[t]
    BY <2>1, <1>1 DEF Core, Streams, StreamRec
  <2> QED BY <2>2, <1>1, <1>2, EndSentSame, EndSentOthers
<1>4. CASE Connect(s) \/ Accept(s)
  <2>1. stream[s] = Fresh BY <1>4 DEF Connect, Accept
  <2>2. PICK f \in FreeFd :
          \/ stream' = [stream EXCEPT ![s] = [Fresh EXCEPT !.fd = f, !.handler = "connect",
                                                           !.flags = {"IN", "OUT"}]]
          \/ stream' = [stream EXCEPT ![s] = [Fresh EXCEPT !.fd = f, !.handler = "client",
                                                           !.flags = {"IN"}, !.status = "ACTIVE"]]
    <3>1. CASE Connect(s)
      <4>1. PICK f \in FreeFd :
              stream' = [stream EXCEPT ![s] = [stream[s] EXCEPT !.fd = f, !.handler = "connect",
                                                                !.flags = {"IN", "OUT"}]]
        BY <3>1 DEF Connect, Register
      <4> QED BY <4>1, <2>1
    <3>2. CASE Accept(s) BY <3>2 DEF Accept, AcceptOver, LowestFree, Register
    <3> QED BY <1>4, <3>1, <3>2
  <2>3. stream'[s].status # "SHUTDOWN" /\ \A t \in Stream \ {s} : stream'[t] = stream[t]
    BY <2>2 DEF Core, Streams, Fresh
  <2>4. EndSent(s)' BY <2>3 DEF EndSent
  <2> QED BY <2>3, <2>4, <1>1, <1>2, EndSentOthers
<1>5. CASE Shutdown(s)
  <2> DEFINE r == [stream[s] EXCEPT !.status = "SHUTDOWN"]
             w == [r EXCEPT !.flags = @ \cup {"OUT"}]
  <2>1. \/ /\ stream[s].writes = <<>> /\ stream' = [stream EXCEPT ![s] = r]
           /\ conn' = [conn EXCEPT ![stream[s].fd].shut = TRUE]
        \/ stream[s].writes # <<>> /\ stream' = [stream EXCEPT ![s] = w]
    <3>1. r.writes = stream[s].writes /\ r.fd = stream[s].fd BY <1>1 DEF StreamRec
    <3> QED BY <3>1, <1>5 DEF Shutdown
  <2>2. r.fd = stream[s].fd /\ w.writes = stream[s].writes BY <1>1 DEF StreamRec
  <2> HIDE DEF r, w
  <2>3. /\ \A t \in Stream \ {s} : stream'[t] = stream[t]
        /\ stream'[s] = r \/ stream'[s] = w
    BY <2>1 DEF Core, Streams
  <2>4. EndSent(s)'
    <3>1. CASE stream[s].writes # <<>>
      <4>1. stream'[s] = w BY <3>1, <2>1 DEF Core, Streams
      <4> QED BY <3>1, <4>1, <2>2 DEF EndSent
    <3>2. CASE stream[s].writes = <<>>
      <4>1. stream'[s] = r /\ conn' = [conn EXCEPT ![stream[s].fd].shut = TRUE]
        BY <3>2, <2>1 DEF Core, Streams
      <4>2. PICK f : f = stream[s].fd OBVIOUS
      <4>3. f \in Fd
        <5>1. stream[s].status = "ACTIVE" BY <1>5 DEF Shutdown
        <5>2. Live(s) BY <5>1 DEF Core, Streams, Attached, Live, Fresh
        <5> QED BY <4>2, <5>2, LiveFacts DEF Core
      <4>4. conn'[f].shut = TRUE BY <4>1, <4>2, <4>3 DEF Core, Streams, ConnRec
      <4> QED BY <4>1, <4>2, <4>4, <2>2 DEF EndSent, Ended
    <3> QED BY <3>1, <3>2
  <2> QED BY <2>3, <2>4, <1>1, <1>2, EndSentOthers
<1>6. CASE Close(s)
  <2>1. stream' = stream \/ stream' = [stream EXCEPT ![s] = [stream[s] EXCEPT !.status = "CLOSED"]]
    BY <1>6 DEF Close, CloseOver
  <2>2. CASE stream' = stream
    <3>1. EndSent(s)' BY <2>2, <1>1, <1>2, EndSentSame
    <3> QED BY <2>2, <3>1, <1>1, <1>2, EndSentOthers
  <2>3. CASE stream' = [stream EXCEPT ![s] = [stream[s] EXCEPT !.status = "CLOSED"]]
    <3>1. stream'[s].status = "CLOSED" /\ \A t \in Stream \ {s} : stream'[t] = stream[t]
      BY <2>3, <1>1 DEF Core, Streams, StreamRec
    <3>2. EndSent(s)' BY <3>1 DEF EndSent
    <3> QED BY <3>1, <3>2, <1>1, <1>2, EndSentOthers
  <2> QED BY <2>1, <2>2, <2>3
<1>7. CASE \E o \in Op : Write(s, o)
  <2>1. PICK o \in Op : Write(s, o) BY <1>7
  <2>2. \/ stream' = stream
        \/ /\ stream' = [stream EXCEPT ![s] = [stream[s] EXCEPT !.writes = Append(@, o),
                                                                 !.flags = @ \cup {"OUT"}]]
           /\ stream[s].status = "ACTIVE"
    BY <2>1 DEF Write, WriteRefused, WriteDirect, WriteQueued, WriteAsync
  <2>3. CASE stream' = stream
    <3>1. EndSent(s)' BY <2>3, <1>1, <1>2, EndSentSame
    <3> QED BY <2>3, <3>1, <1>1, <1>2, EndSentOthers
  <2>4. CASE /\ stream' = [stream EXCEPT ![s] = [stream[s] EXCEPT !.writes = Append(@, o),
                                                                 !.flags = @ \cup {"OUT"}]]
             /\ stream[s].status = "ACTIVE"
    <3>1. stream'[s].status = "ACTIVE" /\ \A t \in Stream \ {s} : stream'[t] = stream[t]
      BY <2>4, <1>1 DEF Core, Streams, StreamRec
    <3>2. EndSent(s)' BY <3>1 DEF EndSent
    <3> QED BY <3>1, <3>2, <1>1, <1>2, EndSentOthers
  <2> QED BY <2>2, <2>3, <2>4
<1> QED BY <1>3, <1>4, <1>5, <1>6, <1>7 DEF Program

LEMMA FlushFirst ==
  ASSUME Calls, NEW t, Inside("flush", t)
  PROVE  /\ stack # <<>>
         /\ Top.fn # "io" /\ (Top.fn = "flush" => Top.stream = t)
<1>1. PICK i \in 1..Len(stack) : stack[i].fn = "flush" /\ stack[i].stream = t
  BY DEF Inside, Calls
<1>2. i = 1 /\ Len(stack) \in Nat \ {0} BY <1>1 DEF Calls, Good
<1>3. stack # <<>> BY <1>2
<1>4. Top.fn \in {"io", "flush"} => stack[1] = Top BY <1>3, HandlerFirst
<1> QED BY <1>1, <1>2, <1>3, <1>4

LEMMA EndSentFlush ==
  ASSUME Core, Core', AllEndsSent, FlushWrite \/ FlushDone
  PROVE  AllEndsSent'
<1>1. EndedKept BY EndedLoop DEF Loop
<1>2. stack # <<>> /\ Top.fn = "flush" BY DEF FlushWrite, FlushDone, Runs
<1>3. PICK s \in Stream : s = Top.stream BY <1>2, TopGood DEF Core
<1>4. stream[s] \in StreamRec BY DEF Core, Streams
<1>5. \A t \in Stream \ {s} : ~Inside("flush", t) BY <1>2, <1>3, FlushFirst DEF Core
<1>6. Live(s) /\ Inside("flush", s)
  <2>1. Good(Len(stack)) /\ Top = stack[Len(stack)] /\ Len(stack) \in DOMAIN stack
    BY <1>2, TopGood, TopFacts DEF Core, Calls
  <2> QED BY <1>2, <1>3, <2>1 DEF Good, Inside
<1>7. PICK f \in Fd : f = stream[s].fd BY <1>6, LiveFacts DEF Core
<1>8. CASE FlushDone
  <2> DEFINE r == [stream[s] EXCEPT !.flags = @ \ {"OUT"}]
  <2>1. /\ stream' = [stream EXCEPT ![s] = r]
        /\ conn' = IF r.status = "SHUTDOWN" THEN [conn EXCEPT ![r.fd].shut = TRUE] ELSE conn
    BY <1>3, <1>8 DEF FlushDone
  <2>2. r.fd = f /\ r.status = stream[s].status BY <1>4, <1>7 DEF StreamRec
  <2> HIDE DEF r
  <2>3. stream'[s] = r /\ \A t \in Stream \ {s} : stream'[t] = stream[t]
    BY <2>1 DEF Core, Streams
  <2>4. r.status = "SHUTDOWN" => conn'[f].shut = TRUE BY <2>1, <2>2 DEF Core, Streams, ConnRec
  <2>5. EndSent(s)' BY <2>2, <2>3, <2>4 DEF EndSent, Ended
  <2> QED BY <2>3, <2>5, <1>1, <1>5, EndSentOthers
<1>9. CASE FlushWrite
  <2> DEFINE o == Head(stream[s].writes)
             rest == Size[o] - written[o]
             popped == [stream EXCEPT ![s].writes = Tail(stream[s].writes)]
  <2>1. PICK n \in WriteResults(stream[s].fd, rest) :
          IF n = -1
          THEN stream' = popped
          ELSE IF n = rest THEN stream' = popped /\ CallBack(s, o) ELSE UNCHANGED stream
    BY <1>3, <1>9 DEF FlushWrite
  <2>2. conn' = conn /\ stream[s].writes # <<>> BY <1>3, <1>9 DEF FlushWrite, sysVars
  <2>3. popped[s].fd = f BY <1>4, <1>7 DEF Core, Streams, StreamRec
  <2>4. \A t \in Stream \ {s} : popped[t] = stream[t] BY DEF Core, Streams
  <2>5. CASE n = -1
    <3>1. conn[f].rst
      <4>1. -1 \notin 0..rest BY DEF WriteResults
      <4> HIDE DEF rest
      <4> QED BY <2>1, <2>5, <4>1, <1>7 DEF WriteResults
    <3>2. stream' = popped BY <2>1, <2>5
    <3> HIDE DEF popped
    <3>3. EndSent(s)' BY <3>1, <3>2, <2>2, <2>3 DEF EndSent, Ended
    <3> QED BY <3>2, <3>3, <2>4, <1>1, <1>5, EndSentOthers
  <2>6. CASE n # -1 /\ n = rest
    <3>1. stream' = popped /\ stack' = Append(stack, Frame("user", s))
      BY <2>1, <2>6 DEF CallBack, Push
    <3> HIDE DEF popped
    <3>2. Inside("flush", s)' BY <3>1, <1>6, FlushPush DEF Core
    <3>3. EndSent(s)' BY <3>2 DEF EndSent
    <3> QED BY <3>1, <3>3, <2>4, <1>1, <1>5, EndSentOthers
  <2>7. CASE n # -1 /\ n # rest
    <3>1. stream' = stream BY <2>1, <2>7
    <3>2. EndSent(s)' BY <3>1, <2>2 DEF EndSent
    <3> QED BY <3>1, <3>2, <1>1, <1>5, EndSentOthers
  <2> QED BY <2>5, <2>6, <2>7
<1> QED BY <1>8, <1>9

LEMMA EndSentLoop ==
  ASSUME Core, Core', AllEndsSent, Loop
  PROVE  AllEndsSent'
<1>1. EndedKept BY EndedLoop
<1>2. ASSUME stream' = stream, \A t \in Stream : Inside("flush", t) => Inside("flush", t)'
      PROVE  AllEndsSent'
  <2>1. ASSUME NEW t \in Stream PROVE EndSent(t)' BY <1>1, <1>2, EndSentSame
  <2> QED BY <2>1 DEF AllEndsSent
<1>3. CASE MoveOn \/ Poll \/ Network \/ CloseReturn
  <2>1. stream' = stream /\ stack' = stack
    BY <1>3 DEF MoveOn, Moves, Go, Poll, Network, CloseReturn, loopVars
  <2> QED BY <2>1, <1>2 DEF Inside
<1>4. CASE Return
  <2>1. stack # <<>> /\ Top.fn # "flush" /\ stack' = Under /\ stream' = stream
    BY <1>4 DEF Return, Runs
  <2>2. \A t \in Stream : Inside("flush", t) => Inside("flush", t)'
    BY <2>1, FlushPush DEF Core
  <2> QED BY <2>1, <2>2, <1>2
<1>5. ASSUME \A t \in Stream : ~Inside("flush", t), NEW s \in Stream,
             \/ stream' = stream
             \/ /\ stream'[s].status # "SHUTDOWN"
                /\ \A t \in Stream \ {s} : stream'[t] = stream[t]
      PROVE  AllEndsSent'
  <2>1. CASE stream' = stream BY <2>1, <1>2, <1>5
  <2>2. CASE stream'[s].status # "SHUTDOWN" /\ \A t \in Stream \ {s} : stream'[t] = stream[t]
    <3>1. EndSent(s)' BY <2>2 DEF EndSent
    <3> QED BY <2>2, <3>1, <1>1, <1>5, EndSentOthers
  <2> QED BY <1>5, <2>1, <2>2
<1>6. CASE Read \/ AfterRead
  <2>1. stack # <<>> /\ Top.fn = "io" BY <1>6 DEF Read, AfterRead, Runs
  <2>2. \A t \in Stream : ~Inside("flush", t) BY <2>1, FlushFirst DEF Core
  <2>3. PICK s \in Stream : s = Top.stream BY <2>1, TopGood DEF Core
  <2>4. stream[s] \in StreamRec BY DEF Core, Streams
  <2>5. stream' = stream \/ stream' = [stream EXCEPT ![s] = [stream[s] EXCEPT !.status = "CLOSED"]]
    BY <1>6, <2>3 DEF Read, AfterRead, CloseOver
  <2>6. \/ stream' = stream
        \/ stream'[s].status # "SHUTDOWN" /\ \A t \in Stream \ {s} : stream'[t] = stream[t]
    BY <2>4, <2>5 DEF Core, Streams, StreamRec
  <2> QED BY <2>2, <2>6, <1>5
<1>7. CASE Dispatch
  <2>1. PICK e \in batch :
          /\ batch' = batch \ {e}
          /\ IF stream[e.stream].handler = "connect" THEN ConnectIo(e.stream, e.events)
             ELSE stack' = Call(e.stream, e.events) /\ UNCHANGED <<stream, reg>>
    BY <1>7 DEF Dispatch
  <2>2. PICK s \in Stream : s = e.stream
    <3>1. e \in EventRec BY DEF Core, Calls
    <3> QED BY <3>1 DEF EventRec
  <2>3. stream[s] \in StreamRec BY DEF Core, Streams
  <2> DEFINE r == [stream[s] EXCEPT !.status = "ACTIVE", !.handler = "client", !.flags = @ \ {"OUT"}]
  <2>4. stream' = stream \/ stream' = [stream EXCEPT ![s] = r] BY <2>1, <2>2 DEF ConnectIo
  <2>5. r.status # "SHUTDOWN" BY <2>3 DEF StreamRec
  <2> HIDE DEF r
  <2>6. \/ stream' = stream
        \/ stream'[s].status # "SHUTDOWN" /\ \A t \in Stream \ {s} : stream'[t] = stream[t]
    BY <2>4, <2>5 DEF Core, Streams
  <2>7. \A t \in Stream : ~Inside("flush", t) BY <1>7, FlushFirst DEF Dispatch, Core
  <2> QED BY <2>6, <2>7, <1>5
<1>8. CASE CloseCb
  <2>1. PICK s \in Stream : stream' = [stream EXCEPT ![s] = Fresh] BY <1>8, CloseCbStep DEF Core
  <2>2. stream'[s].status # "SHUTDOWN" /\ \A t \in Stream \ {s} : stream'[t] = stream[t]
    BY <2>1 DEF Core, Streams, Fresh
  <2>3. EndSent(s)' BY <2>2 DEF EndSent
  <2>4. \A t \in Stream : Inside("flush", t) => Inside("flush", t)' BY <1>8 DEF CloseCb, Inside
  <2> QED BY <2>2, <2>3, <2>4, <1>1, EndSentOthers
<1>9. CASE Cancel \/ Eof
  <2>1. stack # <<>> /\ Top.fn \in {"cancel", "eof"} BY <1>9 DEF Cancel, Eof, Runs
  <2>2. PICK s \in Stream : s = Top.stream BY <2>1, TopGood DEF Core
  <2>3. stream[s] \in StreamRec BY DEF Core, Streams
  <2>4. PICK fn \in {"user", "cancel"} :
          stack' \in {stack, Append(stack, Frame(fn, s)), Under, Append(Under, Frame(fn, s))}
    BY <1>9, <2>2 DEF Cancel, Eof, CloseOver, CallBack, Push
  <2>5. \A t \in Stream : Inside("flush", t) => Inside("flush", t)'
    BY <2>1, <2>4, FlushPush DEF Core
  <2>6. \/ stream' = stream
        \/ stream'[s].status = "CLOSED" /\ \A t \in Stream \ {s} : stream'[t] = stream[t]
    <3>1. CASE Eof
      <4>1. stream' = stream \/ stream' = [stream EXCEPT ![s] = [stream[s] EXCEPT !.status = "CLOSED"]]
        BY <2>2, <3>1 DEF Eof, CloseOver
      <4> QED BY <4>1, <2>3 DEF Core, Streams, StreamRec
    <3>2. CASE Cancel
      <4>1. stream[s].status = "CLOSED"
        <5>1. /\ Top = stack[Len(stack)] /\ Len(stack) \in Nat \ {0} /\ Top.fn = "cancel"
          BY <2>1, <3>2, TopFacts DEF Core, Calls, Cancel, Runs
        <5>2. Cancels(Len(stack)) BY <5>1 DEF Cancels
        <5> QED BY <2>2, <5>1, <5>2 DEF Core, Closing
      <4>2. \/ stream' = stream
            \/ stream' = [stream EXCEPT ![s] = [stream[s] EXCEPT !.writes = Tail(stream[s].writes)]]
        BY <2>2, <3>2 DEF Cancel
      <4> QED BY <4>1, <4>2, <2>3 DEF Core, Streams, StreamRec
    <3> QED BY <1>9, <3>1, <3>2
  <2>7. CASE stream' = stream BY <2>5, <2>7, <1>2
  <2>8. CASE stream'[s].status = "CLOSED" /\ \A t \in Stream \ {s} : stream'[t] = stream[t]
    <3>1. EndSent(s)' BY <2>8 DEF EndSent
    <3> QED BY <2>5, <2>8, <3>1, <1>1, EndSentOthers
  <2> QED BY <2>6, <2>7, <2>8
<1> QED BY <1>3, <1>4, <1>6, <1>7, <1>8, <1>9, EndSentFlush DEF Loop

(* pd_tcp_shutdown ends the connection once the last write is over, whoever
   takes that write from the queue. *)
THEOREM TcpShutdownKept ==
  ASSUME Careful
  PROVE  Spec => []ShutdownKept
<1>1. Init => AllEndsSent BY DEF Init, AllEndsSent, EndSent, Fresh
<1>2. Core /\ AllEndsSent /\ Core' /\ [Next]_vars => AllEndsSent'
  <2> SUFFICES ASSUME Core, AllEndsSent, Core', [Next]_vars PROVE AllEndsSent' OBVIOUS
  <2>1. CASE UNCHANGED vars
    BY <2>1 DEF vars, loopVars, sysVars, AllEndsSent, EndSent, Ended, Inside
  <2> QED BY <2>1, StepCases, EndSentProgram, EndSentLoop DEF Core
<1>3. AllEndsSent => ShutdownKept BY DEF AllEndsSent, EndSent, Ended, ShutdownKept
<1> QED BY <1>1, <1>2, <1>3, CoreAlways, PTL DEF Spec

-----------------------------------------------------------------------------
(* Sequences of sequences.  tlapm knows nothing of the recursive function that
   FlattenSeq is made of; what it returns follows by going from each length to
   the next. *)

(* A set that has 0 and with each number the next one has them all. *)
LEMMA Numbers ==
  ASSUME NEW S, 0 \in S, \A n \in Nat : n \in S => n + 1 \in S
  PROVE  Nat \subseteq S
<1> DEFINE R == {p \in Nat \X Nat : p[1] < p[2]}
<1> SUFFICES ASSUME Nat \ S # {} PROVE FALSE OBVIOUS
<1>1. \E x \in Nat \ S : \A y \in Nat \ S : ~(<<y, x>> \in R)
  <2>1. IsWellFoundedOn(R, Nat) BY NatLessThanWellFounded DEF OpToRel
  <2> HIDE DEF R
  <2> QED BY <2>1, WFMin
<1>2. PICK x \in Nat \ S : \A y \in Nat \ S : ~(<<y, x>> \in R) BY <1>1
<1>3. x # 0 /\ x - 1 \in Nat OBVIOUS
<1>4. x - 1 \in S
  <2>1. <<x - 1, x>> \in R BY <1>3
  <2> QED BY <1>2, <1>3, <2>1
<1>5. x - 1 + 1 \in S BY <1>3, <1>4
<1> QED BY <1>2, <1>5

(* The recursive function that FlattenSeq is made of, for the first k
   sequences of s: there is one, and it depends on these only. *)
Concats(f, s, k) == f = [i \in 1 .. k |-> IF i = 1 THEN s[i] ELSE f[i - 1] \o s[i]]

LEMMA ConcatsAt ==
  ASSUME NEW f, NEW s, NEW k \in Nat, Concats(f, s, k), NEW i \in 1 .. k
  PROVE  f[i] = IF i = 1 THEN s[i] ELSE f[i - 1] \o s[i]
<1> DEFINE h == [j \in 1 .. k |-> IF j = 1 THEN s[j] ELSE f[j - 1] \o s[j]]
<1>1. f = h BY DEF Concats
<1>2. h[i] = IF i = 1 THEN s[i] ELSE f[i - 1] \o s[i] OBVIOUS
<1> QED BY <1>1, <1>2

LEMMA ConcatsExist == ASSUME NEW s PROVE \A k \in Nat : \E f : Concats(f, s, k)
<1> DEFINE S == {k \in Nat : \E f : Concats(f, s, k)}
<1>1. 0 \in S
  <2>1. Concats([i \in 1 .. 0 |-> s[i]], s, 0) BY DEF Concats
  <2> QED BY <2>1
<1>2. ASSUME NEW k \in Nat, k \in S PROVE k + 1 \in S
  <2>1. PICK f : Concats(f, s, k) BY <1>2
  <2> DEFINE g == [i \in 1 .. k + 1 |-> IF i <= k THEN f[i]
                                        ELSE IF k = 0 THEN s[1] ELSE f[k] \o s[k + 1]]
  <2>2. ASSUME NEW i \in 1 .. k + 1
        PROVE  g[i] = IF i = 1 THEN s[i] ELSE g[i - 1] \o s[i]
    <3>1. CASE i <= k
      <4>1. i \in 1 .. k /\ (i # 1 => i - 1 \in 1 .. k /\ i - 1 \in 1 .. k + 1) BY <3>1
      <4>2. f[i] = IF i = 1 THEN s[i] ELSE f[i - 1] \o s[i] BY <2>1, <4>1, ConcatsAt
      <4>3. g[i] = f[i] /\ (i # 1 => g[i - 1] = f[i - 1]) BY <3>1, <4>1
      <4> QED BY <4>2, <4>3
    <3>2. CASE i = k + 1
      <4>1. k # 0 => k \in 1 .. k + 1 /\ g[k] = f[k] /\ i - 1 = k /\ i # 1 BY <3>2
      <4> QED BY <3>2, <4>1
    <3> QED BY <3>1, <3>2
  <2>3. g = [i \in 1 .. k + 1 |-> IF i = 1 THEN s[i] ELSE g[i - 1] \o s[i]]
    BY <2>2
  <2>4. Concats(g, s, k + 1) BY <2>3 DEF Concats
  <2> QED BY <2>4
<1> HIDE DEF S
<1>3. Nat \subseteq S BY <1>1, <1>2, Numbers
<1> QED BY <1>3 DEF S

SameTo(s, t, n) == \A i \in 1 .. n : s[i] = t[i]

LEMMA ConcatsAgree ==
  ASSUME NEW f, NEW g, NEW s, NEW t, NEW n \in Nat,
         Concats(f, s, n), Concats(g, t, n + 1), SameTo(s, t, n)
  PROVE  SameTo(f, g, n)
<1> DEFINE k == n  m == n + 1
<1> DEFINE S == {i \in Nat : i \in 1 .. n => f[i] = g[i]}
<1>0. \A i \in 1 .. n : s[i] = t[i] BY DEF SameTo
<1>1. 0 \in S OBVIOUS
<1>2. ASSUME NEW i \in Nat, i \in S PROVE i + 1 \in S
  <2> SUFFICES ASSUME i + 1 \in 1 .. n PROVE f[i + 1] = g[i + 1] OBVIOUS
  <2>1. f[i + 1] = IF i + 1 = 1 THEN s[i + 1] ELSE f[i + 1 - 1] \o s[i + 1]
    <3>1. i + 1 \in 1 .. k OBVIOUS
    <3> QED BY <3>1, ConcatsAt
  <2>2. g[i + 1] = IF i + 1 = 1 THEN t[i + 1] ELSE g[i + 1 - 1] \o t[i + 1]
    <3>1. i + 1 \in 1 .. m OBVIOUS
    <3> QED BY <3>1, ConcatsAt
  <2>3. i # 0 => f[i + 1 - 1] = g[i + 1 - 1] BY <1>2
  <2> QED BY <1>0, <2>1, <2>2, <2>3
<1> HIDE DEF S
<1>3. Nat \subseteq S BY <1>1, <1>2, Numbers
<1> QED BY <1>3 DEF S, SameTo

LEMMA ConcatsType ==
  ASSUME NEW f, NEW T, NEW s \in Seq(Seq(T)), Concats(f, s, Len(s))
  PROVE  \A i \in 1 .. Len(s) : f[i] \in Seq(T)
<1> DEFINE S == {i \in Nat : i \in 1 .. Len(s) => f[i] \in Seq(T)}
<1>1. 0 \in S OBVIOUS
<1>2. ASSUME NEW i \in Nat, i \in S PROVE i + 1 \in S
  <2> SUFFICES ASSUME i + 1 \in 1 .. Len(s) PROVE f[i + 1] \in Seq(T) OBVIOUS
  <2>1. f[i + 1] = IF i + 1 = 1 THEN s[i + 1] ELSE f[i + 1 - 1] \o s[i + 1]
    <3>1. i + 1 \in 1 .. Len(s) /\ Len(s) \in Nat OBVIOUS
    <3> QED BY <3>1, ConcatsAt
  <2>2. i # 0 => f[i + 1 - 1] \in Seq(T) BY <1>2
  <2>3. s[i + 1] \in Seq(T) OBVIOUS
  <2> QED BY <2>1, <2>2, <2>3
<1> HIDE DEF S
<1>3. Nat \subseteq S BY <1>1, <1>2, Numbers
<1> QED BY <1>3 DEF S

LEMMA FlattenIs ==
  ASSUME NEW s, Len(s) \in Nat, Len(s) # 0
  PROVE  \E f : Concats(f, s, Len(s)) /\ FlattenSeq(s) = f[Len(s)]
<1> DEFINE F == CHOOSE f : Concats(f, s, Len(s))
<1>1. Concats(F, s, Len(s)) BY ConcatsExist
<1>2. FlattenSeq(s) = F[Len(s)] BY DEF FlattenSeq, Concats
<1> HIDE DEF F
<1> QED BY <1>1, <1>2

(* What FlattenSeq returns, by the last sequence it is given. *)
LEMMA FlattenAppend ==
  ASSUME NEW T, NEW s \in Seq(Seq(T)), NEW x \in Seq(T)
  PROVE  /\ FlattenSeq(s) \in Seq(T)
         /\ FlattenSeq(Append(s, x)) = FlattenSeq(s) \o x
<1> DEFINE t == Append(s, x)
<1>1. /\ t \in Seq(Seq(T)) /\ Len(t) = Len(s) + 1 /\ Len(s) \in Nat /\ t[Len(t)] = x
      /\ \A i \in 1 .. Len(s) : t[i] = s[i]
  BY AppendProperties
<1> HIDE DEF t
<1>2. PICK g : Concats(g, t, Len(t)) /\ FlattenSeq(t) = g[Len(t)]
  BY <1>1, FlattenIs
<1>3. g[Len(t)] = IF Len(t) = 1 THEN x ELSE g[Len(t) - 1] \o x
  <2>1. Len(t) \in 1 .. Len(t) BY <1>1
  <2> QED BY <1>1, <1>2, <2>1, ConcatsAt
<1>4. CASE s = <<>>
  <2>1. FlattenSeq(s) = <<>> BY <1>4 DEF FlattenSeq
  <2>2. FlattenSeq(t) = x BY <1>1, <1>2, <1>3, <1>4
  <2> QED BY <2>1, <2>2, ConcatEmptySeq DEF t
<1>5. CASE s # <<>>
  <2>1. Len(s) # 0 BY <1>5, EmptySeq
  <2>2. PICK f : Concats(f, s, Len(s)) /\ FlattenSeq(s) = f[Len(s)]
    BY <1>1, <2>1, FlattenIs
  <2>3. f[Len(s)] \in Seq(T) BY <2>1, <2>2, <1>1, ConcatsType
  <2>4. \A i \in 1 .. Len(s) : f[i] = g[i]
    <3>1. SameTo(s, t, Len(s)) BY <1>1 DEF SameTo
    <3>2. Concats(f, s, Len(s)) /\ Concats(g, t, Len(s) + 1) BY <1>1, <1>2, <2>2
    <3>3. SameTo(f, g, Len(s)) BY <1>1, <3>1, <3>2, ConcatsAgree
    <3> QED BY <3>3 DEF SameTo
  <2>5. f[Len(s)] = g[Len(t) - 1] /\ Len(t) # 1 BY <1>1, <2>1, <2>4
  <2> QED BY <1>2, <1>3, <2>2, <2>3, <2>5 DEF t
<1> QED BY <1>4, <1>5


-----------------------------------------------------------------------------
(* What a stream has sent: its first writes, complete, and of the first one in
   the queue the units that were accepted. *)

Units(o, n) == [j \in 1..n |-> o]
Stretch(q) == FlattenSeq([i \in DOMAIN q |-> [j \in 1..Size[q[i]] |-> q[i]]])
Begins(v, u) == \E c \in Seq(Op) : u = v \o c

(* The writes of done are over, q is queued, and w says how far each is. *)
Sent(v, done, q, w) ==
  v = IF q = <<>> THEN Stretch(done) ELSE Stretch(done) \o Units(Head(q), w[Head(q)])

Exact(v, q, w, d) ==
  /\ \E done \in Seq(Op) : d = done \o q /\ Sent(v, done, q, w)
  /\ \A i \in DOMAIN q : i # 1 => w[q[i]] = 0

LEMMA UnitsFacts ==
  ASSUME NEW o \in Op, NEW n \in Nat
  PROVE  Units(o, n) \in Seq(Op) /\ Len(Units(o, n)) = n /\ \A j \in 1..n : Units(o, n)[j] = o
<1>1. Units(o, n) \in [1..n -> Op] BY DEF Units
<1>2. Units(o, n) \in Seq(Op) BY <1>1, SeqDef
<1>3. DOMAIN Units(o, n) = 1..n BY <1>1
<1>4. Len(Units(o, n)) \in Nat /\ DOMAIN Units(o, n) = 1..Len(Units(o, n)) BY <1>2, LenProperties
<1>5. Len(Units(o, n)) = n BY <1>3, <1>4
<1> QED BY <1>2, <1>5 DEF Units

LEMMA UnitsAdd ==
  ASSUME NEW o \in Op, NEW m \in Nat, NEW n \in Nat
  PROVE  Units(o, m) \o Units(o, n) = Units(o, m + n)
<1> DEFINE a == Units(o, m)  b == Units(o, n)  c == Units(o, m + n)
<1>1. /\ a \in Seq(Op) /\ Len(a) = m /\ \A j \in 1..m : a[j] = o
      /\ b \in Seq(Op) /\ Len(b) = n /\ \A j \in 1..n : b[j] = o
      /\ m + n \in Nat /\ c \in Seq(Op) /\ Len(c) = m + n /\ \A j \in 1..m + n : c[j] = o
  <2>1. m + n \in Nat OBVIOUS
  <2> QED BY <2>1, UnitsFacts
<1> HIDE DEF a, b, c
<1>2. /\ a \o b \in Seq(Op) /\ Len(a \o b) = m + n
      /\ \A j \in 1..m + n : (a \o b)[j] = IF j <= m THEN a[j] ELSE b[j - m]
  BY <1>1, ConcatProperties
<1>3. \A j \in 1..m + n : (a \o b)[j] = o
  <2> SUFFICES ASSUME NEW j \in 1..m + n PROVE (a \o b)[j] = o OBVIOUS
  <2>1. j \in 1..m \/ (~(j <= m) /\ j - m \in 1..n) OBVIOUS
  <2> QED BY <2>1, <1>1, <1>2
<1>4. a \o b = c BY <1>1, <1>2, <1>3, SeqEqual
<1> QED BY <1>4 DEF a, b, c

LEMMA UnitsAfter ==
  ASSUME NEW r \in Seq(Op), NEW o \in Op, NEW m \in Nat, NEW n \in Nat
  PROVE  (r \o Units(o, m)) \o Units(o, n) = r \o Units(o, m + n)
<1>1. PICK a \in Seq(Op) : a = Units(o, m) BY UnitsFacts
<1>2. PICK b \in Seq(Op) : b = Units(o, n) BY UnitsFacts
<1>3. (r \o a) \o b = r \o (a \o b) BY ConcatAssociative
<1> QED BY <1>1, <1>2, <1>3, UnitsAdd

LEMMA NoUnits == ASSUME NEW o \in Op PROVE Units(o, 0) = <<>>
<1>1. Units(o, 0) \in Seq(Op) /\ Len(Units(o, 0)) = 0 BY UnitsFacts
<1> QED BY <1>1, EmptySeq

LEMMA StretchFacts ==
  ASSUME NEW d \in Seq(Op), NEW o \in Op
  PROVE  /\ Stretch(d) \in Seq(Op)
         /\ Stretch(Append(d, o)) = Stretch(d) \o Units(o, Size[o])
<1> DEFINE F(q) == [i \in DOMAIN q |-> Units(q[i], Size[q[i]])]
<1>1. \A x \in Op : Size[x] \in Nat BY OpAssumption
<1>2. \A q : Stretch(q) = FlattenSeq(F(q)) BY DEF Stretch, Units
<1>3. ASSUME NEW q \in Seq(Op)
      PROVE  F(q) \in Seq(Seq(Op)) /\ Len(F(q)) = Len(q) /\ \A i \in 1..Len(q) : F(q)[i] = Units(q[i], Size[q[i]])
  <2>1. Len(q) \in Nat /\ DOMAIN q = 1..Len(q) /\ \A i \in 1..Len(q) : q[i] \in Op
    BY LenProperties, ElementOfSeq
  <2>2. \A i \in 1..Len(q) : Units(q[i], Size[q[i]]) \in Seq(Op) BY <2>1, <1>1, UnitsFacts
  <2>3. F(q) \in [1..Len(q) -> Seq(Op)] BY <2>1, <2>2
  <2>4. F(q) \in Seq(Seq(Op)) BY <2>1, <2>3, SeqDef
  <2>5. DOMAIN F(q) = 1..Len(F(q)) /\ Len(F(q)) \in Nat /\ DOMAIN F(q) = 1..Len(q)
    BY <2>3, <2>4, LenProperties
  <2>6. Len(F(q)) = Len(q) BY <2>1, <2>5
  <2> QED BY <2>1, <2>4, <2>6
<1> HIDE DEF F
<1>4. /\ Append(d, o) \in Seq(Op) /\ Len(Append(d, o)) = Len(d) + 1 /\ Len(d) \in Nat
      /\ Append(d, o)[Len(d) + 1] = o /\ \A i \in 1..Len(d) : Append(d, o)[i] = d[i]
  BY AppendProperties
<1>5. Units(o, Size[o]) \in Seq(Op) BY <1>1, UnitsFacts
<1>6. F(Append(d, o)) = Append(F(d), Units(o, Size[o]))
  <2> DEFINE g == F(Append(d, o))  h == Append(F(d), Units(o, Size[o]))
  <2>1. /\ g \in Seq(Seq(Op)) /\ Len(g) = Len(d) + 1
        /\ \A i \in 1..Len(d) + 1 : g[i] = Units(Append(d, o)[i], Size[Append(d, o)[i]])
    BY <1>3, <1>4
  <2>2. /\ h \in Seq(Seq(Op)) /\ Len(h) = Len(d) + 1 /\ h[Len(d) + 1] = Units(o, Size[o])
        /\ \A i \in 1..Len(d) : h[i] = F(d)[i]
    BY <1>3, <1>5, AppendProperties
  <2> HIDE DEF g, h
  <2>3. ASSUME NEW i \in 1..Len(d) + 1 PROVE g[i] = h[i]
    <3>1. CASE i = Len(d) + 1 BY <3>1, <2>1, <2>2, <1>4
    <3>2. CASE i # Len(d) + 1
      <4>1. i \in 1..Len(d) BY <3>2, <1>4
      <4> QED BY <4>1, <2>1, <2>2, <1>3, <1>4
    <3> QED BY <3>1, <3>2
  <2>4. g = h BY <2>1, <2>2, <2>3, SeqEqual
  <2> QED BY <2>4 DEF g, h
<1>7. FlattenSeq(F(d)) \in Seq(Op)
      /\ FlattenSeq(Append(F(d), Units(o, Size[o]))) = FlattenSeq(F(d)) \o Units(o, Size[o])
  BY <1>3, <1>5, FlattenAppend
<1> QED BY <1>2, <1>6, <1>7

LEMMA NoStretch == Stretch(<<>>) = <<>>
  BY DEF Stretch, FlattenSeq

LEMMA StretchType ==
  ASSUME NEW d \in Seq(Op)
  PROVE  Stretch(d) \in Seq(Op)
<1>1. CASE d = <<>> BY <1>1, NoStretch, EmptySeq
<1>2. CASE d # <<>>
  <2>1. 1 \in 1..Len(d) BY <1>2, EmptySeq
  <2>2. d[1] \in Op BY <2>1, ElementOfSeq
  <2> QED BY <2>2, StretchFacts
<1> QED BY <1>1, <1>2

LEMMA AppendIs ==
  ASSUME NEW q \in Seq(Op), NEW p \in Seq(Op), NEW o \in Op
  PROVE  /\ Append(q, o) \in Seq(Op) /\ <<o>> \in Seq(Op) /\ Append(q, o) = q \o <<o>>
         /\ Append(p \o q, o) = p \o Append(q, o)
         /\ Append(p, o) \o q = p \o (<<o>> \o q)
<1>1. \A r \in Seq(Op) : Append(r, o) \in Seq(Op) /\ Append(r, o) = r \o <<o>>
  <2> TAKE r \in Seq(Op)
  <2>1. <<o>> \in Seq(Op) /\ Len(<<o>>) = 1 /\ <<o>>[1] = o OBVIOUS
  <2>2. /\ Append(r, o) \in Seq(Op) /\ Len(Append(r, o)) = Len(r) + 1 /\ Len(r) \in Nat
        /\ Append(r, o)[Len(r) + 1] = o /\ \A i \in 1..Len(r) : Append(r, o)[i] = r[i]
    BY AppendProperties
  <2> DEFINE e == <<o>>  a == Append(r, o)  b == r \o e
  <2>3. /\ b \in Seq(Op) /\ Len(b) = Len(r) + 1
        /\ \A i \in 1..Len(r) + 1 : b[i] = IF i <= Len(r) THEN r[i] ELSE e[i - Len(r)]
    BY <2>1, ConcatProperties
  <2>4. a \in Seq(Op) /\ Len(a) = Len(b) BY <2>2, <2>3
  <2> HIDE DEF a, b
  <2>5. ASSUME NEW i \in 1..Len(a) PROVE a[i] = b[i]
    <3>1. i \in 1..Len(r) + 1 /\ Len(r) \in Nat BY <2>3, <2>4, <2>2
    <3>2. CASE i = Len(r) + 1
      <4>1. ~(i <= Len(r)) /\ i - Len(r) = 1 BY <3>1, <3>2
      <4> QED BY <3>1, <3>2, <4>1, <2>1, <2>2, <2>3 DEF a
    <3>3. CASE i # Len(r) + 1
      <4>1. i <= Len(r) /\ i \in 1..Len(r) BY <3>1, <3>3
      <4> QED BY <3>1, <4>1, <2>2, <2>3 DEF a
    <3> QED BY <3>2, <3>3
  <2>6. a = b BY <2>3, <2>4, <2>5, SeqEqual
  <2> QED BY <2>2, <2>6 DEF a, b
<1>2. <<o>> \in Seq(Op) /\ p \o q \in Seq(Op) BY ConcatProperties
<1>3. (p \o q) \o <<o>> = p \o (q \o <<o>>) /\ (p \o <<o>>) \o q = p \o (<<o>> \o q)
  BY <1>2, ConcatAssociative
<1> QED BY <1>1, <1>2, <1>3

LEMMA HeadAndTail ==
  ASSUME NEW q \in Seq(Op), q # <<>>
  PROVE  Head(q) \in Op /\ Tail(q) \in Seq(Op) /\ q = <<Head(q)>> \o Tail(q)
<1>1. /\ Head(q) \in Op /\ Tail(q) \in Seq(Op) /\ Len(Tail(q)) = Len(q) - 1
      /\ \A i \in 1..Len(Tail(q)) : Tail(q)[i] = q[i + 1]
  BY HeadTailProperties
<1>2. PICK n \in Nat : Len(q) = n + 1
  <2>1. Len(q) \in Nat \ {0} BY EmptySeq
  <2>2. Len(q) - 1 \in Nat /\ Len(q) = (Len(q) - 1) + 1 BY <2>1
  <2> QED BY <2>2
<1>3. PICK o \in Op : o = Head(q) BY <1>1
<1>4. PICK t \in Seq(Op) : t = Tail(q) BY <1>1
<1>5. Len(t) = n /\ q[1] = o /\ \A i \in 1..n : t[i] = q[i + 1] BY <1>1, <1>2, <1>3, <1>4
<1> DEFINE e == <<o>>  r == e \o t
<1>6. e \in Seq(Op) /\ Len(e) = 1 /\ e[1] = o OBVIOUS
<1> HIDE DEF e
<1>7. /\ r \in Seq(Op) /\ Len(r) = Len(e) + Len(t)
      /\ \A i \in 1..Len(e) + Len(t) : r[i] = IF i <= Len(e) THEN e[i] ELSE t[i - Len(e)]
  BY <1>6, ConcatProperties
<1> HIDE DEF r
<1>8. /\ Len(r) = Len(q)
      /\ \A i \in 1..Len(q) : r[i] = IF i <= 1 THEN e[i] ELSE t[i - 1]
  BY <1>2, <1>5, <1>6, <1>7
<1>9. ASSUME NEW i \in 1..Len(q) PROVE q[i] = r[i]
  <2>1. CASE i = 1 BY <2>1, <1>5, <1>6, <1>8
  <2>2. CASE i # 1
    <3>1. ~(i <= 1) /\ i - 1 \in 1..n /\ (i - 1) + 1 = i BY <2>2, <1>2
    <3> QED BY <3>1, <1>5, <1>8
  <2> QED BY <2>1, <2>2
<1>10. q = r BY <1>7, <1>8, <1>9, SeqEqual
<1> QED BY <1>1, <1>3, <1>4, <1>10 DEF e, r

LEMMA BeginsTrans ==
  ASSUME NEW a \in Seq(Op), NEW b \in Seq(Op), NEW c \in Seq(Op), Begins(a, b), Begins(b, c)
  PROVE  Begins(a, c)
<1>1. PICK x \in Seq(Op) : b = a \o x BY DEF Begins
<1>2. PICK y \in Seq(Op) : c = b \o y BY DEF Begins
<1>3. x \o y \in Seq(Op) /\ c = a \o (x \o y) BY <1>1, <1>2, ConcatProperties, ConcatAssociative
<1> QED BY <1>3 DEF Begins

LEMMA StretchBegins ==
  ASSUME NEW d \in Seq(Op), NEW o \in Op
  PROVE  Begins(Stretch(d), Stretch(Append(d, o)))
<1>1. Size[o] \in Nat BY OpAssumption
<1>2. Units(o, Size[o]) \in Seq(Op) BY <1>1, UnitsFacts
<1> QED BY <1>2, StretchFacts DEF Begins

(* More writes only add to it. *)
LEMMA StretchOn ==
  ASSUME NEW d \in Seq(Op), NEW e \in Seq(Op)
  PROVE  Begins(Stretch(d), Stretch(d \o e))
<1> DEFINE S == {n \in Nat : \A x \in Seq(Op) : Len(x) = n => Begins(Stretch(d), Stretch(d \o x))}
<1>1. 0 \in S
  <2> SUFFICES ASSUME NEW x \in Seq(Op), Len(x) = 0 PROVE Begins(Stretch(d), Stretch(d \o x)) OBVIOUS
  <2>1. x = <<>> BY EmptySeq
  <2>2. d \o x = d BY <2>1, ConcatEmptySeq
  <2>3. <<>> \in Seq(Op) /\ Stretch(d) = Stretch(d) \o <<>>
    BY StretchType, ConcatEmptySeq, EmptySeq
  <2> QED BY <2>2, <2>3 DEF Begins
<1>2. ASSUME NEW n \in Nat, n \in S PROVE n + 1 \in S
  <2> SUFFICES ASSUME NEW x \in Seq(Op), Len(x) = n + 1 PROVE Begins(Stretch(d), Stretch(d \o x))
    OBVIOUS
  <2> DEFINE y == SubSeq(x, 1, Len(x) - 1)
  <2>1. x # <<>> BY EmptySeq
  <2>2. /\ y \in Seq(Op) /\ Len(y) = n /\ x[n + 1] \in Op
        /\ \A i \in 1..n : y[i] = x[i]
    BY <2>1, UnderFacts
  <2> HIDE DEF y
  <2>3. x = Append(y, x[n + 1])
    <3> DEFINE z == Append(y, x[n + 1])
    <3>1. /\ z \in Seq(Op) /\ Len(z) = n + 1 /\ z[n + 1] = x[n + 1] /\ \A i \in 1..n : z[i] = y[i]
      BY <2>2, AppendProperties
    <3> HIDE DEF z
    <3>2. \A i \in 1..n + 1 : i \in 1..n \/ i = n + 1 OBVIOUS
    <3>3. \A i \in 1..Len(x) : x[i] = z[i] BY <2>2, <3>1, <3>2
    <3>4. x = z BY <3>1, <3>3, SeqEqual
    <3> QED BY <3>4 DEF z
  <2>4. PICK o \in Op : x = Append(y, o) BY <2>2, <2>3
  <2>5. d \o x = Append(d \o y, o) /\ d \o y \in Seq(Op) BY <2>2, <2>4, AppendIs, ConcatProperties
  <2>6. Begins(Stretch(d), Stretch(d \o y)) BY <1>2, <2>2
  <2>7. Begins(Stretch(d \o y), Stretch(d \o x)) BY <2>5, StretchBegins
  <2>8. Stretch(d) \in Seq(Op) /\ Stretch(d \o y) \in Seq(Op) /\ Stretch(d \o x) \in Seq(Op)
    <3>1. d \o x \in Seq(Op) BY ConcatProperties
    <3> QED BY <2>5, <3>1, StretchType
  <2> QED BY <2>6, <2>7, <2>8, BeginsTrans
<1> HIDE DEF S
<1>3. Nat \subseteq S BY <1>1, <1>2, Numbers
<1>4. Len(e) \in Nat BY LenProperties
<1> QED BY <1>3, <1>4 DEF S

LEMMA ExactBegins ==
  ASSUME NEW v, NEW q \in Seq(Op), NEW w \in [Op -> Nat], \A o \in Op : w[o] <= Size[o],
         NEW d \in Seq(Op), Exact(v, q, w, d)
  PROVE  v \in Seq(Op) /\ Begins(v, Stretch(d))
<1>1. PICK done \in Seq(Op) : d = done \o q /\ Sent(v, done, q, w) BY DEF Exact
<1>2. CASE q = <<>>
  <2>1. d = done /\ v = Stretch(d) BY <1>1, <1>2, ConcatEmptySeq DEF Sent
  <2>2. v \in Seq(Op) BY <2>1, StretchType
  <2>3. <<>> \in Seq(Op) /\ Stretch(d) = v \o <<>> BY <2>1, <2>2, ConcatEmptySeq, EmptySeq
  <2> QED BY <2>2, <2>3 DEF Begins
<1>3. CASE q # <<>>
  <2>1. PICK o \in Op : o = Head(q) /\ q = <<o>> \o Tail(q) /\ Tail(q) \in Seq(Op)
    BY <1>3, HeadAndTail
  <2>2. /\ Append(done, o) \in Seq(Op) /\ d = Append(done, o) \o Tail(q)
    <3>1. PICK t \in Seq(Op) : t = Tail(q) BY <2>1
    <3>2. Append(done, o) \in Seq(Op) /\ Append(done, o) \o t = done \o (<<o>> \o t) BY AppendIs
    <3> QED BY <1>1, <2>1, <3>1, <3>2
  <2>3. PICK m \in Nat : m = w[o] BY <2>1
  <2>4. PICK n \in Nat : Size[o] = m + n
    <3>1. Size[o] \in Nat /\ m <= Size[o] BY <2>3, OpAssumption
    <3>2. Size[o] - m \in Nat /\ Size[o] = m + (Size[o] - m) BY <3>1
    <3> QED BY <3>2
  <2>5. /\ Units(o, m) \in Seq(Op) /\ Units(o, n) \in Seq(Op) /\ Stretch(done) \in Seq(Op)
    BY UnitsFacts, StretchType
  <2>6. v = Stretch(done) \o Units(o, m) /\ v \in Seq(Op)
    BY <1>1, <1>3, <2>1, <2>3, <2>5, ConcatProperties DEF Sent
  <2>7. Stretch(Append(done, o)) = v \o Units(o, n)
    <3>1. PICK r \in Seq(Op) : r = Stretch(done) BY <2>5
    <3>2. (r \o Units(o, m)) \o Units(o, n) = r \o Units(o, m + n) BY UnitsAfter
    <3>3. Stretch(Append(done, o)) = Stretch(done) \o Units(o, Size[o]) BY StretchFacts
    <3> QED BY <2>4, <2>6, <3>1, <3>2, <3>3
  <2>8. Begins(v, Stretch(Append(done, o))) BY <2>5, <2>7 DEF Begins
  <2>9. Begins(Stretch(Append(done, o)), Stretch(d)) BY <2>1, <2>2, StretchOn
  <2>10. Stretch(Append(done, o)) \in Seq(Op) /\ Stretch(d) \in Seq(Op) BY <2>2, StretchType
  <2> QED BY <2>6, <2>8, <2>9, <2>10, BeginsTrans
<1> QED BY <1>2, <1>3

(* A write is handed over to a stream that has none in its queue, and n of its
   units are sent at once. *)
LEMMA ExactDirect ==
  ASSUME NEW v, NEW w, NEW d \in Seq(Op), Exact(v, <<>>, w, d), NEW o \in Op,
         NEW n \in 0..Size[o], NEW x, NEW u, x[o] = n, u = v \o Units(o, n)
  PROVE  /\ n = Size[o] => Exact(u, <<>>, x, Append(d, o))
         /\ Exact(u, Append(<<>>, o), x, Append(d, o))
<1>1. PICK done \in Seq(Op) : d = done \o <<>> /\ Sent(v, done, <<>>, w) BY DEF Exact
<1>2. d = done /\ v = Stretch(d) BY <1>1, ConcatEmptySeq DEF Sent
<1>3. <<>> \in Seq(Op) /\ Append(<<>>, o) = <<o>> /\ Append(d, o) \in Seq(Op) BY AppendIs, EmptySeq
<1>4. Append(d, o) = Append(d, o) \o <<>> /\ Append(d, o) = d \o <<o>>
  BY <1>3, AppendIs, ConcatEmptySeq
<1>5. \A i \in DOMAIN <<>> : i # 1 => x[<<>>[i]] = 0 OBVIOUS
<1>6. ASSUME n = Size[o] PROVE Exact(u, <<>>, x, Append(d, o))
  <2>1. u = Stretch(Append(d, o)) BY <1>2, <1>6, StretchFacts
  <2>2. Sent(u, Append(d, o), <<>>, x) BY <2>1 DEF Sent
  <2> QED BY <1>3, <1>4, <1>5, <2>2 DEF Exact
<1>7. Exact(u, <<o>>, x, Append(d, o))
  <2>1. <<o>> # <<>> /\ Head(<<o>>) = o /\ DOMAIN <<o>> = {1} OBVIOUS
  <2>2. Sent(u, d, <<o>>, x) BY <1>2, <2>1 DEF Sent
  <2>3. \A i \in DOMAIN <<o>> : i # 1 => x[<<o>>[i]] = 0 BY <2>1
  <2> QED BY <1>4, <2>2, <2>3 DEF Exact
<1> QED BY <1>3, <1>6, <1>7

(* A write is put behind others. *)
LEMMA ExactQueued ==
  ASSUME NEW v, NEW q \in Seq(Op), q # <<>>, NEW w, NEW d, Exact(v, q, w, d),
         NEW o \in Op, w[o] = 0
  PROVE  Exact(v, Append(q, o), w, Append(d, o))
<1>1. PICK done \in Seq(Op) : d = done \o q /\ Sent(v, done, q, w) BY DEF Exact
<1>2. Append(d, o) = done \o Append(q, o) BY <1>1, AppendIs
<1> DEFINE r == Append(q, o)
<1>3. /\ r # <<>> /\ Head(r) = Head(q) /\ DOMAIN r = 1..Len(q) + 1 /\ Len(q) \in Nat
      /\ r[Len(q) + 1] = o /\ DOMAIN q = 1..Len(q) /\ \A i \in 1..Len(q) : r[i] = q[i]
  <2>1. /\ r \in Seq(Op) /\ Len(r) = Len(q) + 1 /\ r[Len(q) + 1] = o /\ Len(q) \in Nat \ {0}
        /\ \A i \in 1..Len(q) : r[i] = q[i]
    BY AppendProperties, EmptySeq
  <2>2. r # <<>> /\ DOMAIN r = 1..Len(r) /\ DOMAIN q = 1..Len(q) BY AppendIs, <2>1, LenProperties
  <2>3. Head(r) = r[1] /\ Head(q) = q[1] BY <2>1, <2>2
  <2>4. 1 \in 1..Len(q) BY <2>1
  <2> QED BY <2>1, <2>2, <2>3, <2>4
<1> HIDE DEF r
<1>4. Sent(v, done, r, w) BY <1>1, <1>3 DEF Sent
<1>5. ASSUME NEW i \in DOMAIN r, i # 1 PROVE w[r[i]] = 0
  <2>1. i \in DOMAIN q \/ i = Len(q) + 1 BY <1>3
  <2> QED BY <2>1, <1>3, <1>5 DEF Exact
<1>6. Append(d, o) = done \o r BY <1>2 DEF r
<1>7. Exact(v, r, w, Append(d, o)) BY <1>4, <1>5, <1>6 DEF Exact
<1> QED BY <1>7 DEF r

(* The first write of the queue goes on: n units of it are sent. *)
LEMMA ExactFlush ==
  ASSUME NEW v, NEW q \in Seq(Op), q # <<>>, NoRepeat(q), NEW w, NEW d, Exact(v, q, w, d),
         NEW o, o = Head(q), w[o] \in Nat, NEW n \in Nat, NEW x, NEW u,
         x[o] = w[o] + n, \A p \in Op : p # o => x[p] = w[p], u = v \o Units(o, n)
  PROVE  /\ Exact(u, q, x, d)
         /\ x[o] = Size[o] => Exact(u, Tail(q), x, d)
<1>1. PICK done \in Seq(Op) : d = done \o q /\ Sent(v, done, q, w) BY DEF Exact
<1>2. o \in Op /\ Tail(q) \in Seq(Op) /\ q = <<o>> \o Tail(q) BY HeadAndTail
<1>3. PICK m \in Nat : m = w[o] OBVIOUS
<1>4. /\ Units(o, m) \in Seq(Op) /\ Units(o, n) \in Seq(Op) /\ Stretch(done) \in Seq(Op)
  BY <1>2, UnitsFacts, StretchType
<1>5. v = Stretch(done) \o Units(o, m) BY <1>1, <1>3 DEF Sent
<1>6. u = Stretch(done) \o Units(o, x[o])
  <2>1. PICK r \in Seq(Op) : r = Stretch(done) BY <1>4
  <2>2. (r \o Units(o, m)) \o Units(o, n) = r \o Units(o, m + n) BY <1>2, UnitsAfter
  <2> QED BY <1>3, <1>5, <2>1, <2>2
<1>7. /\ DOMAIN q = 1..Len(q) /\ Len(q) \in Nat \ {0} /\ q[1] = o /\ \A i \in 1..Len(q) : q[i] \in Op
  BY EmptySeq, LenProperties, ElementOfSeq
<1>8. \A i \in DOMAIN q : i # 1 => q[i] # o
  <2>1. 1 \in DOMAIN q BY <1>7
  <2> QED BY <2>1, <1>7 DEF NoRepeat
<1>9. \A i \in DOMAIN q : i # 1 => x[q[i]] = 0 BY <1>7, <1>8 DEF Exact
<1>10. Exact(u, q, x, d)
  <2>1. Sent(u, done, q, x) BY <1>6 DEF Sent
  <2> QED BY <1>1, <1>9, <2>1 DEF Exact
<1>11. ASSUME x[o] = Size[o] PROVE Exact(u, Tail(q), x, d)
  <2>1. Append(done, o) \in Seq(Op) /\ d = Append(done, o) \o Tail(q)
    <3>1. PICK t \in Seq(Op) : t = Tail(q) BY <1>2
    <3>2. Append(done, o) \in Seq(Op) /\ Append(done, o) \o t = done \o (<<o>> \o t)
      BY <1>2, AppendIs
    <3> QED BY <1>1, <1>2, <3>1, <3>2
  <2>2. u = Stretch(Append(done, o)) BY <1>2, <1>6, <1>11, StretchFacts
  <2> DEFINE t == Tail(q)
  <2>3. /\ t \in Seq(Op) /\ DOMAIN t = 1..Len(q) - 1 /\ \A i \in 1..Len(q) - 1 : t[i] = q[i + 1]
    BY HeadTailProperties, LenProperties
  <2> HIDE DEF t
  <2>4. \A i \in DOMAIN t : x[t[i]] = 0
    <3> TAKE i \in DOMAIN t
    <3>1. i + 1 \in DOMAIN q /\ i + 1 # 1 /\ t[i] = q[i + 1] BY <2>3, <1>7
    <3> QED BY <3>1, <1>9
  <2>5. Sent(u, Append(done, o), t, x)
    <3>1. CASE t = <<>> BY <3>1, <2>2 DEF Sent
    <3>2. CASE t # <<>>
      <4>1. PICK p \in Op : p = Head(t) BY <3>2, <2>3, HeadAndTail
      <4>2. p = t[1] /\ 1 \in DOMAIN t BY <3>2, <4>1, <2>3, EmptySeq, LenProperties
      <4>3. Units(p, x[p]) = <<>> BY <4>1, <4>2, <2>4, NoUnits
      <4>4. Stretch(Append(done, o)) \in Seq(Op) BY <2>1, StretchType
      <4>5. u = Stretch(Append(done, o)) \o Units(p, x[p]) BY <2>2, <4>3, <4>4, ConcatEmptySeq
      <4> QED BY <3>2, <4>1, <4>5 DEF Sent
    <3> QED BY <3>1, <3>2
  <2>6. d = Append(done, o) \o t BY <2>1 DEF t
  <2>7. Exact(u, t, x, d) BY <2>1, <2>4, <2>5, <2>6 DEF Exact
  <2> QED BY <2>7 DEF t
<1> QED BY <1>10, <1>11

(* Only how far the writes in the queue are matters. *)
LEMMA ExactAgree ==
  ASSUME NEW v, NEW q \in Seq(Op), NEW w, NEW d, Exact(v, q, w, d),
         NEW x, \A o \in Range(q) : x[o] = w[o]
  PROVE  Exact(v, q, x, d)
<1>1. PICK done \in Seq(Op) : d = done \o q /\ Sent(v, done, q, w) BY DEF Exact
<1>2. \A i \in DOMAIN q : q[i] \in Range(q) BY DEF Range
<1>3. q # <<>> => Head(q) \in Range(q)
  <2> SUFFICES ASSUME q # <<>> PROVE Head(q) \in Range(q) OBVIOUS
  <2>1. 1 \in DOMAIN q /\ Head(q) = q[1] BY EmptySeq, LenProperties
  <2> QED BY <1>2, <2>1
<1>4. Sent(v, done, q, x) BY <1>1, <1>3 DEF Sent
<1>5. \A i \in DOMAIN q : i # 1 => x[q[i]] = 0 BY <1>2 DEF Exact
<1> QED BY <1>1, <1>4, <1>5 DEF Exact

(* A stream that sends nothing more. *)
Dead(s) == stream[s].status = "CLOSED" \/ (Live(s) /\ conn[stream[s].fd].rst)

Wired(s) ==
  /\ Begins(wire[s], Stretch(order[s]))
  /\ Dead(s) \/ Exact(wire[s], stream[s].writes, written, order[s])

AllWired == wire \in [Stream -> Seq(Op)] /\ \A s \in Stream : Wired(s)

(* A stream has one descriptor in its life, and once it is closed it stays so. *)
FieldsKept ==
  \A t \in Stream : Opened(t) =>
    /\ stream'[t].fd = stream[t].fd
    /\ stream[t].status = "CLOSED" => stream'[t].status = "CLOSED"

LEMMA FieldsChanged ==
  ASSUME Core, NEW s \in Stream, NEW r,
         stream' \in {stream, [stream EXCEPT ![s] = r]},
         Opened(s) => r.fd = stream[s].fd /\ (stream[s].status = "CLOSED" => r.status = "CLOSED")
  PROVE  FieldsKept
<1>1. CASE stream' = stream BY <1>1 DEF FieldsKept
<1>2. CASE stream' = [stream EXCEPT ![s] = r] BY <1>2 DEF FieldsKept, Core, Streams
<1> QED BY <1>1, <1>2

LEMMA FieldsClose ==
  ASSUME Core, NEW s \in Stream, NEW rest, CloseOver(s, rest)
  PROVE  FieldsKept
<1>1. stream[s] \in StreamRec BY DEF Core, Streams
<1> DEFINE r == [stream[s] EXCEPT !.status = "CLOSED"]
<1>2. stream' \in {stream, [stream EXCEPT ![s] = r]} BY DEF CloseOver
<1>3. r.fd = stream[s].fd /\ r.status = "CLOSED" BY <1>1 DEF StreamRec
<1> HIDE DEF r
<1> QED BY <1>2, <1>3, FieldsChanged

LEMMA FieldsProgram ==
  ASSUME Core, NEW s \in Stream, Program(s)
  PROVE  FieldsKept
<1>1. stream[s] \in StreamRec BY DEF Core, Streams
<1>2. CASE Masking(s)
  <2>1. PICK flags : stream' = [stream EXCEPT ![s] = [stream[s] EXCEPT !.flags = flags]]
    BY <1>2 DEF Masking, SetFlags
  <2> DEFINE r == [stream[s] EXCEPT !.flags = flags]
  <2>2. r.fd = stream[s].fd /\ r.status = stream[s].status BY <1>1 DEF StreamRec
  <2>3. stream' \in {stream, [stream EXCEPT ![s] = r]} BY <2>1
  <2> HIDE DEF r
  <2> QED BY <2>2, <2>3, FieldsChanged
<1>3. CASE Connect(s) \/ Accept(s)
  <2>1. stream[s] = Fresh BY <1>3 DEF Connect, Accept
  <2>2. PICK r : stream' = [stream EXCEPT ![s] = r]
    BY <1>3 DEF Connect, Accept, AcceptOver, Register
  <2>3. ~Opened(s) BY <2>1 DEF Opened, Fresh
  <2>4. stream' \in {stream, [stream EXCEPT ![s] = r]} BY <2>2
  <2> QED BY <2>3, <2>4, FieldsChanged
<1>4. CASE Shutdown(s)
  <2> DEFINE r == [stream[s] EXCEPT !.status = "SHUTDOWN"]
             w == [r EXCEPT !.flags = @ \cup {"OUT"}]
  <2>1. /\ stream' \in {stream, [stream EXCEPT ![s] = r]} \/ stream' \in {stream, [stream EXCEPT ![s] = w]}
        /\ stream[s].status = "ACTIVE"
    BY <1>4 DEF Shutdown
  <2>2. r.fd = stream[s].fd /\ w.fd = stream[s].fd BY <1>1 DEF StreamRec
  <2> HIDE DEF r, w
  <2> QED BY <2>1, <2>2, FieldsChanged
<1>5. CASE Close(s) BY <1>5, FieldsClose DEF Close
<1>6. CASE \E o \in Op : Write(s, o)
  <2>1. PICK o \in Op : Write(s, o) BY <1>6
  <2> DEFINE r == [stream[s] EXCEPT !.writes = Append(@, o), !.flags = @ \cup {"OUT"}]
  <2>2. stream' \in {stream, [stream EXCEPT ![s] = r]}
    BY <2>1 DEF Write, WriteRefused, WriteDirect, WriteQueued, WriteAsync
  <2>3. r.fd = stream[s].fd /\ r.status = stream[s].status BY <1>1 DEF StreamRec
  <2> HIDE DEF r
  <2> QED BY <2>2, <2>3, FieldsChanged
<1> QED BY <1>2, <1>3, <1>4, <1>5, <1>6 DEF Program

LEMMA FieldsLoop ==
  ASSUME Core, Loop, ~CloseCb
  PROVE  FieldsKept
<1>1. CASE MoveOn \/ Poll \/ Network \/ CloseReturn \/ Return \/ Read
  BY <1>1 DEF MoveOn, Moves, Go, Poll, Network, CloseReturn, Return, Read, FieldsKept
<1>2. CASE Dispatch
  <2>1. PICK e \in batch :
          IF stream[e.stream].handler = "connect" THEN ConnectIo(e.stream, e.events)
          ELSE UNCHANGED <<stream, reg>>
    BY <1>2 DEF Dispatch
  <2>2. PICK s \in Stream : s = e.stream
    <3>1. e \in EventRec BY DEF Core, Calls
    <3> QED BY <3>1 DEF EventRec
  <2>3. stream[s] \in StreamRec BY DEF Core, Streams
  <2> DEFINE r == [stream[s] EXCEPT !.status = "ACTIVE", !.handler = "client", !.flags = @ \ {"OUT"}]
  <2>4. stream' = stream \/ (stream' = [stream EXCEPT ![s] = r] /\ stream[s].status # "CLOSED")
    BY <2>1, <2>2 DEF ConnectIo
  <2>5. r.fd = stream[s].fd BY <2>3 DEF StreamRec
  <2> HIDE DEF r
  <2>6. CASE stream' = stream BY <2>6 DEF FieldsKept
  <2>7. CASE stream' = [stream EXCEPT ![s] = r] /\ stream[s].status # "CLOSED"
    <3>1. stream' \in {stream, [stream EXCEPT ![s] = r]} BY <2>7
    <3>2. Opened(s) => r.fd = stream[s].fd /\ (stream[s].status = "CLOSED" => r.status = "CLOSED")
      BY <2>5, <2>7
    <3> QED BY <3>1, <3>2, FieldsChanged
  <2> QED BY <2>4, <2>6, <2>7
<1>3. CASE Cancel \/ FlushWrite \/ FlushDone
  <2>1. PICK s \in Stream : s = Top.stream
    BY <1>3, TopGood DEF Cancel, FlushWrite, FlushDone, Runs, Core
  <2>2. stream[s] \in StreamRec BY DEF Core, Streams
  <2> DEFINE r == [stream[s] EXCEPT !.writes = Tail(@)]
             w == [stream[s] EXCEPT !.flags = @ \ {"OUT"}]
  <2>3. \/ stream' \in {stream, [stream EXCEPT ![s] = r]}
        \/ stream' \in {stream, [stream EXCEPT ![s] = w]}
    BY <1>3, <2>1 DEF Cancel, FlushWrite, FlushDone
  <2>4. /\ r.fd = stream[s].fd /\ r.status = stream[s].status
        /\ w.fd = stream[s].fd /\ w.status = stream[s].status
    BY <2>2 DEF StreamRec
  <2> HIDE DEF r, w
  <2> QED BY <2>3, <2>4, FieldsChanged
<1>4. CASE Eof \/ AfterRead
  <2>1. PICK s \in Stream : s = Top.stream BY <1>4, TopGood DEF Eof, AfterRead, Runs, Core
  <2>2. CASE CloseOver(s, Under) BY <2>2, FieldsClose
  <2>3. CASE stream' = stream BY <2>3 DEF FieldsKept
  <2> QED BY <1>4, <2>1, <2>2, <2>3 DEF Eof, AfterRead
<1> QED BY <1>1, <1>2, <1>3, <1>4 DEF Loop

LEMMA DeadKept ==
  ASSUME Core, Core', EndedKept, FieldsKept, NEW s \in Stream, Dead(s)
  PROVE  Dead(s)'
<1>1. Opened(s) BY DEF Dead, Live, Core, Streams, Attached, Fresh
<1>2. PICK f : f = stream[s].fd OBVIOUS
<1>3. stream'[s].fd = f /\ (stream[s].status = "CLOSED" => stream'[s].status = "CLOSED")
  BY <1>1, <1>2 DEF FieldsKept
<1>4. CASE stream'[s].status = "CLOSED" BY <1>4 DEF Dead
<1>5. CASE stream'[s].status # "CLOSED"
  <2>1. Live(s) /\ conn[f].rst BY <1>2, <1>3, <1>5 DEF Dead
  <2>2. Live(s)' BY <1>1, <1>2, <1>3, <1>5 DEF Live, Opened
  <2>3. f \in Fd /\ Open(f) BY <1>2, <2>1, LiveFacts DEF Core
  <2>4. conn'[f].owner = s BY <1>3, <2>2 DEF Core, Streams, Attached
  <2>5. Open(f)' BY <2>4, StreamAssumption DEF Open
  <2>6. conn'[f].rst BY <2>1, <2>3, <2>5 DEF EndedKept
  <2> QED BY <1>3, <2>2, <2>6 DEF Dead
<1> QED BY <1>4, <1>5

(* A step that leaves what a stream has sent and its queue alone. *)
LEMMA WiredKept ==
  ASSUME Core, NEW s \in Stream, Wired(s), Dead(s) => Dead(s)',
         wire'[s] = wire[s], order'[s] = order[s], stream'[s].writes = stream[s].writes,
         \A o \in Queued(s) : written'[o] = written[o]
  PROVE  Wired(s)'
<1>1. stream[s] \in StreamRec BY DEF Core, Streams
<1>2. PICK q \in Seq(Op) : q = stream[s].writes BY <1>1 DEF StreamRec
<1>3. PICK w : w = written OBVIOUS
<1>4. PICK x : x = written' OBVIOUS
<1>5. PICK v : v = wire[s] OBVIOUS
<1>6. PICK d : d = order[s] OBVIOUS
<1>7. Exact(v, q, w, d) => Exact(v, q, x, d)
  <2>1. \A o \in Range(q) : x[o] = w[o] BY <1>2, <1>3, <1>4 DEF Queued
  <2> QED BY <2>1, ExactAgree
<1>8. Wired(s)' <=> /\ Begins(wire'[s], Stretch(order'[s]))
                    /\ Dead(s)' \/ Exact(wire'[s], stream'[s].writes, written', order'[s])
  BY DEF Wired
<1>9. Begins(v, Stretch(d)) /\ (Dead(s) \/ Exact(v, q, w, d))
  BY <1>2, <1>3, <1>5, <1>6 DEF Wired
<1> QED BY <1>2, <1>4, <1>5, <1>6, <1>7, <1>8, <1>9

(* The streams that a step does not touch. *)
LEMMA WiredOthers ==
  ASSUME Core, AllWired, NEW s \in Stream, \A t \in Stream \ {s} : Dead(t) => Dead(t)',
         wire' \in [Stream -> Seq(Op)],
         \A t \in Stream \ {s} : wire'[t] = wire[t] /\ order'[t] = order[t] /\ stream'[t] = stream[t],
         \A t \in Stream \ {s} : \A o \in Queued(t) : written'[o] = written[o],
         Wired(s)'
  PROVE  AllWired'
<1>1. ASSUME NEW t \in Stream \ {s} PROVE Wired(t)'
  <2>1. Wired(t) /\ stream'[t].writes = stream[t].writes BY DEF AllWired
  <2> QED BY <2>1, WiredKept
<1>2. \A t \in Stream : Wired(t)' BY <1>1
<1> QED BY <1>2 DEF AllWired

LEMMA WiredSame ==
  ASSUME Core, AllWired, \A t \in Stream : Dead(t) => Dead(t)',
         UNCHANGED <<written, wire, order>>,
         \A t \in Stream : stream'[t].writes = stream[t].writes
  PROVE  AllWired'
<1>1. ASSUME NEW t \in Stream PROVE Wired(t)' BY WiredKept DEF AllWired
<1> QED BY <1>1 DEF AllWired

(* What a stream has sent after it sent n units of o. *)
LEMMA SendFacts ==
  ASSUME AllWired, Writes, NEW s \in Stream, NEW o \in Op, NEW n \in Nat, Send(s, o, n)
  PROVE  /\ wire' \in [Stream -> Seq(Op)] /\ wire'[s] = wire[s] \o Units(o, n)
         /\ \A t \in Stream \ {s} : wire'[t] = wire[t]
         /\ written' \in [Op -> Int] /\ written'[o] = written[o] + n
         /\ \A p \in Op : p # o => written'[p] = written[p]
<1>1. PICK u \in Seq(Op) : u = Units(o, n) BY UnitsFacts
<1>2. wire' = [wire EXCEPT ![s] = wire[s] \o u] BY <1>1 DEF Send, Units
<1>3. wire[s] \o u \in Seq(Op) BY <1>1, ConcatProperties DEF AllWired
<1>4. /\ wire' \in [Stream -> Seq(Op)] /\ wire'[s] = wire[s] \o u
      /\ \A t \in Stream \ {s} : wire'[t] = wire[t]
  BY <1>2, <1>3 DEF AllWired
<1>5. written' = [written EXCEPT ![o] = written[o] + n] BY DEF Send
<1>6. written \in [Op -> Nat] BY DEF Writes
<1> QED BY <1>1, <1>4, <1>5, <1>6

LEMMA WiredIs ==
  ASSUME NEW s
  PROVE  Wired(s)' <=> /\ Begins(wire'[s], Stretch(order'[s]))
                       /\ Dead(s)' \/ Exact(wire'[s], stream'[s].writes, written', order'[s])
  BY DEF Wired

(* A dead stream takes writes, but they are never sent. *)
LEMMA WiredDead ==
  ASSUME Writes, AllWired, NEW s \in Stream, Dead(s)', wire'[s] = wire[s],
         order'[s] = order[s] \/ \E o \in Op : order'[s] = Append(order[s], o)
  PROVE  Wired(s)'
<1>1. PICK v \in Seq(Op) : v = wire[s] BY DEF AllWired
<1>2. PICK d \in Seq(Op) : d = order[s] BY DEF Writes
<1>3. Begins(v, Stretch(d)) BY <1>1, <1>2 DEF AllWired, Wired
<1>4. CASE order'[s] = order[s] BY <1>1, <1>2, <1>3, <1>4, WiredIs
<1>5. CASE \E o \in Op : order'[s] = Append(order[s], o)
  <2>1. PICK o \in Op : order'[s] = Append(d, o) BY <1>2, <1>5
  <2>2. Append(d, o) \in Seq(Op) BY AppendIs
  <2>3. Stretch(d) \in Seq(Op) /\ Stretch(Append(d, o)) \in Seq(Op) BY <2>2, StretchType
  <2>4. Begins(v, Stretch(Append(d, o))) BY <1>3, <2>3, StretchBegins, BeginsTrans
  <2> QED BY <1>1, <2>1, <2>4, WiredIs
<1> QED BY <1>4, <1>5

(* What is left to show of a stream that is not. *)
LEMMA WiredExact ==
  ASSUME Core', Writes', wire' \in [Stream -> Seq(Op)], NEW s \in Stream,
         Exact(wire'[s], stream'[s].writes, written', order'[s])
  PROVE  Wired(s)'
<1>1. stream'[s] \in StreamRec BY DEF Core, Streams
<1>2. PICK q \in Seq(Op) : q = stream'[s].writes BY <1>1 DEF StreamRec
<1>3. PICK d \in Seq(Op) : d = order'[s] BY DEF Writes
<1>4. PICK w \in [Op -> Nat] : w = written' BY DEF Writes
<1>5. PICK v : v = wire'[s] OBVIOUS
<1>6. \A o \in Op : w[o] <= Size[o] BY <1>4 DEF Writes
<1>7. Exact(v, q, w, d) BY <1>2, <1>3, <1>4, <1>5
<1>8. Begins(v, Stretch(d)) BY <1>6, <1>7, ExactBegins
<1> QED BY <1>2, <1>3, <1>4, <1>5, <1>7, <1>8, WiredIs

LEMMA WiredWrite ==
  ASSUME Careful, Core, Core', Writes, Writes', AllWired,
         NEW s \in Stream, NEW o \in Op, Write(s, o)
  PROVE  AllWired'
<1>1. /\ MayCall /\ Unused(o) /\ Opened(s) /\ conn' = conn
      /\ WriteRefused(s, o) \/ WriteDirect(s, o) \/ WriteQueued(s, o)
  BY DEF Write, Opened
<1>2. written[o] = 0 /\ \A t \in Stream : o \notin Queued(t)
  <2>1. written[o] = 0 /\ \A t \in Stream : o \notin Accepted(t) BY <1>1, UnusedFacts DEF Writes
  <2> QED BY <2>1 DEF Writes, Queue
<1>3. \A t \in Stream : Dead(t) => Dead(t)'
  <2>1. EndedKept /\ FieldsKept BY EndedProgram, FieldsProgram DEF Program
  <2> QED BY <2>1, DeadKept
<1>4. CASE WriteRefused(s, o)
  <2>1. UNCHANGED <<stream, written, wire, order>> BY <1>4 DEF WriteRefused
  <2> QED BY <2>1, <1>3, WiredSame
<1>5. stream[s] \in StreamRec BY DEF Core, Streams
<1>6. PICK q \in Seq(Op) : q = stream[s].writes BY <1>5 DEF StreamRec
<1>7. PICK d \in Seq(Op) : d = order[s] BY DEF Writes
<1>8. ASSUME order' = [order EXCEPT ![s] = Append(@, o)]
      PROVE  order'[s] = Append(d, o) /\ \A t \in Stream \ {s} : order'[t] = order[t]
  BY <1>7, <1>8 DEF Writes
<1>9. ASSUME WriteAsync(s, o)
      PROVE  stream'[s].writes = Append(q, o) /\ \A t \in Stream \ {s} : stream'[t] = stream[t]
  <2>1. stream' = [stream EXCEPT ![s] = [stream[s] EXCEPT !.writes = Append(@, o), !.flags = @ \cup {"OUT"}]]
    BY <1>9 DEF WriteAsync
  <2> QED BY <1>5, <1>6, <2>1 DEF Core, Streams, StreamRec
<1>10. CASE WriteQueued(s, o)
  <2>1. /\ q # <<>> /\ order' = [order EXCEPT ![s] = Append(@, o)] /\ WriteAsync(s, o)
        /\ UNCHANGED <<written, wire>>
    BY <1>6, <1>10 DEF WriteQueued
  <2>2. /\ stream'[s].writes = Append(q, o) /\ order'[s] = Append(d, o)
        /\ \A t \in Stream \ {s} : order'[t] = order[t] /\ stream'[t] = stream[t]
    BY <2>1, <1>8, <1>9
  <2>3. wire' \in [Stream -> Seq(Op)] BY <2>1 DEF AllWired
  <2>4. Wired(s)'
    <3>1. CASE Dead(s) BY <3>1, <1>3, <1>7, <2>1, <2>2, WiredDead
    <3>2. CASE ~Dead(s)
      <4>1. PICK w : w = written OBVIOUS
      <4>2. PICK v : v = wire[s] OBVIOUS
      <4>3. Exact(v, q, w, d) BY <3>2, <4>1, <4>2, <1>6, <1>7 DEF AllWired, Wired
      <4>4. Exact(v, Append(q, o), w, Append(d, o)) BY <1>2, <2>1, <4>1, <4>3, ExactQueued
      <4> QED BY <4>1, <4>2, <4>4, <2>1, <2>2, <2>3, WiredExact
    <3> QED BY <3>1, <3>2
  <2> QED BY <1>3, <2>1, <2>2, <2>3, <2>4, WiredOthers
<1>11. CASE WriteDirect(s, o)
  <2>1. /\ q = <<>> /\ order' = [order EXCEPT ![s] = Append(@, o)] /\ stream[s].status = "ACTIVE"
    BY <1>6, <1>11 DEF WriteDirect
  <2>2. order'[s] = Append(d, o) /\ \A t \in Stream \ {s} : order'[t] = order[t] BY <2>1, <1>8
  <2>3. PICK n \in WriteResults(stream[s].fd, Size[o]) :
          IF n = -1 THEN UNCHANGED <<stream, written, wire>>
          ELSE /\ Send(s, o, n)
               /\ IF n = Size[o] THEN UNCHANGED stream ELSE WriteAsync(s, o)
    BY <1>11 DEF WriteDirect
  <2>4. Live(s) BY <1>1, <2>1 DEF Live
  <2>5. CASE n = -1
    <3>1. Dead(s)'
      <4>1. Size[o] \in Nat BY OpAssumption
      <4>2. -1 \notin 0..Size[o] BY <4>1
      <4>3. conn[stream[s].fd].rst BY <2>3, <2>5, <4>2 DEF WriteResults
      <4>4. Dead(s) BY <2>4, <4>3 DEF Dead
      <4> QED BY <4>4, <1>3
    <3>2. wire' \in [Stream -> Seq(Op)] /\ UNCHANGED <<stream, written, wire>>
      BY <2>3, <2>5 DEF AllWired
    <3>3. Wired(s)' BY <3>1, <3>2, <1>7, <2>2, WiredDead
    <3> QED BY <3>2, <3>3, <1>3, <2>2, WiredOthers
  <2>6. CASE n # -1
    <3>1. ~Dead(s)
      <4>1. ~conn[stream[s].fd].rst BY <2>3, <2>6 DEF WriteResults
      <4> QED BY <4>1, <2>1 DEF Dead
    <3>2. n \in 0..Size[o] /\ n \in Nat
      <4>1. Size[o] \in Nat BY OpAssumption
      <4> QED BY <2>3, <2>6, <4>1, ResultFacts
    <3>3. /\ wire' \in [Stream -> Seq(Op)] /\ wire'[s] = wire[s] \o Units(o, n)
          /\ \A t \in Stream \ {s} : wire'[t] = wire[t]
          /\ written'[o] = written[o] + n /\ \A p \in Op : p # o => written'[p] = written[p]
      BY <3>2, <2>3, <2>6, SendFacts
    <3>4. written'[o] = n BY <1>2, <3>2, <3>3
    <3>5. PICK w : w = written OBVIOUS
    <3>6. PICK v : v = wire[s] OBVIOUS
    <3>7. PICK x : x = written' OBVIOUS
    <3>8. PICK u : u = wire'[s] OBVIOUS
    <3>9. Exact(v, <<>>, w, d) BY <3>1, <3>5, <3>6, <1>6, <1>7, <2>1 DEF AllWired, Wired
    <3>10. /\ n = Size[o] => Exact(u, <<>>, x, Append(d, o))
           /\ Exact(u, Append(<<>>, o), x, Append(d, o))
      <4>1. x[o] = n /\ u = v \o Units(o, n) BY <3>3, <3>4, <3>6, <3>7, <3>8
      <4> QED BY <3>2, <3>9, <4>1, ExactDirect
    <3>11. /\ stream'[s].writes \in {<<>>, Append(<<>>, o)}
           /\ stream'[s].writes = <<>> => n = Size[o]
           /\ \A t \in Stream \ {s} : stream'[t] = stream[t]
      <4>1. CASE n = Size[o] BY <4>1, <2>1, <2>3, <2>6, <1>6
      <4>2. CASE n # Size[o]
        <5>1. WriteAsync(s, o) BY <4>2, <2>3, <2>6
        <5>2. Append(<<>>, o) # <<>> /\ q = <<>> BY <2>1
        <5> QED BY <5>1, <5>2, <1>9
      <4> QED BY <4>1, <4>2
    <3>12. Exact(u, stream'[s].writes, x, Append(d, o)) BY <3>10, <3>11
    <3>13. Wired(s)' BY <3>3, <3>7, <3>8, <3>12, <2>2, WiredExact
    <3>14. \A t \in Stream \ {s} : \A p \in Queued(t) : written'[p] = written[p]
      <4>1. \A t \in Stream : Queued(t) \subseteq Op BY QueueFacts DEF Core
      <4> QED BY <4>1, <1>2, <3>3
    <3> QED BY <1>3, <2>2, <3>3, <3>11, <3>13, <3>14, WiredOthers
  <2> QED BY <2>5, <2>6
<1> QED BY <1>1, <1>4, <1>10, <1>11

LEMMA WiredFlush ==
  ASSUME Core, Core', Writes, Writes', AllWired, FlushWrite
  PROVE  AllWired'
<1>1. stack # <<>> /\ Top.fn = "flush" /\ order' = order /\ conn' = conn
  BY DEF FlushWrite, Runs, sysVars
<1>2. PICK s \in Stream : s = Top.stream BY <1>1, TopGood DEF Core
<1>3. stream[s] \in StreamRec BY DEF Core, Streams
<1>4. PICK q \in Seq(Op) : q = stream[s].writes BY <1>3 DEF StreamRec
<1>5. q # <<>> BY <1>2, <1>4 DEF FlushWrite
<1>6. PICK o \in Op : o = Head(q) BY <1>5, HeadAndTail
<1>7. PICK d \in Seq(Op) : d = order[s] BY DEF Writes
<1>8. \A t \in Stream : Dead(t) => Dead(t)'
  <2>1. EndedKept /\ FieldsKept
    <3>1. Loop /\ ~CloseCb
      <4>1. pc = "dispatch"
        <5>1. Good(Len(stack)) /\ Top = stack[Len(stack)] BY <1>1, TopGood, TopFacts DEF Core, Calls
        <5> QED BY <1>1, <5>1 DEF Good
      <4> QED BY <4>1 DEF Loop, CloseCb
    <3> QED BY <3>1, EndedLoop, FieldsLoop
  <2> QED BY <2>1, DeadKept
<1>9. Live(s)
  <2>1. Good(Len(stack)) /\ Top = stack[Len(stack)] BY <1>1, TopGood, TopFacts DEF Core, Calls
  <2> QED BY <1>1, <1>2, <2>1 DEF Good
<1>10. PICK w \in [Op -> Nat] : w = written BY DEF Writes
<1>11. PICK rest \in Nat : rest = Size[o] - w[o]
  <2>1. Size[o] \in Nat /\ w[o] <= Size[o] BY <1>10, OpAssumption DEF Writes
  <2> QED BY <2>1
<1> DEFINE popped == [stream EXCEPT ![s].writes = Tail(stream[s].writes)]
<1>12. PICK n \in WriteResults(stream[s].fd, rest) :
         IF n = -1 THEN stream' = popped /\ UNCHANGED <<written, wire>>
         ELSE /\ Send(s, o, n)
              /\ IF n = rest THEN stream' = popped ELSE UNCHANGED stream
  BY <1>2, <1>4, <1>6, <1>10, <1>11 DEF FlushWrite
<1>13. /\ popped[s].writes = Tail(q) /\ \A t \in Stream \ {s} : popped[t] = stream[t]
  BY <1>3, <1>4 DEF Core, Streams, StreamRec
<1> HIDE DEF popped
<1>14. \A t \in Stream \ {s} : stream'[t] = stream[t] BY <1>12, <1>13
<1>15. CASE n = -1
  <2>1. -1 \notin 0..rest OBVIOUS
  <2>2. conn[stream[s].fd].rst BY <1>12, <1>15, <2>1 DEF WriteResults
  <2>3. Dead(s)' BY <2>2, <1>8, <1>9 DEF Dead
  <2>4. UNCHANGED <<written, wire>> /\ wire' \in [Stream -> Seq(Op)] BY <1>12, <1>15 DEF AllWired
  <2>5. Wired(s)' BY <2>3, <2>4, <1>1, WiredDead
  <2> QED BY <2>4, <2>5, <1>1, <1>8, <1>14, WiredOthers
<1>16. CASE n # -1
  <2>1. ~Dead(s)
    <3>1. ~conn[stream[s].fd].rst BY <1>12, <1>16 DEF WriteResults
    <3> QED BY <3>1, <1>9 DEF Dead, Live
  <2>2. n \in 0..rest /\ n \in Nat BY <1>12, <1>16, ResultFacts
  <2>3. /\ wire' \in [Stream -> Seq(Op)] /\ wire'[s] = wire[s] \o Units(o, n)
        /\ \A t \in Stream \ {s} : wire'[t] = wire[t]
        /\ written'[o] = written[o] + n /\ \A p \in Op : p # o => written'[p] = written[p]
    BY <2>2, <1>12, <1>16, SendFacts
  <2>4. PICK v : v = wire[s] OBVIOUS
  <2>5. PICK x : x = written' OBVIOUS
  <2>6. PICK u : u = wire'[s] OBVIOUS
  <2>7. Exact(v, q, w, d) BY <2>1, <2>4, <1>4, <1>7, <1>10 DEF AllWired, Wired
  <2>8. Queue(s) /\ NoRepeat(q) /\ o \in Queued(s)
    <3>1. Queue(s) /\ NoRepeat(q) BY <1>4 DEF Writes, Queue
    <3> QED BY <3>1, <1>4, <1>5, <1>6, TailNoRepeat DEF Queued
  <2>9. Exact(u, q, x, d) /\ (x[o] = Size[o] => Exact(u, Tail(q), x, d))
    <3>1. /\ x[o] = w[o] + n /\ u = v \o Units(o, n) /\ w[o] \in Nat
          /\ \A p \in Op : p # o => x[p] = w[p]
      BY <2>3, <2>4, <2>5, <2>6, <1>10
    <3> QED BY <3>1, <2>2, <2>7, <2>8, <1>5, <1>6, ExactFlush
  <2>10. n = rest => x[o] = Size[o]
    <3>1. Size[o] \in Nat /\ w[o] \in Nat BY OpAssumption
    <3> QED BY <3>1, <2>3, <2>5, <1>10, <1>11
  <2>11. Exact(u, stream'[s].writes, x, d)
    <3>1. CASE n = rest
      <4>1. stream'[s].writes = Tail(q) BY <3>1, <1>12, <1>13, <1>16
      <4> QED BY <3>1, <4>1, <2>9, <2>10
    <3>2. CASE n # rest
      <4>1. stream'[s].writes = q BY <3>2, <1>4, <1>12, <1>16
      <4> QED BY <4>1, <2>9
    <3> QED BY <3>1, <3>2
  <2>12. Wired(s)' BY <2>3, <2>5, <2>6, <2>11, <1>1, <1>7, WiredExact
  <2>13. \A t \in Stream \ {s} : \A p \in Queued(t) : written'[p] = written[p]
    <3>1. \A t \in Stream : Queued(t) \subseteq Op BY QueueFacts DEF Core
    <3>2. \A t \in Stream \ {s} : o \notin Queued(t) BY <2>8 DEF Writes, Queue
    <3> QED BY <3>1, <3>2, <2>3
  <2> QED BY <1>1, <1>8, <1>14, <2>3, <2>12, <2>13, WiredOthers
<1> QED BY <1>15, <1>16

LEMMA WiredCancel ==
  ASSUME Core, Core', Writes, AllWired, Cancel
  PROVE  AllWired'
<1>1. /\ stack # <<>> /\ Top.fn = "cancel" /\ Loop /\ ~CloseCb
      /\ UNCHANGED <<written, wire, order>>
  <2>1. stack # <<>> /\ Top.fn = "cancel" /\ UNCHANGED <<written, wire, order>>
    BY DEF Cancel, Runs, history
  <2>2. CloseCb => pc = "closes" BY DEF CloseCb
  <2>3. pc # "closes" BY <2>1 DEF Core, Calls, ProgramPc
  <2> QED BY <2>1, <2>2, <2>3 DEF Loop
<1>2. \A t \in Stream : Dead(t) => Dead(t)' BY <1>1, EndedLoop, FieldsLoop, DeadKept
<1>3. PICK s \in Stream : s = Top.stream BY <1>1, TopGood DEF Core
<1>4. stream[s].status = "CLOSED"
  <2>1. /\ Top = stack[Len(stack)] /\ Len(stack) \in Nat \ {0}
    BY <1>1, TopFacts DEF Core, Calls
  <2>2. Cancels(Len(stack)) BY <1>1, <2>1 DEF Cancels
  <2> QED BY <1>3, <2>1, <2>2 DEF Core, Closing
<1>5. \A t \in Stream \ {s} : stream'[t] = stream[t] BY <1>3 DEF Cancel, Core, Streams
<1>6. Dead(s)' BY <1>2, <1>4 DEF Dead
<1>7. Wired(s)' BY <1>1, <1>6, WiredDead
<1>8. wire' \in [Stream -> Seq(Op)] BY <1>1 DEF AllWired
<1> QED BY <1>1, <1>2, <1>5, <1>7, <1>8, WiredOthers

(* Nothing is sent and nothing accepted. *)
LEMMA ExactNone == ASSUME NEW w PROVE Exact(<<>>, <<>>, w, <<>>)
<1>1. <<>> \in Seq(Op) /\ <<>> = <<>> \o <<>> BY EmptySeq, ConcatEmptySeq
<1>2. Sent(<<>>, <<>>, <<>>, w) BY NoStretch DEF Sent
<1>3. \A i \in DOMAIN <<>> : i # 1 => w[<<>>[i]] = 0 OBVIOUS
<1> QED BY <1>1, <1>2, <1>3 DEF Exact

LEMMA WiredCb ==
  ASSUME Core, Core', Writes, Writes', AllWired, CloseCb
  PROVE  AllWired'
<1>1. PICK s \in Stream :
        /\ s = Head(pending_closes) /\ stream'[s] = Fresh
        /\ \A t \in Stream \ {s} : stream'[t] = stream[t]
  BY CloseCbStep DEF Core
<1>2. /\ wire' = [wire EXCEPT ![s] = <<>>] /\ order' = [order EXCEPT ![s] = <<>>]
      /\ written' = written /\ conn' = conn
  BY <1>1 DEF CloseCb, opVars, sysVars
<1>3. /\ wire' \in [Stream -> Seq(Op)] /\ wire'[s] = <<>> /\ order'[s] = <<>>
      /\ \A t \in Stream \ {s} : wire'[t] = wire[t] /\ order'[t] = order[t]
  <2>1. <<>> \in Seq(Op) BY EmptySeq
  <2> QED BY <1>2, <2>1 DEF AllWired, Writes
<1>4. Wired(s)'
  <2>1. PICK x : x = written' OBVIOUS
  <2>2. stream'[s].writes = <<>> BY <1>1 DEF Fresh
  <2>3. Exact(<<>>, <<>>, x, <<>>) BY ExactNone
  <2> QED BY <1>3, <2>1, <2>2, <2>3, WiredExact
<1>5. \A t \in Stream \ {s} : Dead(t) => Dead(t)' BY <1>1, <1>2 DEF Dead, Live, Opened
<1> QED BY <1>1, <1>2, <1>3, <1>4, <1>5, WiredOthers

LEMMA WiredMoves ==
  ASSUME Careful, Core, Core', Writes, Writes', AllWired,
         (\E s \in Stream : Program(s)) \/ Loop \/ UNCHANGED vars
  PROVE  AllWired'
<1>1. ASSUME NEW s \in Stream, Program(s) PROVE AllWired'
  <2>1. CASE \E o \in Op : Write(s, o) BY <2>1, WiredWrite
  <2>2. CASE ~\E o \in Op : Write(s, o)
    <3>1. /\ UNCHANGED <<written, calls, history>>
          /\ \A t \in Stream : stream'[t].writes = stream[t].writes
      BY <1>1, <2>2, QueuesSame DEF Program
    <3>2. \A t \in Stream : Dead(t) => Dead(t)' BY <1>1, EndedProgram, FieldsProgram, DeadKept
    <3> QED BY <3>1, <3>2, WiredSame DEF history
  <2> QED BY <2>1, <2>2
<1>2. CASE Loop
  <2>1. CASE Cancel \/ FlushWrite \/ CloseCb
    BY <2>1, WiredCancel, WiredFlush, WiredCb
  <2>2. CASE ~(Cancel \/ FlushWrite \/ CloseCb)
    <3>1. /\ UNCHANGED <<written, calls, history>>
          /\ \A t \in Stream : stream'[t].writes = stream[t].writes
      BY <1>2, <2>2, QueuesSame DEF Loop
    <3>2. \A t \in Stream : Dead(t) => Dead(t)' BY <1>2, <2>2, EndedLoop, FieldsLoop, DeadKept
    <3> QED BY <3>1, <3>2, WiredSame DEF history
  <2> QED BY <2>1, <2>2
<1>3. CASE UNCHANGED vars
  <2>1. UNCHANGED <<stream, conn, written, wire, order>> BY <1>3 DEF vars, opVars, sysVars, history
  <2>2. \A t \in Stream : Dead(t) => Dead(t)' BY <2>1 DEF Dead, Live, Opened
  <2> QED BY <2>1, <2>2, WiredSame
<1> QED BY <1>1, <1>2, <1>3

LEMMA WiredStep ==
  ASSUME Careful, Core, Core', Writes, Writes', AllWired, [Next]_vars
  PROVE  AllWired'
  BY StepCases, WiredMoves DEF Core

LEMMA WiredInit == Init => AllWired
<1> SUFFICES ASSUME Init PROVE AllWired OBVIOUS
<1>1. wire \in [Stream -> Seq(Op)]
  <2>1. <<>> \in Seq(Op) BY EmptySeq
  <2> QED BY <2>1 DEF Init
<1>2. PICK w : w = written OBVIOUS
<1>3. Begins(<<>>, Stretch(<<>>))
  <2>1. <<>> \in Seq(Op) /\ <<>> = <<>> \o <<>> BY EmptySeq, ConcatEmptySeq
  <2> QED BY <2>1, NoStretch DEF Begins
<1>4. ASSUME NEW s \in Stream PROVE Wired(s)
  <2>1. wire[s] = <<>> /\ order[s] = <<>> /\ stream[s].writes = <<>> BY DEF Init, Fresh
  <2>2. Exact(<<>>, <<>>, w, <<>>) BY ExactNone
  <2> QED BY <1>2, <1>3, <2>1, <2>2 DEF Wired
<1> QED BY <1>1, <1>4 DEF AllWired

LEMMA PrefixIs ==
  ASSUME NEW v \in Seq(Op), NEW u \in Seq(Op), Begins(v, u)
  PROVE  IsPrefix(v, u)
<1>1. PICK c \in Seq(Op) : u = v \o c BY DEF Begins
<1>2. /\ Len(u) = Len(v) + Len(c) /\ Len(v) \in Nat /\ Len(c) \in Nat
      /\ \A i \in 1..Len(v) : u[i] = v[i]
  BY <1>1, ConcatProperties, LenProperties
<1>3. Len(v) <= Len(u) BY <1>2
<1>4. SubSeq(v, 1, Len(v)) = SubSeq(u, 1, Len(v))
  <2>1. SubSeq(v, 1, Len(v)) = [i \in 1..Len(v) |-> v[i]] BY <1>2
  <2>2. SubSeq(u, 1, Len(v)) = [i \in 1..Len(v) |-> u[i]] BY <1>2
  <2> QED BY <1>2, <2>1, <2>2
<1> QED BY <1>3, <1>4 DEF IsPrefix

LEMMA SentInOrder == Writes /\ AllWired => WireOrder
<1> SUFFICES ASSUME Writes, AllWired, NEW s \in Stream
             PROVE  IsPrefix(wire[s], Stretch(order[s]))
  BY DEF WireOrder, Stretch
<1>1. wire[s] \in Seq(Op) /\ order[s] \in Seq(Op) BY DEF Writes, AllWired
<1>2. Stretch(order[s]) \in Seq(Op) BY <1>1, StretchType
<1>3. Begins(wire[s], Stretch(order[s])) BY DEF AllWired, Wired
<1> QED BY <1>1, <1>2, <1>3, PrefixIs

(* What goes out on a stream is its writes, in the order pd_tcp_write accepted
   them and none mixed with another, whatever was accepted at a time and
   whichever callback added a write. *)
THEOREM TcpWireOrder ==
  ASSUME Careful
  PROVE  Spec => []WireOrder
<1>1. Core /\ Core' /\ Writes /\ Writes' /\ AllWired /\ [Next]_vars => AllWired' BY WiredStep
<1>2. Writes /\ AllWired => WireOrder BY SentInOrder
<1> QED BY <1>1, <1>2, WiredInit, CoreAlways, WritesAlways, PTL DEF Spec

-----------------------------------------------------------------------------
(* Closing and waiting. *)

LEMMA WaitsStep ==
  ASSUME Careful, "early" \in Rules, Core, Core', Waits, [Next]_vars
  PROVE  Waits'
<1> DEFINE Waiting == pc \in {"script", "loop", "poll", "after"}
<1>1. ASSUME pc' = pc, pending_closes' = pending_closes, NEW k, Keeps(k),
             \A i \in k + 1..Len(stack') : stack'[i].fn = "user"
      PROVE  Waits'
  <2>1. k \in Nat /\ Len(stack') \in Nat BY <1>1 DEF Keeps, Core, Calls
  <2>2. \A i \in 1..k : stack'[i] = stack[i] /\ i \in 1..Len(stack) BY <1>1 DEF Keeps, Core, Calls
  <2>3. \A i \in 1..Len(stack') : i \in 1..k \/ i \in k + 1..Len(stack') BY <2>1
  <2> QED BY <1>1, <2>2, <2>3 DEF Waits
<1>2. ASSUME UNCHANGED <<pc, pending_closes, stack>> PROVE Waits'
  BY <1>2 DEF Waits
<1>3. ASSUME Waiting, stack # <<>> PROVE Top.fn = "user"
  <2>1. Top = stack[Len(stack)] /\ Len(stack) \in 1..Len(stack) BY <1>3, TopFacts DEF Core, Calls
  <2> QED BY <1>3, <2>1 DEF Waits
<1>4. ASSUME NEW s \in Stream, Program(s) PROVE Waits'
  <2>1. CASE Masking(s) \/ Connect(s) \/ Accept(s) \/ Shutdown(s)
    BY <2>1, <1>2 DEF Masking, SetFlags, Connect, Accept, AcceptOver, Register, Shutdown, ctxVars, loopVars
  <2>2. CASE Close(s)
    <3>1. pc \in ProgramPc \cup {"dispatch"} /\ pc \notin {"script", "after"} /\ pc' = pc
      BY <2>2, ProgramFacts DEF Close, MayCall, Allowed, CloseOver, Core
    <3> QED BY <3>1 DEF Waits, ProgramPc
  <2>3. CASE \E o \in Op : Write(s, o)
    <3>1. PICK o \in Op : Write(s, o) BY <2>3
    <3>2. UNCHANGED <<pc, pending_closes>> BY <3>1 DEF Write, ctxVars
    <3>3. stack' = stack \/ stack' = Append(stack, Frame("user", s))
      BY <3>1 DEF Write, WriteRefused, WriteDirect, WriteQueued, WriteAsync, CallBack, Push
    <3>4. CASE stack' = Append(stack, Frame("user", s))
      <4>1. Frame("user", s) \in FrameRec /\ Frame("user", s).fn = "user" BY FrameType
      <4>2. PICK k \in Nat : k = Len(stack) BY DEF Core, Calls
      <4>3. Keeps(k) /\ Len(stack') = k + 1 /\ stack'[k + 1].fn = "user"
        BY <3>4, <4>1, <4>2, PushFacts DEF Core, Calls
      <4>4. \A i \in k + 1..Len(stack') : i = k + 1 BY <4>3
      <4> QED BY <3>2, <4>3, <4>4, <1>1
    <3> QED BY <3>2, <3>3, <3>4, <1>2
  <2> QED BY <1>4, <2>1, <2>2, <2>3 DEF Program
<1>5. CASE Loop
  <2>1. CASE MoveOn
    <3>1. UNCHANGED <<stack, pending_closes>> /\ stack = <<>> BY <2>1 DEF MoveOn, Moves, Go, ctxVars
    <3>2. Len(stack') = 0 BY <3>1
    <3>3. \A i \in 1..Len(stack') : FALSE BY <3>2
    <3>4. pc' \in {"script", "loop", "poll", "after"} =>
            pc \in {"script", "loop", "poll", "after"} \/ pending_closes = <<>>
      BY <2>1 DEF MoveOn, Moves, Go
    <3> QED BY <3>1, <3>3, <3>4 DEF Waits
  <2>2. CASE Network BY <2>2, <1>2 DEF Network, loopVars, ctxVars
  <2>3. CASE Poll \/ Dispatch \/ CloseCb \/ CloseReturn
    <3>1. pc' \in {"dispatch", "closecb", "closes"}
      BY <2>3 DEF Poll, Dispatch, CloseCb, CloseReturn
    <3> QED BY <3>1 DEF Waits
  <2>4. CASE Return
    <3>1. UNCHANGED <<pc, pending_closes>> /\ stack # <<>> /\ stack' = Under
      BY <2>4 DEF Return, Runs, ctxVars
    <3>2. PICK k \in Nat : k = Len(stack) - 1 BY <3>1, TopFacts DEF Core, Calls
    <3>3. Keeps(k) /\ Len(stack') = k BY <3>1, <3>2, PopFacts DEF Core, Calls
    <3>4. \A i \in k + 1..Len(stack') : FALSE BY <3>3
    <3> QED BY <3>1, <3>3, <3>4, <1>1
  <2>5. CASE Cancel \/ Read \/ Eof \/ AfterRead \/ FlushWrite \/ FlushDone
    <3>1. stack # <<>> /\ Top.fn # "user" /\ pc' = pc
      BY <2>5 DEF Cancel, Read, Eof, AfterRead, FlushWrite, FlushDone, Runs, CloseOver
    <3> QED BY <3>1, <1>3 DEF Waits
  <2> QED BY <1>5, <2>1, <2>2, <2>3, <2>4, <2>5 DEF Loop
<1>6. CASE UNCHANGED vars BY <1>6, <1>2 DEF vars, loopVars, ctxVars
<1> QED BY <1>4, <1>5, <1>6, StepCases DEF Core

(* When the program closes nothing just before the loop waits, no closed stream
   waits for its on_close while the loop waits for events. *)
THEOREM TcpNoWaitOnClose ==
  ASSUME Careful, "early" \in Rules
  PROVE  Spec => []NoWaitOnClose
<1>1. Init => Waits
  <2> SUFFICES ASSUME Init PROVE Waits OBVIOUS
  <2>1. Len(stack) = 0 /\ pending_closes = <<>> BY DEF Init
  <2>2. \A i \in 1..Len(stack) : FALSE BY <2>1
  <2> QED BY <2>1, <2>2 DEF Waits
<1>2. Core /\ Core' /\ Waits /\ [Next]_vars => Waits' BY WaitsStep
<1>3. Waits => NoWaitOnClose BY DEF Waits, NoWaitOnClose
<1> QED BY <1>1, <1>2, <1>3, CoreAlways, PTL DEF Spec

-----------------------------------------------------------------------------
(* The depth of callbacks. *)

Users(q) == {i \in DOMAIN q : q[i].fn = "user"}

(* A handler, and a pd_tcp_close that cancels, may call back once more. *)
Depth ==
  /\ Nesting <= MaxDepth
  /\ stack # <<>> /\ Top.fn # "user" => Nesting < MaxDepth

LEMMA UsersCount ==
  ASSUME NEW q \in Seq(FrameRec)
  PROVE  IsFiniteSet(Users(q)) /\ Cardinality(Users(q)) \in Nat
<1>1. PICK n \in Nat : n = Len(q) OBVIOUS
<1>2. DOMAIN q = 1..n BY <1>1
<1>3. IsFiniteSet(1..n) BY FS_Interval
<1>4. IsFiniteSet(Users(q)) BY <1>2, <1>3, FS_Subset DEF Users
<1> QED BY <1>4, FS_CardinalityType

LEMMA UsersAppend ==
  ASSUME NEW q \in Seq(FrameRec), NEW fr \in FrameRec
  PROVE  /\ Cardinality(Users(q)) \in Nat
         /\ Cardinality(Users(Append(q, fr))) =
              Cardinality(Users(q)) + (IF fr.fn = "user" THEN 1 ELSE 0)
<1>1. PICK n \in Nat : n = Len(q) OBVIOUS
<1> DEFINE r == Append(q, fr)
<1>2. /\ DOMAIN q = 1..n /\ DOMAIN r = 1..n + 1 /\ r[n + 1] = fr
      /\ \A i \in 1..n : r[i] = q[i]
  BY <1>1, AppendProperties
<1> HIDE DEF r
<1>4. IsFiniteSet(Users(q)) BY UsersCount
<1>5. Cardinality(Users(q)) \in Nat BY UsersCount
<1>6. \A i : i \in 1..n + 1 <=> i \in 1..n \/ i = n + 1 BY <1>1
<1>7. n + 1 \notin Users(q) BY <1>2 DEF Users
<1>8. CASE fr.fn = "user"
  <2>1. Users(r) = Users(q) \cup {n + 1} BY <1>2, <1>6, <1>8 DEF Users
  <2> QED BY <2>1, <1>4, <1>7, <1>8, FS_AddElement, <1>5 DEF r
<1>9. CASE fr.fn # "user"
  <2>1. Users(r) = Users(q) BY <1>2, <1>6, <1>9 DEF Users
  <2> QED BY <2>1, <1>5, <1>9 DEF r
<1> QED BY <1>5, <1>8, <1>9

LEMMA UsersUnder ==
  ASSUME stack \in Seq(FrameRec), stack # <<>>, Depth
  PROVE  Cardinality(Users(Under)) \in Nat /\ Cardinality(Users(Under)) < MaxDepth
<1>1. PICK n \in Nat : n = Len(stack) - 1 BY TopFacts
<1>2. /\ DOMAIN stack = 1..n + 1 /\ DOMAIN Under = 1..n /\ Top = stack[n + 1]
      /\ \A i \in 1..n : Under[i] = stack[i]
  BY <1>1, TopFacts
<1>4. IsFiniteSet(Users(stack)) BY UsersCount
<1>5. Cardinality(Users(stack)) \in Nat BY UsersCount
<1>6. \A i : i \in 1..n + 1 <=> i \in 1..n \/ i = n + 1 BY <1>1
<1>7. Nesting = Cardinality(Users(stack)) BY DEF Nesting, Users
<1>8. Users(Under) = Users(stack) \ {n + 1}
  <2>1. \A i \in 1..n : i # n + 1 BY <1>1
  <2> QED BY <2>1, <1>2, <1>6 DEF Users
<1>9. n + 1 \in Users(stack) <=> Top.fn = "user" BY <1>2, <1>6 DEF Users
<1>10. Cardinality(Users(Under)) =
         IF Top.fn = "user" THEN Cardinality(Users(stack)) - 1 ELSE Cardinality(Users(stack))
  BY <1>4, <1>8, <1>9, FS_RemoveElement
<1>11. IsFiniteSet(Users(Under)) BY <1>4, <1>8, FS_RemoveElement
<1>12. Cardinality(Users(Under)) \in Nat BY <1>11, FS_CardinalityType
<1>13. MaxDepth \in Nat BY BoundAssumption
<1> QED BY <1>5, <1>7, <1>10, <1>12, <1>13 DEF Depth

LEMMA DepthOver ==
  ASSUME NEW q \in Seq(FrameRec), Cardinality(Users(q)) < MaxDepth,
         stack' = q \/ \E fr \in FrameRec : stack' = Append(q, fr)
  PROVE  Depth'
<1>1. Nesting' = Cardinality(Users(stack')) BY DEF Nesting, Users
<1>2. MaxDepth \in Nat /\ Cardinality(Users(q)) \in Nat BY UsersCount, BoundAssumption
<1>3. CASE stack' = q BY <1>1, <1>2, <1>3 DEF Depth
<1>4. CASE \E fr \in FrameRec : stack' = Append(q, fr)
  <2>1. PICK fr \in FrameRec : stack' = Append(q, fr) BY <1>4
  <2>2. Nesting' = Cardinality(Users(q)) + (IF fr.fn = "user" THEN 1 ELSE 0)
    BY <1>1, <2>1, UsersAppend
  <2>3. Top' = fr
    <3>1. Len(stack') = Len(q) + 1 /\ stack'[Len(q) + 1] = fr BY <2>1, AppendProperties
    <3> QED BY <3>1 DEF Top
  <2> QED BY <1>2, <2>2, <2>3 DEF Depth
<1> QED BY <1>3, <1>4

LEMMA DepthStep ==
  ASSUME Core, Depth, [Next]_vars
  PROVE  Depth'
<1>1. stack \in Seq(FrameRec) /\ MaxDepth \in Nat \ {0} BY BoundAssumption DEF Core, Calls
<1>2. CASE stack' = stack BY <1>2 DEF Depth, Nesting, Top
<1>3. \A s \in Stream : \A fn \in {"user", "eof", "flush", "cancel"} : Frame(fn, s) \in FrameRec
  BY FrameType
<1>4. ASSUME NEW s \in Stream, NEW fn \in {"user", "cancel"}, Nesting < MaxDepth,
             stack' = Append(stack, Frame(fn, s))
      PROVE  Depth'
  <2>1. Cardinality(Users(stack)) < MaxDepth BY <1>4 DEF Nesting, Users
  <2> QED BY <2>1, <1>1, <1>3, <1>4, DepthOver
<1>5. ASSUME stack # <<>>, stack' = Under \/ \E fr \in FrameRec : stack' = Append(Under, fr)
      PROVE  Depth'
  <2>1. Under \in Seq(FrameRec) BY <1>1, <1>5, TopFacts
  <2>2. Cardinality(Users(Under)) < MaxDepth BY <1>1, <1>5, UsersUnder
  <2> QED BY <1>5, <2>1, <2>2, DepthOver
<1>6. ASSUME NEW s \in Stream, Program(s) PROVE Depth'
  <2>1. CASE \E o \in Op : Write(s, o)
    <3>1. PICK o \in Op : Write(s, o) BY <2>1
    <3>2. Nesting < MaxDepth /\ stack' \in {stack, Append(stack, Frame("user", s))}
      BY <3>1 DEF Write, MayCall, WriteRefused, WriteDirect, WriteQueued, WriteAsync, CallBack, Push
    <3> QED BY <3>2, <1>2, <1>4
  <2>2. CASE Close(s)
    <3>1. Nesting < MaxDepth /\ stack' \in {stack, Append(stack, Frame("cancel", s))}
      BY <2>2 DEF Close, MayCall, CloseOver
    <3> QED BY <3>1, <1>2, <1>4
  <2>3. CASE Masking(s) \/ Connect(s) \/ Accept(s) \/ Shutdown(s)
    BY <2>3, <1>2 DEF Masking, SetFlags, Connect, Accept, Shutdown, loopVars
  <2> QED BY <1>6, <2>1, <2>2, <2>3 DEF Program
<1>7. CASE MoveOn \/ Poll \/ Network \/ CloseCb \/ CloseReturn
  BY <1>7, <1>2 DEF MoveOn, Moves, Go, Poll, Network, CloseCb, CloseReturn, loopVars
<1>8. CASE Return BY <1>8, <1>5 DEF Return, Runs
<1>9. CASE Cancel \/ FlushWrite \/ FlushDone \/ Eof \/ AfterRead
  <2>1. stack # <<>> /\ Top.fn # "user"
    BY <1>9 DEF Cancel, FlushWrite, FlushDone, Eof, AfterRead, Runs
  <2>2. PICK s \in Stream : s = Top.stream BY <2>1, TopGood DEF Core
  <2>3. \/ stack' \in {stack, Append(stack, Frame("user", s)), Under, Append(Under, Frame("user", s)),
                       Append(Under, Frame("cancel", s)), Append(Under, Frame("flush", s))}
    BY <1>9, <2>2 DEF Cancel, FlushWrite, FlushDone, Eof, AfterRead, CloseOver, CallBack, Push
  <2>4. Nesting < MaxDepth BY <2>1 DEF Depth
  <2> QED BY <2>1, <2>3, <2>4, <1>2, <1>3, <1>4, <1>5
<1>10. Cardinality(Users(<<>>)) = 0 /\ <<>> \in Seq(FrameRec)
  <2>1. Users(<<>>) = {} BY DEF Users
  <2> QED BY <2>1, FS_EmptySet
<1>11. CASE Dispatch
  <2>1. stack = <<>> BY <1>11 DEF Dispatch
  <2>2. PICK e \in batch :
          /\ batch' = batch \ {e}
          /\ IF stream[e.stream].handler = "connect" THEN ConnectIo(e.stream, e.events)
             ELSE stack' = Call(e.stream, e.events) /\ UNCHANGED <<stream, reg>>
    BY <1>11 DEF Dispatch
  <2>3. e \in EventRec BY DEF Core, Calls
  <2> DEFINE fr == [fn |-> "io", stream |-> e.stream, events |-> e.events]
  <2>4. fr \in FrameRec /\ e.stream \in Stream BY <2>3 DEF EventRec, FrameRec
  <2> HIDE DEF fr
  <2>5. stack' = stack \/ stack' = Append(stack, Frame("user", e.stream)) \/ stack' = Append(<<>>, fr)
    BY <2>2 DEF ConnectIo, Push, Call, fr
  <2>6. Cardinality(Users(<<>>)) < MaxDepth /\ <<>> \in Seq(FrameRec) BY <1>1, <1>10
  <2>7. stack' = stack \/ \E x \in FrameRec : stack' = Append(<<>>, x)
    BY <2>1, <2>4, <2>5, <1>3
  <2> QED BY <2>6, <2>7, <1>2, DepthOver
<1>12. CASE Read
  <2>1. stack # <<>> /\ Top.fn = "io" BY <1>12 DEF Read, Runs
  <2>2. Under = <<>> BY <2>1, HandlerFirst DEF Core
  <2>3. PICK s \in Stream : s = Top.stream BY <2>1, TopGood DEF Core
  <2> DEFINE top == [Top EXCEPT !.events = @ \ {"IN"}]
             io == Append(Under, top)
  <2>4. top \in FrameRec /\ top.fn = "io"
    <3>1. Top \in FrameRec BY <1>1, <2>1, TopFacts
    <3> QED BY <3>1, <2>1 DEF FrameRec, Events
  <2>5. stack' \in {Append(io, Frame("user", s)), Append(Append(io, Frame("eof", s)), Frame("user", s))}
    BY <1>12, <2>3 DEF Read
  <2>6. io \in Seq(FrameRec) /\ Cardinality(Users(io)) = 0
    <3> HIDE DEF top
    <3>1. io = Append(<<>>, top) BY <2>2
    <3>2. Append(<<>>, top) \in Seq(FrameRec) BY <2>4
    <3>3. Cardinality(Users(Append(<<>>, top))) = Cardinality(Users(<<>>)) + 0
      BY <2>4, <1>10, UsersAppend
    <3> QED BY <3>1, <3>2, <3>3, <1>10
  <2> HIDE DEF io
  <2>7. Append(io, Frame("eof", s)) \in Seq(FrameRec) /\ Cardinality(Users(Append(io, Frame("eof", s)))) = 0
    <3>1. Frame("eof", s) \in FrameRec /\ Frame("eof", s).fn = "eof" BY FrameType
    <3> QED BY <3>1, <2>6, UsersAppend
  <2>8. 0 < MaxDepth BY <1>1
  <2>9. Frame("user", s) \in FrameRec BY <1>3
  <2>10. CASE stack' = Append(io, Frame("user", s)) BY <2>6, <2>8, <2>9, <2>10, DepthOver
  <2>11. CASE stack' = Append(Append(io, Frame("eof", s)), Frame("user", s))
    BY <2>7, <2>8, <2>9, <2>11, DepthOver
  <2> QED BY <2>5, <2>10, <2>11
<1>13. CASE UNCHANGED vars BY <1>13, <1>2 DEF vars, loopVars
<1> QED BY <1>6, <1>7, <1>8, <1>9, <1>11, <1>12, <1>13, StepCases DEF Core, Loop

(* Each variable keeps its type: no more of a write is sent than there is of
   it, refs does not fall below 0, and callbacks nest as deep as assumed. *)
THEOREM TcpTypeOK ==
  ASSUME Careful
  PROVE  Spec => []TypeOK
<1>1. Init => Depth
  <2> SUFFICES ASSUME Init PROVE Depth OBVIOUS
  <2>1. stack = <<>> /\ MaxDepth \in Nat BY BoundAssumption DEF Init
  <2>2. {i \in DOMAIN stack : stack[i].fn = "user"} = {} BY <2>1
  <2>3. Nesting = 0 BY <2>2, FS_EmptySet DEF Nesting
  <2> QED BY <2>1, <2>3 DEF Depth
<1>2. Core /\ Depth /\ [Next]_vars => Depth' BY DepthStep
<1>3. Core /\ Writes /\ StreamRefs /\ Depth => TypeOK
  <2> SUFFICES ASSUME Core, Writes, StreamRefs, Depth PROVE TypeOK OBVIOUS
  <2>1. ASSUME NEW s \in Stream
        PROVE  /\ stream[s].status \in {"NONE", "ACTIVE", "SHUTDOWN", "CLOSED"}
               /\ stream[s].handler \in {"none", "connect", "client"}
               /\ stream[s].flags \subseteq {"IN", "OUT"} /\ stream[s].fd \in Fd \cup {None}
               /\ Range(stream[s].writes) \subseteq Op
    <3>1. stream[s] \in StreamRec BY DEF Core, Streams
    <3>2. stream[s].writes \in Seq(Op) BY <3>1 DEF StreamRec
    <3> QED BY <3>1, <3>2 DEF StreamRec, Status, Masks, Range
  <2>2. ASSUME NEW o \in Op PROVE written[o] \in 0..Size[o] /\ calls[o] \in Nat
    <3>1. written[o] \in Nat /\ calls[o] \in {0, 1} /\ written[o] <= Size[o] BY DEF Writes
    <3>2. Size[o] \in Nat BY OpAssumption
    <3> QED BY <3>1, <3>2
  <2>3. refs \in Nat
    <3>1. IsFiniteSet({s \in Stream : stream[s].fd # None}) BY StreamAssumption, FS_Subset
    <3>2. Cardinality({s \in Stream : stream[s].fd # None}) \in Nat BY <3>1, FS_CardinalityType
    <3> QED BY <3>2 DEF StreamRefs
  <2>4. Range(pending_closes) \subseteq Stream BY DEF Core, Closing, Range
  <2>5. \A f \in Fd : conn[f].in \in 0..MaxIn BY DEF Core, Streams, ConnRec
  <2> QED BY <2>1, <2>2, <2>3, <2>4, <2>5 DEF TypeOK, Core, Calls, Depth
<1> QED BY <1>1, <1>2, <1>3, CoreAlways, WritesAlways, TcpStreamRefs, PTL DEF Spec

-----------------------------------------------------------------------------
(* What the sockets of the program build on: when a stream opens, becomes
   active and is given back, and how many callbacks are entered. *)

SameEnds ==
  \A s \in Stream :
    /\ Opened(s)' = Opened(s) /\ stream'[s].handler = stream[s].handler
    /\ stream[s].handler = "connect" /\ stream[s].writes = <<>> => stream'[s].writes = <<>>

SameAttempts == \A s \in Stream : stream[s].handler = "connect" => Live(s)' = Live(s)

(* A callback is entered for a write, or none. *)
Counted ==
  \/ calls' = calls /\ Nesting' = Nesting
  \/ \E o \in Op : calls' = [calls EXCEPT ![o] = @ + 1] /\ Nesting' = Nesting + 1

LEMMA EndsChanged ==
  ASSUME Core, NEW s \in Stream, NEW r, stream' \in {stream, [stream EXCEPT ![s] = r]},
         r.fd = stream[s].fd, r.handler = stream[s].handler,
         r.handler = "connect" /\ stream[s].writes = <<>> => r.writes = <<>>
  PROVE  SameEnds
<1>1. CASE stream' = stream BY <1>1 DEF SameEnds, Opened
<1>2. CASE stream' = [stream EXCEPT ![s] = r]
  BY <1>2 DEF SameEnds, Opened, Core, Streams
<1> QED BY <1>1, <1>2

LEMMA EndsSame ==
  ASSUME stream' = stream
  PROVE  SameEnds /\ SameAttempts
  BY DEF SameEnds, SameAttempts, Opened, Live

LEMMA EndsLife ==
  ASSUME SameLife
  PROVE  SameAttempts
  BY DEF SameLife, SameAttempts

LEMMA EndsClose ==
  ASSUME Core, NEW s \in Stream, Opened(s), NEW rest, CloseOver(s, rest)
  PROVE  SameEnds /\ (\A t \in Stream \ {s} : Live(t)' = Live(t)) /\ ~Live(s)'
<1>1. stream[s] \in StreamRec BY DEF Core, Streams
<1> DEFINE r == [stream[s] EXCEPT !.status = "CLOSED"]
<1>2. /\ stream' \in {stream, [stream EXCEPT ![s] = r]}
      /\ stream' = stream => stream[s].status = "CLOSED"
  BY <1>1 DEF CloseOver, Core, Streams, StreamRec
<1>3. /\ r.fd = stream[s].fd /\ r.handler = stream[s].handler /\ r.writes = stream[s].writes
      /\ r.status = "CLOSED"
  BY <1>1 DEF StreamRec
<1> HIDE DEF r
<1>4. SameEnds BY <1>2, <1>3, EndsChanged
<1>5. /\ \A t \in Stream \ {s} : stream'[t] = stream[t]
      /\ stream'[s].status = "CLOSED"
  BY <1>2, <1>3 DEF Core, Streams
<1> QED BY <1>4, <1>5 DEF Live, Opened

LEMMA EndsProgram ==
  ASSUME Careful, Core, NEW s \in Stream, Masking(s) \/ Shutdown(s) \/ \E o \in Op : Write(s, o)
  PROVE  SameEnds /\ SameAttempts
<1>0. Streams /\ Calls /\ stream[s] \in StreamRec /\ Attached(s) BY DEF Core, Streams
<1>1. CASE Masking(s)
  <2>1. PICK flags \in Masks : SetFlags(s, flags) BY <1>1 DEF Masking
  <2>2. stream' = [stream EXCEPT ![s] = [stream[s] EXCEPT !.flags = flags]] BY <2>1 DEF SetFlags
  <2> DEFINE r == [stream[s] EXCEPT !.flags = flags]
  <2>3. r.fd = stream[s].fd /\ r.handler = stream[s].handler /\ r.writes = stream[s].writes
    BY <1>0 DEF StreamRec
  <2>4. stream' \in {stream, [stream EXCEPT ![s] = r]} BY <2>2
  <2> HIDE DEF r
  <2>5. SameEnds BY <2>3, <2>4, EndsChanged
  <2>6. SameLife BY <1>0, <2>1, SetFlagsStep
  <2> QED BY <2>5, <2>6, EndsLife
<1>2. CASE Shutdown(s)
  <2> DEFINE r == [stream[s] EXCEPT !.status = "SHUTDOWN"]
             w == [r EXCEPT !.flags = @ \cup {"OUT"}]
  <2>1. \/ stream' \in {stream, [stream EXCEPT ![s] = r]}
        \/ stream' \in {stream, [stream EXCEPT ![s] = w]}
    BY <1>2 DEF Shutdown
  <2>2. /\ r.fd = stream[s].fd /\ r.handler = stream[s].handler /\ r.writes = stream[s].writes
        /\ w.fd = stream[s].fd /\ w.handler = stream[s].handler /\ w.writes = stream[s].writes
    BY <1>0 DEF StreamRec
  <2> HIDE DEF r, w
  <2>3. SameEnds BY <2>1, <2>2, EndsChanged
  <2>4. SameLife BY <1>0, <1>2, ShutdownStep
  <2> QED BY <2>3, <2>4, EndsLife
<1>3. CASE \E o \in Op : Write(s, o)
  <2>1. PICK o \in Op : Write(s, o) BY <1>3
  <2> DEFINE r == [stream[s] EXCEPT !.writes = Append(@, o), !.flags = @ \cup {"OUT"}]
  <2>2. \/ stream' = stream
        \/ stream' \in {stream, [stream EXCEPT ![s] = r]} /\ stream[s].status = "ACTIVE"
    BY <2>1 DEF Write, WriteRefused, WriteDirect, WriteQueued, WriteAsync
  <2>3. r.fd = stream[s].fd /\ r.handler = stream[s].handler BY <1>0 DEF StreamRec
  <2> HIDE DEF r
  <2>4. SameEnds
    <3>1. CASE stream' = stream BY <3>1, EndsSame
    <3>2. CASE stream' \in {stream, [stream EXCEPT ![s] = r]} /\ stream[s].status = "ACTIVE"
      <4>1. r.handler # "connect" BY <1>0, <2>3, <3>2 DEF Attached
      <4> QED BY <2>3, <3>2, <4>1, EndsChanged
    <3> QED BY <2>2, <3>1, <3>2
  <2>5. SameLife BY <1>0, <2>1, WriteStep
  <2> QED BY <2>4, <2>5, EndsLife
<1> QED BY <1>1, <1>2, <1>3

(* The handler of an event is of a connection that was made. *)
LEMMA HandlerClient ==
  ASSUME Core, Read \/ Eof \/ AfterRead \/ FlushWrite \/ FlushDone
  PROVE  stack # <<>> /\ Top.fn # "user" /\ Top.fn # "cancel" /\ Top.stream \in Stream /\ Opened(Top.stream)
         /\ stream[Top.stream].handler = "client"
<1>1. stack # <<>> /\ Top.fn \in {"io", "eof", "flush"}
  BY DEF Read, Eof, AfterRead, FlushWrite, FlushDone, Runs
<1>2. Top.stream \in Stream /\ Opened(Top.stream) /\ Good(Len(stack)) BY <1>1, TopGood DEF Core
<1>3. Top = stack[Len(stack)] BY DEF Top
<1> QED BY <1>1, <1>2, <1>3 DEF Good

LEMMA EndsLoop ==
  ASSUME Core, Loop, ~Dispatch, ~CloseCb
  PROVE  SameEnds /\ SameAttempts
<1>0. Streams /\ Calls BY DEF Core
<1>1. CASE MoveOn \/ Poll \/ Network \/ CloseReturn \/ Return \/ Read
  <2>1. stream' = stream
    BY <1>1 DEF MoveOn, Moves, Go, Poll, Network, CloseReturn, Return, Read
  <2> QED BY <2>1, EndsSame
<1>2. CASE Cancel \/ FlushWrite \/ FlushDone
  <2>1. PICK s \in Stream : s = Top.stream
    BY <1>0, <1>2, TopGood DEF Cancel, FlushWrite, FlushDone, Runs
  <2>2. stream[s] \in StreamRec BY <1>0 DEF Streams
  <2> DEFINE r == [stream[s] EXCEPT !.writes = Tail(@)]
             w == [stream[s] EXCEPT !.flags = @ \ {"OUT"}]
  <2>3. \/ stream' = stream
        \/ stream[s].writes # <<>> /\ stream' \in {stream, [stream EXCEPT ![s] = r]}
        \/ stream' \in {stream, [stream EXCEPT ![s] = w]}
    BY <1>2, <2>1 DEF Cancel, FlushWrite, FlushDone
  <2>4. /\ r.fd = stream[s].fd /\ r.handler = stream[s].handler
        /\ w.fd = stream[s].fd /\ w.handler = stream[s].handler /\ w.writes = stream[s].writes
    BY <2>2 DEF StreamRec
  <2> HIDE DEF r, w
  <2>5. SameEnds
    <3>1. CASE stream' = stream BY <3>1, EndsSame
    <3>2. CASE stream[s].writes # <<>> /\ stream' \in {stream, [stream EXCEPT ![s] = r]}
      BY <2>4, <3>2, EndsChanged
    <3>3. CASE stream' \in {stream, [stream EXCEPT ![s] = w]} BY <2>4, <3>3, EndsChanged
    <3> QED BY <2>3, <3>1, <3>2, <3>3
  <2>6. SameLife BY <1>0, <1>2, CancelStep, FlushWriteStep, FlushDoneStep
  <2> QED BY <2>5, <2>6, EndsLife
<1>3. CASE Eof \/ AfterRead
  <2>1. PICK s \in Stream : s = Top.stream BY <1>3, HandlerClient
  <2>2. Opened(s) /\ stream[s].handler = "client" BY <1>3, <2>1, HandlerClient
  <2>3. CASE stream' = stream BY <2>3, EndsSame
  <2>4. CASE CloseOver(s, Under)
    <3>1. SameEnds /\ \A t \in Stream \ {s} : Live(t)' = Live(t) BY <2>2, <2>4, EndsClose
    <3> QED BY <2>2, <3>1 DEF SameAttempts
  <2> QED BY <1>3, <2>1, <2>3, <2>4 DEF Eof, AfterRead
<1> QED BY <1>1, <1>2, <1>3 DEF Loop

LEMMA NestingType ==
  ASSUME Calls
  PROVE  Nesting \in Nat /\ Nesting = Cardinality(Users(stack))
         /\ (stack = <<>> => Nesting = 0) /\ (stack # <<>> /\ Top.fn = "user" => Nesting > 0)
<1>1. stack \in Seq(FrameRec) BY DEF Calls
<1>2. IsFiniteSet(Users(stack)) /\ Nesting = Cardinality(Users(stack)) /\ Nesting \in Nat
  BY <1>1, UsersCount DEF Nesting, Users
<1>3. ASSUME stack = <<>> PROVE Nesting = 0
  <2>1. Users(stack) = {} BY <1>3 DEF Users
  <2> QED BY <2>1, <1>2, FS_EmptySet
<1>4. ASSUME stack # <<>>, Top.fn = "user" PROVE Nesting > 0
  <2>1. Len(stack) \in DOMAIN stack /\ Top = stack[Len(stack)] BY <1>1, <1>4, TopFacts
  <2>2. Users(stack) # {} BY <1>4, <2>1 DEF Users
  <2> QED BY <2>2, <1>2, FS_EmptySet
<1> QED BY <1>2, <1>3, <1>4

LEMMA NestingUnder ==
  ASSUME Calls, stack # <<>>
  PROVE  /\ Under \in Seq(FrameRec) /\ Nesting \in Nat
         /\ Cardinality(Users(Under)) = Nesting - (IF Top.fn = "user" THEN 1 ELSE 0)
<1>0. stack \in Seq(FrameRec) BY DEF Calls
<1>1. PICK n \in Nat : n = Len(stack) - 1 BY <1>0, TopFacts
<1>2. /\ DOMAIN stack = 1..n + 1 /\ DOMAIN Under = 1..n /\ Top = stack[n + 1]
      /\ \A i \in 1..n : Under[i] = stack[i]
  BY <1>0, <1>1, TopFacts
<1>3. IsFiniteSet(Users(stack)) /\ Nesting = Cardinality(Users(stack)) /\ Nesting \in Nat
  BY <1>0, UsersCount, NestingType
<1>4. \A i : i \in 1..n + 1 <=> i \in 1..n \/ i = n + 1 BY <1>1
<1>5. Users(Under) = Users(stack) \ {n + 1}
  <2>1. \A i \in 1..n : i # n + 1 BY <1>1
  <2> QED BY <2>1, <1>2, <1>4 DEF Users
<1>6. n + 1 \in Users(stack) <=> Top.fn = "user" BY <1>2, <1>4 DEF Users
<1>7. Cardinality(Users(Under)) =
        IF Top.fn = "user" THEN Cardinality(Users(stack)) - 1 ELSE Cardinality(Users(stack))
  BY <1>3, <1>5, <1>6, FS_RemoveElement
<1> QED BY <1>0, <1>3, <1>7, TopFacts

(* The calls that a step leaves, and one more of them. *)
LEMMA NestingOver ==
  ASSUME NEW q \in Seq(FrameRec), NEW fr \in FrameRec, stack' = Append(q, fr)
  PROVE  Nesting' = Cardinality(Users(q)) + (IF fr.fn = "user" THEN 1 ELSE 0)
<1>1. Nesting' = Cardinality(Users(stack')) BY DEF Nesting, Users
<1> QED BY <1>1, UsersAppend

LEMMA NestingPush ==
  ASSUME Calls, NEW s \in Stream, NEW fn \in {"user", "eof", "flush", "cancel"},
         stack' = Append(stack, Frame(fn, s))
  PROVE  Nesting' = Nesting + (IF fn = "user" THEN 1 ELSE 0)
<1>1. PICK fr \in FrameRec : fr = Frame(fn, s) /\ fr.fn = fn BY FrameType
<1>2. stack \in Seq(FrameRec) BY DEF Calls
<1> QED BY <1>1, <1>2, NestingOver, NestingType

LEMMA NestingSwap ==
  ASSUME Calls, stack # <<>>, Top.fn # "user",
         NEW s \in Stream, NEW fn \in {"user", "eof", "flush", "cancel"},
         stack' = Append(Under, Frame(fn, s))
  PROVE  Nesting' = Nesting + (IF fn = "user" THEN 1 ELSE 0)
<1>1. PICK fr \in FrameRec : fr = Frame(fn, s) /\ fr.fn = fn BY FrameType
<1>2. Under \in Seq(FrameRec) /\ Nesting \in Nat /\ Cardinality(Users(Under)) = Nesting
  BY NestingUnder
<1>3. Nesting' = Cardinality(Users(Under)) + (IF fr.fn = "user" THEN 1 ELSE 0)
  BY <1>1, <1>2, NestingOver
<1> QED BY <1>1, <1>2, <1>3

LEMMA NestingPop ==
  ASSUME Calls, stack # <<>>, stack' = Under
  PROVE  Nesting' = Nesting - (IF Top.fn = "user" THEN 1 ELSE 0)
<1>1. Nesting' = Cardinality(Users(Under)) BY DEF Nesting, Users
<1> QED BY <1>1, NestingUnder

LEMMA NestingKept ==
  ASSUME stack' = stack
  PROVE  Nesting' = Nesting
  BY DEF Nesting

LEMMA CountedWrite ==
  ASSUME Core, NEW s \in Stream, NEW o \in Op, Write(s, o)
  PROVE  Counted
<1>0. Calls BY DEF Core
<1>1. CASE CallBack(s, o)
  <2>1. stack' = Append(stack, Frame("user", s)) /\ calls' = [calls EXCEPT ![o] = @ + 1]
    BY <1>1 DEF CallBack, Push
  <2> QED BY <1>0, <2>1, NestingPush DEF Counted
<1>2. CASE UNCHANGED <<calls, stack>> BY <1>2, NestingKept DEF Counted
<1> QED BY <1>1, <1>2 DEF Write, WriteRefused, WriteDirect, WriteQueued, WriteAsync

LEMMA CountedLoop ==
  ASSUME Core, FlushWrite \/ Cancel
  PROVE  Counted
<1>0. Calls /\ Streams BY DEF Core
<1>1. stack # <<>> /\ Top.fn \in {"flush", "cancel"} BY DEF FlushWrite, Cancel, Runs
<1>2. PICK s \in Stream : s = Top.stream BY <1>0, <1>1, TopGood
<1>3. stream[s].writes \in Seq(Op) BY <1>0 DEF Streams, StreamRec
<1>4. CASE stream[s].writes # <<>>
  <2>1. PICK o \in Op : o = Head(stream[s].writes) BY <1>3, <1>4
  <2>2. CASE calls' = [calls EXCEPT ![o] = @ + 1] /\ stack' = Append(Under, Frame("user", s))
    BY <2>2, <1>0, <1>1, NestingSwap DEF Counted
  <2>3. CASE CallBack(s, o)
    <3>1. stack' = Append(stack, Frame("user", s)) /\ calls' = [calls EXCEPT ![o] = @ + 1]
      BY <2>3 DEF CallBack, Push
    <3> QED BY <1>0, <3>1, NestingPush DEF Counted
  <2>4. CASE calls' = calls /\ stack' = Under BY <2>4, <1>0, <1>1, NestingPop, NestingType DEF Counted
  <2>5. CASE UNCHANGED <<calls, stack>> BY <2>5, NestingKept DEF Counted
  <2> QED BY <1>2, <1>4, <2>1, <2>2, <2>3, <2>4, <2>5 DEF FlushWrite, Cancel
<1>5. CASE stream[s].writes = <<>>
  <2>1. calls' = calls /\ stack' = Under BY <1>2, <1>5 DEF FlushWrite, Cancel
  <2> QED BY <2>1, <1>0, <1>1, NestingPop, NestingType DEF Counted
<1> QED BY <1>4, <1>5

(* The steps that enter no callback and leave none. *)
LEMMA UncountedLoop ==
  ASSUME Core, MoveOn \/ Poll \/ Network \/ CloseCb \/ CloseReturn \/ Eof \/ AfterRead \/ FlushDone
  PROVE  calls' = calls /\ Nesting' = Nesting
<1>0. Calls BY DEF Core
<1>1. CASE MoveOn \/ Poll \/ Network \/ CloseCb \/ CloseReturn
  <2>1. UNCHANGED <<calls, stack>>
    BY <1>1 DEF MoveOn, Moves, Go, Poll, Network, CloseCb, CloseReturn, loopVars, opVars
  <2> QED BY <2>1, NestingKept
<1>2. CASE Eof \/ AfterRead \/ FlushDone
  <2>1. PICK s \in Stream : s = Top.stream BY <1>2, HandlerClient
  <2>2. stack # <<>> /\ Top.fn # "user" BY <1>2, HandlerClient
  <2>3. calls' = calls
    BY <1>2 DEF Eof, AfterRead, FlushDone, CloseOver, opVars
  <2>4. stack' \in {Under, Append(Under, Frame("cancel", s)), Append(Under, Frame("flush", s))}
    BY <1>2, <2>1 DEF Eof, AfterRead, FlushDone, CloseOver
  <2>5. Nesting' = Nesting
    BY <1>0, <2>2, <2>4, NestingPop, NestingSwap, NestingType
  <2> QED BY <2>3, <2>5
<1> QED BY <1>1, <1>2

LEMMA UncountedProgram ==
  ASSUME Core, NEW s \in Stream, Masking(s) \/ Shutdown(s) \/ Connect(s) \/ Close(s)
  PROVE  calls' = calls /\ Nesting' = Nesting
<1>0. Calls BY DEF Core
<1>1. calls' = calls
  BY DEF Masking, SetFlags, Shutdown, Connect, Register, Close, CloseOver, opVars
<1>2. stack' \in {stack, Append(stack, Frame("cancel", s))}
  BY DEF Masking, SetFlags, Shutdown, Connect, Close, CloseOver, loopVars
<1> QED BY <1>0, <1>1, <1>2, NestingPush, NestingKept, NestingType

LEMMA CountedRead ==
  ASSUME Core, Read
  PROVE  calls' = calls /\ Nesting' = Nesting + 1
<1>0. Calls /\ stack # <<>> /\ Top.fn = "io" BY DEF Core, Read, Runs
<1>1. calls' = calls BY DEF Read, opVars
<1>2. PICK s \in Stream : s = Top.stream BY <1>0, TopGood
<1> DEFINE top == [Top EXCEPT !.events = @ \ {"IN"}]
           io == Append(Under, top)
<1>3. top \in FrameRec /\ top.fn = "io"
  <2>1. Top \in FrameRec BY <1>0, TopFacts DEF Calls
  <2> QED BY <2>1, <1>0 DEF FrameRec, Events
<1>4. stack' \in {Append(io, Frame("user", s)), Append(Append(io, Frame("eof", s)), Frame("user", s))}
  BY <1>2 DEF Read
<1>5. Under \in Seq(FrameRec) /\ Cardinality(Users(Under)) = Nesting /\ Nesting \in Nat
  BY <1>0, NestingUnder
<1> HIDE DEF top
<1>6. io \in Seq(FrameRec) /\ Cardinality(Users(io)) = Nesting
  BY <1>3, <1>5, UsersAppend
<1> HIDE DEF io
<1>7. /\ Frame("user", s) \in FrameRec /\ Frame("user", s).fn = "user"
      /\ Frame("eof", s) \in FrameRec /\ Frame("eof", s).fn = "eof"
  BY FrameType
<1>8. Append(io, Frame("eof", s)) \in Seq(FrameRec)
      /\ Cardinality(Users(Append(io, Frame("eof", s)))) = Nesting
  BY <1>5, <1>6, <1>7, UsersAppend
<1>9. CASE stack' = Append(io, Frame("user", s)) BY <1>1, <1>6, <1>7, <1>9, NestingOver
<1>10. CASE stack' = Append(Append(io, Frame("eof", s)), Frame("user", s))
  BY <1>1, <1>8, <1>7, <1>10, NestingOver
<1> QED BY <1>4, <1>9, <1>10

(* What the handlers and the loop may do next when an event is taken. *)
LEMMA DispatchCases ==
  ASSUME Core, Dispatch
  PROVE  \E s \in Stream :
           /\ Opened(s) /\ calls' = calls /\ stack = <<>> /\ pc = "dispatch" /\ pc' = pc
           /\ \A t \in Stream \ {s} : stream'[t] = stream[t]
           /\ \/ stream' = stream /\ (stack' = stack \/ (stack' # stack /\ Len(stack') = 1 /\ stack'[1].fn = "io"))
                 /\ Nesting' = 0
              \/ /\ stack' = Append(stack, Frame("user", s)) /\ Len(stack') = 1 /\ stack'[1] = Frame("user", s)
                 /\ Nesting' = 1 /\ Live(s) /\ stream[s].handler = "connect"
                 /\ \/ stream' = stream /\ stream'[s].status = "NONE"
                    \/ stream'[s].status = "ACTIVE" /\ stream'[s].handler = "client" /\ Opened(s)'
<1>0. Streams /\ Calls BY DEF Core
<1>1. stack = <<>> /\ calls' = calls /\ pc = "dispatch" /\ pc' = pc BY DEF Dispatch, opVars
<1>2. PICK e \in batch :
        /\ batch' = batch \ {e}
        /\ IF stream[e.stream].handler = "connect" THEN ConnectIo(e.stream, e.events)
           ELSE stack' = Call(e.stream, e.events) /\ UNCHANGED <<stream, reg>>
  BY DEF Dispatch
<1>3. e \in EventRec /\ Opened(e.stream) BY <1>0 DEF Calls
<1>4. PICK s \in Stream : s = e.stream BY <1>3 DEF EventRec
<1>5. stream[s] \in StreamRec /\ Attached(s) /\ Opened(s) BY <1>0, <1>3, <1>4 DEF Streams
<1>6. Nesting = 0 /\ Frame("user", s).fn = "user" BY <1>0, <1>1, NestingType, FrameType
<1>7. CASE stack' = stack /\ stream' = stream BY <1>1, <1>5, <1>6, <1>7, NestingKept
<1>8. CASE stack' = Call(s, e.events) /\ stream' = stream
  <2> DEFINE fr == [fn |-> "io", stream |-> s, events |-> e.events]
  <2>1. fr \in FrameRec /\ fr.fn = "io" BY <1>3 DEF EventRec, FrameRec
  <2>2. stack' = Append(<<>>, fr) /\ Len(stack') = 1 /\ stack'[1] = fr /\ stack' # <<>>
    BY <1>8 DEF Call
  <2> HIDE DEF fr
  <2>3. Nesting' = 0
    <3>1. PICK q \in Seq(FrameRec) : q = <<>> BY <1>0, <1>1 DEF Calls
    <3>2. Users(q) = {} BY <3>1 DEF Users
    <3>3. stack' = Append(q, fr) /\ Cardinality(Users(q)) = 0 BY <2>2, <3>1, <3>2, FS_EmptySet
    <3>4. Nesting' = Cardinality(Users(q)) + (IF fr.fn = "user" THEN 1 ELSE 0)
      BY <2>1, <3>3, NestingOver
    <3> QED BY <2>1, <3>3, <3>4
  <2> QED BY <2>1, <2>2, <2>3, <1>1, <1>5, <1>8
<1>9. CASE stack' = Push("user", s) /\ stream[s].status # "CLOSED" /\ stream[s].handler = "connect"
           /\ ConnectIo(s, e.events)
  <2>1. /\ stack' = Append(stack, Frame("user", s)) /\ Len(stack') = 1 /\ stack'[1] = Frame("user", s)
    BY <1>1, <1>9 DEF Push
  <2>2. Nesting' = 1 BY <2>1, <1>0, <1>6, NestingPush
  <2>3. Live(s) /\ stream[s].status = "NONE" BY <1>5, <1>9 DEF Live, Attached
  <2> DEFINE r == [stream[s] EXCEPT !.status = "ACTIVE", !.handler = "client", !.flags = @ \ {"OUT"}]
  <2>4. stream' = stream \/ stream' = [stream EXCEPT ![s] = r] BY <1>9 DEF ConnectIo
  <2>5. r.status = "ACTIVE" /\ r.handler = "client" /\ r.fd = stream[s].fd BY <1>5 DEF StreamRec
  <2> HIDE DEF r
  <2>6. CASE stream' = [stream EXCEPT ![s] = r]
    <3>1. stream'[s] = r /\ \A t \in Stream \ {s} : stream'[t] = stream[t]
      BY <1>0, <2>6 DEF Streams
    <3>2. Opened(s)' BY <1>5, <2>5, <3>1 DEF Opened
    <3> QED BY <1>1, <1>5, <1>9, <2>1, <2>2, <2>3, <2>5, <3>1, <3>2
  <2>7. CASE stream' = stream BY <1>1, <1>5, <1>9, <2>1, <2>2, <2>3, <2>7
  <2> QED BY <2>4, <2>6, <2>7
<1>10. CASE stream[s].handler = "connect"
  <2>1. ConnectIo(s, e.events) BY <1>2, <1>4, <1>10
  <2>2. \/ stack' = stack /\ stream' = stream
        \/ stack' = Push("user", s) /\ stream[s].status # "CLOSED"
    BY <2>1 DEF ConnectIo
  <2> QED BY <2>1, <2>2, <1>7, <1>9, <1>10
<1>11. CASE stream[s].handler # "connect" BY <1>2, <1>4, <1>8, <1>11
<1> QED BY <1>10, <1>11

LEMMA ConnectFacts ==
  ASSUME Core, NEW s \in Stream, Connect(s)
  PROVE  /\ ~Opened(s) /\ Live(s)' /\ Opened(s)' /\ stream'[s].handler = "connect"
         /\ stream'[s].writes = <<>>
         /\ (\A t \in Stream \ {s} : stream'[t] = stream[t]) /\ UNCHANGED <<calls, stack, pc>>
<1>1. PICK f \in FreeFd :
        stream' = [stream EXCEPT ![s] = [stream[s] EXCEPT !.fd = f, !.handler = "connect",
                                                          !.flags = {"IN", "OUT"}]]
  BY DEF Connect, Register
<1>2. stream[s] = Fresh /\ f \in Fd /\ f # None BY <1>1, FdAssumption DEF Connect, FreeFd
<1> DEFINE r == [stream[s] EXCEPT !.fd = f, !.handler = "connect", !.flags = {"IN", "OUT"}]
<1>3. /\ r.fd = f /\ r.handler = "connect" /\ r.writes = <<>> /\ r.status = "NONE"
  BY <1>2 DEF Fresh
<1>4. stream' = [stream EXCEPT ![s] = r] BY <1>1
<1> HIDE DEF r
<1>5. stream'[s] = r /\ \A t \in Stream \ {s} : stream'[t] = stream[t]
  BY <1>4 DEF Core, Streams
<1>6. UNCHANGED <<calls, stack, pc>> BY DEF Connect, Register, loopVars, opVars
<1> QED BY <1>2, <1>3, <1>5, <1>6 DEF Opened, Live, Fresh

(* A listener gives the program a stream, and calls it. *)
LEMMA CoreAccepted ==
  ASSUME Core, NEW s \in Stream, stream[s] = Fresh, AcceptOver(s), stack' = Push("user", s),
         UNCHANGED <<pc, batch>>, pc = "dispatch"
  PROVE  /\ Core' /\ ~Opened(s) /\ Opened(s)' /\ stream'[s].handler = "client"
         /\ (\A t \in Stream \ {s} : stream'[t] = stream[t])
         /\ calls' = calls /\ Nesting' = Nesting + 1
<1>0. Streams /\ Calls /\ Closing BY DEF Core
<1>1. PICK f \in FreeFd :
        Register(s, f, [Fresh EXCEPT !.fd = f, !.handler = "client", !.flags = {"IN"},
                                     !.status = "ACTIVE"], TRUE)
  BY DEF AcceptOver, LowestFree
<1> DEFINE r == [Fresh EXCEPT !.fd = f, !.handler = "client", !.flags = {"IN"}, !.status = "ACTIVE"]
<1>2. f \in Fd /\ f # None BY FdAssumption DEF FreeFd
<1>3. /\ r \in StreamRec /\ r.fd = f /\ r.status = "ACTIVE" /\ r.handler = "client"
  BY <1>2, FreshType DEF StreamRec, Fresh, Masks, Status
<1> HIDE DEF r
<1>4. Streams' /\ Kept /\ StaysLive /\ stream' = [stream EXCEPT ![s] = r]
  BY <1>0, <1>1, <1>2, <1>3, StreamsRegister DEF r
<1>5. stream'[s] = r /\ \A t \in Stream \ {s} : stream'[t] = stream[t]
  BY <1>0, <1>4 DEF Streams
<1>6. Opened(s)' /\ ~Opened(s) BY <1>2, <1>3, <1>5 DEF Opened, Fresh
<1>7. stack' = Append(stack, Frame("user", s)) BY DEF Push
<1>8. Calls' BY <1>0, <1>4, <1>6, <1>7, CallsPush
<1>9. Closing'
  <2>1. SameClosed BY <1>3, <1>5 DEF SameClosed, Fresh
  <2>2. CancelsSame BY <1>0, <1>7, CancelsPush DEF Calls
  <2>3. pending_closes' = pending_closes BY <1>1 DEF Register
  <2>4. \A t \in Stream : stream[t].status = "CLOSED" /\ stream[t].writes = <<>> =>
                            stream'[t].writes = <<>>
    BY <1>3, <1>5 DEF Fresh
  <2> QED BY <1>0, <1>8, <2>1, <2>2, <2>3, <2>4, ClosingSame
<1>10. calls' = calls BY <1>1 DEF Register, opVars
<1>11. Nesting' = Nesting + 1 BY <1>0, <1>7, NestingPush
<1> QED BY <1>3, <1>4, <1>5, <1>6, <1>8, <1>9, <1>10, <1>11 DEF Core

(* The callback of a failed connection closes its stream. *)
LEMMA CoreFailed ==
  ASSUME Core, NEW s \in Stream, Opened(s), CloseOver(s, stack), ~Inside("flush", s), stack # <<>>
  PROVE  Core' /\ calls' = calls /\ Nesting' = Nesting
<1>0. Streams /\ Calls /\ Closing BY DEF Core
<1>1. pc \in ProgramPc \cup {"dispatch"} BY <1>0 DEF Calls
<1>2. pending_closes' = pending_closes /\ calls' = calls BY DEF CloseOver, ctxVars, opVars
<1>3. Streams' /\ Calls'
  <2>1. CASE stream[s].status = "CLOSED"
    <3>1. stream' = stream /\ UNCHANGED sysVars /\ stack' = stack /\ UNCHANGED <<pc, batch>>
      BY <2>1 DEF CloseOver
    <3>2. Streams' /\ Kept /\ SameLife /\ StaysLive BY <1>0, <3>1, CloseAgain
    <3> QED BY <1>0, <3>1, <3>2, CallsSame
  <2>2. CASE stream[s].status # "CLOSED"
    <3>1. Live(s) BY <2>2 DEF Live
    <3>2. PICK k \in Nat : k = Len(stack) BY <1>0 DEF Calls
    <3>3. stack \in Seq(FrameRec) /\ DOMAIN stack = 1..k BY <1>0, <3>2 DEF Calls
    <3>4. \A i \in 1..k : stack[i].fn = "flush" => stack[i].stream # s BY <3>3 DEF Inside
    <3> QED BY <1>0, <1>1, <3>1, <3>2, <3>3, <3>4, CloseStep
  <2> QED BY <2>1, <2>2
<1>4. Closing' BY <1>0, <1>2, <1>3, ClosingCloseAny
<1>5. stack' \in {stack, Append(stack, Frame("cancel", s))} BY DEF CloseOver
<1>6. Nesting' = Nesting BY <1>0, <1>5, NestingPush, NestingKept, NestingType
<1> QED BY <1>2, <1>3, <1>4, <1>6 DEF Core
-----------------------------------------------------------------------------
(* What a program that has other steps too may rely on: a stream accepted in
   the callback of a listener, one closed in the callback of its own failed
   connection, and steps that leave every stream alone. *)

Taken(s) ==
  /\ stream[s] = Fresh /\ AcceptOver(s) /\ stack' = Push("user", s)
  /\ UNCHANGED <<pc, batch>> /\ pc = "dispatch"

Failed(s) == Opened(s) /\ CloseOver(s, stack)

Aside == UNCHANGED <<stream, written, calls, conn, stack, history>>

(* What a stream promises about its writes and its end. *)
Delivery == Writes /\ AllArmed /\ AllEndsSent /\ AllWired

LEMMA TakenFacts ==
  ASSUME Core, NEW s \in Stream, Taken(s)
  PROVE  /\ UNCHANGED <<written, calls, history>> /\ ~Opened(s)
         /\ stream[s].writes = <<>> /\ stream'[s].writes = <<>> /\ stream'[s].status = "ACTIVE"
         /\ \A t \in Stream \ {s} : stream'[t] = stream[t]
         /\ \E f \in FreeFd : \E c : conn' = [conn EXCEPT ![f] = c]
         /\ stack' = Append(stack, Frame("user", s))
<1>1. PICK f \in FreeFd :
        Register(s, f, [Fresh EXCEPT !.fd = f, !.handler = "client", !.flags = {"IN"},
                                     !.status = "ACTIVE"], TRUE)
  BY DEF Taken, AcceptOver, LowestFree
<1> DEFINE r == [Fresh EXCEPT !.fd = f, !.handler = "client", !.flags = {"IN"}, !.status = "ACTIVE"]
<1>2. r.writes = <<>> /\ r.status = "ACTIVE" BY DEF Fresh
<1>3. /\ stream' = [stream EXCEPT ![s] = r] /\ UNCHANGED <<written, calls, history>>
      /\ \E c : conn' = [conn EXCEPT ![f] = c]
  BY <1>1 DEF Register, opVars
<1> HIDE DEF r
<1>4. stream'[s] = r /\ \A t \in Stream \ {s} : stream'[t] = stream[t]
  BY <1>3 DEF Core, Streams
<1>5. stream[s].writes = <<>> /\ ~Opened(s) BY DEF Taken, Fresh, Opened
<1> QED BY <1>1, <1>2, <1>3, <1>4, <1>5 DEF Taken, Push

LEMMA FailedFacts ==
  ASSUME Core, NEW s \in Stream, Failed(s)
  PROVE  /\ UNCHANGED <<written, calls, history>>
         /\ stream'[s].writes = stream[s].writes
         /\ stream' = stream \/ stream'[s].status = "CLOSED"
         /\ \A t \in Stream \ {s} : stream'[t] = stream[t]
         /\ stack' \in {stack, Append(stack, Frame("cancel", s))}
<1>1. stream[s] \in StreamRec BY DEF Core, Streams
<1>2. /\ stream' = stream \/ stream' = [stream EXCEPT ![s] = [stream[s] EXCEPT !.status = "CLOSED"]]
      /\ UNCHANGED <<written, calls, history>>
      /\ stack' \in {stack, Append(stack, Frame("cancel", s))}
  BY DEF Failed, CloseOver, opVars
<1>3. /\ [stream[s] EXCEPT !.status = "CLOSED"].writes = stream[s].writes
      /\ [stream[s] EXCEPT !.status = "CLOSED"].status = "CLOSED"
  BY <1>1 DEF StreamRec
<1> QED BY <1>2, <1>3 DEF Core, Streams

LEMMA ExtraKept ==
  ASSUME Core, Core', NEW s \in Stream, Taken(s) \/ Failed(s)
  PROVE  /\ EndedKept /\ \A t \in Stream : Dead(t) => Dead(t)'
         /\ \A t \in Stream : Inside("flush", t) => Inside("flush", t)'
<1>1. CASE Taken(s)
  <2>1. EndedKept
    <3>1. PICK f \in FreeFd : \E c : conn' = [conn EXCEPT ![f] = c] BY <1>1, TakenFacts
    <3>2. PICK c : conn' = [conn EXCEPT ![f] = c] BY <3>1
    <3> QED BY <3>2 DEF EndedKept, FreeFd, Core, Streams
  <2>2. FieldsKept BY <1>1, TakenFacts DEF FieldsKept
  <2>3. \A t \in Stream : Inside("flush", t) => Inside("flush", t)'
    BY <1>1, TakenFacts, FlushPush DEF Core
  <2> QED BY <2>1, <2>2, <2>3, DeadKept
<1>2. CASE Failed(s)
  <2>1. EndedKept BY <1>2, EndedClose DEF Failed
  <2>2. FieldsKept BY <1>2, FieldsClose DEF Failed
  <2>3. \A t \in Stream : Inside("flush", t) => Inside("flush", t)'
    BY <1>2, FailedFacts, FlushPush DEF Core
  <2> QED BY <2>1, <2>2, <2>3, DeadKept
<1> QED BY <1>1, <1>2

LEMMA ExtraDelivery ==
  ASSUME Core, Core', Delivery, NEW s \in Stream, Taken(s) \/ Failed(s)
  PROVE  Delivery'
<1>1. /\ UNCHANGED <<written, calls, wire, order>> /\ stream'[s].writes = stream[s].writes
      /\ \A t \in Stream \ {s} : stream'[t] = stream[t]
      /\ \/ stream' = stream
         \/ stream'[s].status = "CLOSED"
         \/ stream'[s].status = "ACTIVE" /\ stream'[s].writes = <<>>
  BY TakenFacts, FailedFacts DEF history
<1>2. \A t \in Stream : stream'[t].writes = stream[t].writes BY <1>1
<1>3. Writes' BY <1>1, <1>2, WritesSame DEF Delivery
<1>4. AllArmed' BY <1>1 DEF Delivery, AllArmed, Armed
<1>5. AllEndsSent'
  <2>1. EndSent(s)'
    <3>1. CASE stream' = stream BY <3>1, ExtraKept, EndSentSame DEF Delivery
    <3>2. CASE stream'[s].status # "SHUTDOWN" BY <3>2 DEF EndSent
    <3> QED BY <1>1, <3>1, <3>2
  <2> QED BY <1>1, <2>1, ExtraKept, EndSentOthers DEF Delivery
<1>6. AllWired' BY <1>1, <1>2, ExtraKept, WiredSame DEF Delivery
<1> QED BY <1>3, <1>4, <1>5, <1>6 DEF Delivery

LEMMA AsideDelivery ==
  ASSUME Core, Delivery, Aside
  PROVE  Delivery'
<1>1. UNCHANGED <<stream, written, calls, conn, stack, wire, order>> BY DEF Aside, history
<1>2. \A t \in Stream : stream'[t].writes = stream[t].writes BY <1>1
<1>3. Writes' BY <1>1, <1>2, WritesSame DEF Delivery
<1>4. AllArmed' BY <1>1, ArmedSame DEF Delivery
<1>5. AllEndsSent' BY <1>1 DEF Delivery, AllEndsSent, EndSent, Ended, Inside
<1>6. \A t \in Stream : Dead(t) => Dead(t)' BY <1>1 DEF Dead, Live, Opened
<1>7. AllWired' BY <1>1, <1>2, <1>6, WiredSame DEF Delivery
<1> QED BY <1>3, <1>4, <1>5, <1>7 DEF Delivery

LEMMA DeliveryKept ==
  ASSUME Careful, Core, Core', Delivery, (\E s \in Stream : Program(s)) \/ Loop
  PROVE  Delivery'
<1>0. Writes /\ AllArmed /\ AllEndsSent /\ AllWired BY DEF Delivery
<1>1. Writes' BY <1>0, WritesMoves
<1>2. AllArmed' /\ AllEndsSent'
  <2>1. CASE \E s \in Stream : Program(s) BY <1>0, <2>1, ArmedProgram, EndSentProgram
  <2>2. CASE Loop BY <1>0, <2>2, ArmedLoop, EndSentLoop
  <2> QED BY <2>1, <2>2
<1>3. AllWired' BY <1>0, <1>1, WiredMoves
<1> QED BY <1>1, <1>2, <1>3 DEF Delivery

LEMMA DeliveryInit == Init => Delivery
<1>1. Init => AllArmed BY DEF Init, AllArmed, Armed, Fresh
<1>2. Init => AllEndsSent BY DEF Init, AllEndsSent, EndSent, Fresh
<1> QED BY <1>1, <1>2, WritesInit, WiredInit DEF Delivery

LEMMA DeliveryGives ==
  Core /\ Delivery => EachWriteOnce /\ WireOrder /\ WritesArmed /\ ShutdownKept
                     /\ ClosingOnce /\ EventsReachOwner
<1>1. AllArmed => WritesArmed BY DEF AllArmed, Armed, WritesArmed
<1>2. AllEndsSent => ShutdownKept BY DEF AllEndsSent, EndSent, Ended, ShutdownKept
<1> QED BY <1>1, <1>2, EachOnce, SentInOrder, ClosedOnce, OwnerReached DEF Delivery

=============================================================================
