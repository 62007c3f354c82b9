---------------------------- MODULE FsOpsProofs -----------------------------
(***************************************************************************)
(* The invariants of FsOps, for any files, operations and descriptors.     *)
(***************************************************************************)
EXTENDS FsOps, TLAPS

(* The pool, of which TaskService says that an operation is in one place at a time. *)

Elems(s) == Pool!ElemsOf(s)

NoRepeat(s) == \A i, j \in DOMAIN s : s[i] = s[j] => i = j

PoolPlaces ==
  /\ queue \in Seq(Op) /\ finished \in Seq(Op) /\ working \in SUBSET Op
  /\ calling \in Op \cup {None}
  /\ NoRepeat(queue) /\ NoRepeat(finished)
  /\ Elems(queue) \cap working = {}
  /\ Elems(queue) \cap Elems(finished) = {}
  /\ working \cap Elems(finished) = {}

LEMMA AppendPlaces ==
  ASSUME NEW S, NEW s \in Seq(S), NEW e \in S
  PROVE  /\ Append(s, e) \in Seq(S) /\ Elems(Append(s, e)) = Elems(s) \cup {e}
         /\ NoRepeat(s) /\ e \notin Elems(s) => NoRepeat(Append(s, e))
<1> DEFINE r == Append(s, e)
<1>1. /\ r \in Seq(S) /\ DOMAIN s = 1..Len(s) /\ DOMAIN r = 1..(Len(s) + 1)
      /\ r[Len(s) + 1] = e /\ \A i \in 1..Len(s) : r[i] = s[i]
  OBVIOUS
<1>2. Len(s) \in Nat /\ \A i \in DOMAIN r : i \in DOMAIN s \/ i = Len(s) + 1
  BY <1>1
<1> HIDE DEF r
<1>3. Elems(r) = Elems(s) \cup {e} BY <1>1, <1>2 DEF Elems, Pool!ElemsOf
<1>4. NoRepeat(s) /\ e \notin Elems(s) => NoRepeat(r)
  BY <1>1, <1>2 DEF NoRepeat, Elems, Pool!ElemsOf
<1> QED BY <1>1, <1>3, <1>4 DEF r

LEMMA TailPlaces ==
  ASSUME NEW S, NEW s \in Seq(S), s # <<>>
  PROVE  /\ Head(s) \in S /\ Tail(s) \in Seq(S)
         /\ Elems(s) = Elems(Tail(s)) \cup {Head(s)}
         /\ NoRepeat(s) => NoRepeat(Tail(s)) /\ Head(s) \notin Elems(Tail(s))
<1> DEFINE r == Tail(s)
<1>1. /\ Len(s) \in Nat \ {0} /\ DOMAIN s = 1..Len(s) /\ DOMAIN r = 1..(Len(s) - 1)
      /\ Head(s) = s[1] /\ Head(s) \in S /\ r \in Seq(S)
      /\ \A i \in 1..(Len(s) - 1) : r[i] = s[i + 1]
  OBVIOUS
<1> HIDE DEF r
<1>2. \A i \in DOMAIN r : i + 1 \in DOMAIN s /\ i + 1 # 1 /\ r[i] = s[i + 1]
  BY <1>1
<1>3. \A i \in DOMAIN s : i = 1 \/ (i - 1 \in DOMAIN r /\ r[i - 1] = s[i])
  BY <1>1
<1>4. Elems(s) = Elems(r) \cup {Head(s)}
  <2>1. \A e \in Elems(s) : e \in Elems(r) \cup {Head(s)} BY <1>1, <1>3 DEF Elems, Pool!ElemsOf
  <2>2. \A e \in Elems(r) \cup {Head(s)} : e \in Elems(s) BY <1>1, <1>2 DEF Elems, Pool!ElemsOf
  <2> QED BY <2>1, <2>2
<1>5. ASSUME NoRepeat(s) PROVE NoRepeat(r) /\ Head(s) \notin Elems(r)
  <2>1. NoRepeat(r)
    <3> SUFFICES ASSUME NEW i \in DOMAIN r, NEW j \in DOMAIN r, r[i] = r[j] PROVE i = j
      BY DEF NoRepeat
    <3>1. i + 1 = j + 1 BY <1>5, <1>2 DEF NoRepeat
    <3> QED BY <3>1, <1>1
  <2>2. Head(s) \notin Elems(r)
    BY <1>5, <1>1, <1>2 DEF Elems, Pool!ElemsOf, NoRepeat
  <2> QED BY <2>1, <2>2
<1> QED BY <1>1, <1>4, <1>5 DEF r

LEMMA PoolInit == Pool!Init => PoolPlaces
  BY DEF Pool!Init, PoolPlaces, NoRepeat, Elems, Pool!ElemsOf

LEMMA PoolNext == PoolPlaces /\ [Pool!Next]_poolVars => PoolPlaces'
<1> SUFFICES ASSUME PoolPlaces, [Pool!Next]_poolVars PROVE PoolPlaces'
  OBVIOUS
<1> USE DEF PoolPlaces, Elems
<1>1. ASSUME NEW t \in Op, Pool!Submit(t) PROVE PoolPlaces'
  <2>1. /\ queue' \in Seq(Op) /\ Elems(queue') = Elems(queue) \cup {t}
        /\ NoRepeat(queue')
    BY <1>1, AppendPlaces DEF Pool!Submit
  <2> QED BY <1>1, <2>1 DEF Pool!Submit
<1>2. CASE Pool!Begin
  <2>1. /\ Head(queue) \in Op /\ queue' \in Seq(Op) /\ NoRepeat(queue')
        /\ Elems(queue) = Elems(queue') \cup {Head(queue)}
        /\ Head(queue) \notin Elems(queue')
    BY <1>2, TailPlaces DEF Pool!Begin
  <2> QED BY <1>2, <2>1 DEF Pool!Begin
<1>3. ASSUME NEW t \in Op, Pool!Finish(t) PROVE PoolPlaces'
  <2>1. /\ finished' \in Seq(Op) /\ Elems(finished') = Elems(finished) \cup {t}
        /\ NoRepeat(finished')
    BY <1>3, AppendPlaces DEF Pool!Finish
  <2> QED BY <1>3, <2>1 DEF Pool!Finish
<1>4. CASE Pool!Deliver
  <2>1. /\ Head(finished) \in Op /\ finished' \in Seq(Op) /\ NoRepeat(finished')
        /\ Elems(finished) = Elems(finished') \cup {Head(finished)}
    BY <1>4, TailPlaces DEF Pool!Deliver
  <2> QED BY <1>4, <2>1 DEF Pool!Deliver
<1>5. CASE Pool!Return \/ Pool!Enter \/ Pool!Leave \/ UNCHANGED poolVars
  BY <1>5 DEF Pool!Return, Pool!Enter, Pool!Leave, poolVars
<1> QED BY <1>1, <1>2, <1>3, <1>4, <1>5 DEF Pool!Next

(* A task accepted by the pool is in one place until it is delivered, and in it
   once: no queue holds it twice, and no two stages have it. The pool is
   TaskService, the specification that ThreadPool implements. *)
THEOREM ServicePlaces == Pool!Spec => []PoolPlaces
  BY PoolInit, PoolNext, PTL DEF Pool!Spec, Pool!serviceVars, poolVars

-----------------------------------------------------------------------------
(* Types, and the operations in the places of the pool. *)

OpRecords == [Op -> [type : {"unknown", "open", "read", "write", "stat", "close"},
                     file : File \cup {None}, fd : Fd \cup {None},
                     status : {"unknown", "ok", "error"}, handle : BOOLEAN]]

(* The pool's places hold operations that are in use, the one whose callback
   runs is in none of them, and a callback's operation is settled. *)
Places ==
  /\ PoolPlaces
  /\ Elems(queue) \cup working \cup Elems(finished) \subseteq Op \ Idle
  /\ calling # None => /\ calling \in Op \ Idle
                       /\ calling \notin Elems(queue) \cup working \cup Elems(finished)
  /\ \A o \in Op : o \in Elems(finished) \/ o = calling => op[o].status # "unknown"
  /\ \A o \in Op : op[o].file = None <=> o \in Idle

CInv == TypeOK /\ Places

LEMMA PoolStep == [Next]_vars => [Pool!Next]_poolVars
<1> SUFFICES ASSUME [Next]_vars PROVE Pool!Next \/ UNCHANGED poolVars
  OBVIOUS
<1> USE DEF Pool!Next
<1>1. ASSUME NEW f \in File, Drop(f) \/ Collect(f) \/ Resume(f)
      PROVE  (\E o \in Op : Pool!Submit(o)) \/ UNCHANGED poolVars
  BY <1>1 DEF Drop, Collect, Resume, Opened, RfOpened, RfStat, RfRead, RfClose, Becomes, Submit,
     CloseWith
<1>2. ASSUME NEW f \in File, NEW o \in Op, Open(f, o) \/ Use(f, o) \/ Close(f, o)
      PROVE  Pool!Submit(o)
  BY <1>2 DEF Open, Use, Close, CloseWith, Submit
<1>3. ASSUME NEW o \in Op, Work(o) \/ Finish(o) PROVE Pool!Finish(o) \/ UNCHANGED poolVars
  BY <1>3 DEF Work, Finish
<1>4. CASE Begin \/ Enter \/ Leave \/ Deliver \/ Return
  BY <1>4 DEF Begin, Enter, Leave, Deliver, Return
<1>5. CASE UNCHANGED vars BY <1>5 DEF vars
<1> QED BY <1>1, <1>2, <1>3, <1>4, <1>5 DEF Next

(* What the steps that submit an operation, and only they, do to it. *)
LEMMA SubmitStep ==
  ASSUME CInv, NEW o \in Op, NEW f \in File, NEW type \in {"open", "read", "write", "stat", "close"},
         NEW h \in BOOLEAN, Submit(o, type, f, h)
  PROVE  /\ o \in Op /\ o \in Idle /\ o # calling
         /\ op' = [op EXCEPT ![o] = [type |-> type, file |-> f, fd |-> file[f].fd,
                                     status |-> "unknown", handle |-> h]]
         /\ op' \in OpRecords
         /\ UNCHANGED <<working, finished, calling, looping>>
         /\ Elems(queue') = Elems(queue) \cup {o}
<1>1. o \in Op /\ o \in Idle /\ o # calling BY OpAssumption DEF Submit, Idle, CInv, Places
<1>2. Elems(queue') = Elems(queue) \cup {o}
  BY <1>1, AppendPlaces DEF Submit, Pool!Submit, CInv, Places, PoolPlaces
<1>3. op' \in OpRecords
  <2>1. file[f].fd \in Fd \cup {None} BY DEF CInv, TypeOK
  <2> QED BY <2>1, <1>1 DEF Submit, CInv, TypeOK, OpRecords
<1> QED BY <1>1, <1>2, <1>3 DEF Submit, Pool!Submit

LEMMA CInit == Init => CInv
<1> SUFFICES ASSUME Init PROVE CInv
  OBVIOUS
<1> USE DEF Init, Pool!Init
<1>1. TypeOK BY DEF TypeOK, Unused, Closed
<1>2. PoolPlaces BY PoolInit
<1>3. Elems(queue) = {} /\ Elems(finished) = {} BY DEF Elems, Pool!ElemsOf
<1>4. \A o \in Op : op[o].file = None /\ o \in Idle BY DEF Unused, Idle
<1> QED BY <1>1, <1>2, <1>3, <1>4, OpAssumption DEF CInv, Places

LEMMA CNext == CInv /\ [Next]_vars => CInv'
<1> SUFFICES ASSUME CInv, [Next]_vars PROVE CInv'
  OBVIOUS
<1> USE FileAssumption, OpAssumption
<1>a. PoolPlaces' BY PoolStep, PoolNext DEF CInv, Places
<1>b. CInv' <=> TypeOK' /\ Places' BY DEF CInv
<1>1. ASSUME NEW o \in Op, NEW f \in File, NEW type \in {"open", "read", "write", "stat", "close"},
             NEW h \in BOOLEAN, Submit(o, type, f, h),
             file' \in [File -> [fd : Fd \cup {None}, isClosing : BOOLEAN, isClosed : BOOLEAN]],
             frame' \in [File -> {"none", "held", "spent", "dropped", "done"} \cup Awaiting],
             micro' \in File \cup {None}, UNCHANGED table
      PROVE  CInv'
  <2>0. /\ o \in Op /\ o \in Idle /\ o # calling
        /\ op' = [op EXCEPT ![o] = [type |-> type, file |-> f, fd |-> file[f].fd,
                                    status |-> "unknown", handle |-> h]]
        /\ op' \in OpRecords
        /\ UNCHANGED <<working, finished, calling, looping>>
        /\ Elems(queue') = Elems(queue) \cup {o}
    BY <1>1, SubmitStep
  <2>1. TypeOK' BY <1>1, <2>0 DEF CInv, TypeOK, OpRecords
  <2>2. Idle' = Idle \ {o} BY <2>0 DEF CInv, TypeOK, Idle
  <2>3. Elems(finished)' = Elems(finished) /\ Elems(queue)' = Elems(queue) \cup {o}
    BY <2>0 DEF Elems
  <2>4. Places'
    <3>1. Elems(queue)' \cup working' \cup Elems(finished)' \subseteq Op \ Idle'
      BY <2>0, <2>2, <2>3 DEF CInv, Places
    <3>2. calling' # None =>
            /\ calling' \in Op \ Idle'
            /\ calling' \notin Elems(queue)' \cup working' \cup Elems(finished)'
      BY <2>0, <2>2, <2>3 DEF CInv, Places
    <3>3. \A p \in Op : p \in Elems(finished)' \/ p = calling' => op'[p].status # "unknown"
      BY <2>0, <2>3 DEF CInv, Places, TypeOK
    <3>4. \A p \in Op : op'[p].file = None <=> p \in Idle'
      BY <2>0, <2>2 DEF CInv, Places, TypeOK
    <3> QED BY <1>a, <3>1, <3>2, <3>3, <3>4 DEF Places
  <2> QED BY <2>1, <2>4, <1>b
<1>2. ASSUME UNCHANGED <<poolVars, op>>, TypeOK' PROVE CInv'
  BY <1>2, <1>a, <1>b DEF CInv, Places, poolVars, Idle, Elems, Pool!ElemsOf
<1>3. ASSUME NEW f \in File, NEW o \in Op, Open(f, o) PROVE CInv'
  <2>1. frame' \in [File -> {"none", "held", "spent", "dropped", "done"} \cup Awaiting]
    BY <1>3 DEF Open, CInv, TypeOK, Awaiting, ReadFile
  <2>2. Submit(o, "open", f, FALSE) /\ UNCHANGED <<file, micro, table>> BY <1>3 DEF Open
  <2> QED BY <1>1, <2>1, <2>2 DEF CInv, TypeOK
<1>4. ASSUME NEW f \in File, NEW o \in Op, Use(f, o) PROVE CInv'
  <2>1. PICK type \in {"read", "write", "stat"} : Submit(o, type, f, TRUE)
    BY <1>4 DEF Use
  <2>2. UNCHANGED <<file, frame, micro, table>> BY <1>4 DEF Use
  <2> QED BY <1>1, <2>1, <2>2 DEF CInv, TypeOK
<1>5. ASSUME NEW f \in File, NEW o \in Op, NEW left \in {"spent", "close"}, CloseWith(f, o, left),
             micro' \in File \cup {None}, UNCHANGED table
      PROVE  CInv'
  <2>1. frame' \in [File -> {"none", "held", "spent", "dropped", "done"} \cup Awaiting]
    BY <1>5 DEF CloseWith, CInv, TypeOK, Awaiting, ReadFile
  <2>2. file' \in [File -> [fd : Fd \cup {None}, isClosing : BOOLEAN, isClosed : BOOLEAN]]
    BY <1>5 DEF CloseWith, CInv, TypeOK
  <2> QED BY <1>1, <1>5, <2>1, <2>2 DEF CloseWith
<1>6. ASSUME NEW f \in File, NEW o \in Op, Close(f, o) PROVE CInv'
  BY <1>5, <1>6 DEF Close, CInv, TypeOK
<1>7. ASSUME NEW f \in File, Drop(f) \/ Collect(f) PROVE CInv'
  <2>1. CASE Drop(f) BY <2>1, <1>2 DEF Drop, CInv, TypeOK
  <2>2. CASE Collect(f)
    <3>1. TypeOK' BY <2>2 DEF Collect, CInv, TypeOK, Closed
    <3> QED BY <2>2, <3>1, <1>2 DEF Collect
  <2> QED BY <1>7, <2>1, <2>2
<1>8. ASSUME NEW f \in File, NEW at, NEW left \in {"held", "dropped", "done"},
             Continue(f, at), Becomes(f, left)
      PROVE  CInv'
  <2>1. TypeOK' BY <1>8 DEF Continue, Becomes, CInv, TypeOK
  <2> QED BY <1>8, <2>1, <1>2 DEF Becomes
<1>9. ASSUME NEW f \in File, NEW at, NEW o \in Op, NEW type \in {"stat", "read"}, Continue(f, at),
             Submit(o, type, f, TRUE), frame' = [frame EXCEPT ![f] = type], UNCHANGED file
      PROVE  CInv'
  <2>1. frame' \in [File -> {"none", "held", "spent", "dropped", "done"} \cup Awaiting]
    BY <1>9 DEF CInv, TypeOK, Awaiting, ReadFile
  <2>2. file' \in [File -> [fd : Fd \cup {None}, isClosing : BOOLEAN, isClosed : BOOLEAN]]
    BY <1>9 DEF CInv, TypeOK
  <2>3. micro' \in File \cup {None} /\ UNCHANGED table BY <1>9 DEF Continue
  <2>4. PICK h \in BOOLEAN : Submit(o, type, f, h) BY <1>9, Zenon
  <2> QED BY <1>1, <2>1, <2>2, <2>3, <2>4
<1>10. ASSUME NEW f \in File, Resume(f) PROVE CInv'
  <2>1. CASE Opened(f) BY <2>1, <1>8 DEF Opened
  <2>2. CASE RfOpened(f) BY <2>2, <1>8, <1>9 DEF RfOpened
  <2>3. CASE RfStat(f) BY <2>3, <1>5, <1>9 DEF RfStat, Continue
  <2>4. CASE RfRead(f) BY <2>4, <1>5 DEF RfRead, Continue
  <2>5. CASE RfClose(f) BY <2>5, <1>8 DEF RfClose
  <2> QED BY <1>10, <2>1, <2>2, <2>3, <2>4, <2>5 DEF Resume
<1>11. ASSUME NEW o \in Op, Work(o) PROVE CInv'
  <2>1. \/ op' = op
        \/ \E s \in {"ok", "error"} : op' = [op EXCEPT ![o].status = s]
        \/ \E d \in Fd : op' = [op EXCEPT ![o].status = "ok", ![o].fd = d]
    BY <1>11, CloseAssumption DEF Work, WorkOpen, WorkUse, WorkClose, Ends
  <2>2. \/ table' = table
        \/ \E d \in Fd : table' = [table EXCEPT ![d] = op[o].file]
        \/ table' = [table EXCEPT ![op[o].fd] = None]
    BY <1>11 DEF Work, WorkOpen, WorkUse, WorkClose
  <2>3. /\ op' \in OpRecords
        /\ table' \in [Fd -> File \cup {None, Lost}]
    BY <2>1, <2>2 DEF CInv, TypeOK, OpRecords
  <2>4. \A p \in Op : /\ op'[p].type = op[p].type /\ op'[p].file = op[p].file
                      /\ op[p].status # "unknown" => op'[p].status # "unknown"
    BY <2>1 DEF CInv, TypeOK
  <2>5. TypeOK' BY <1>11, <2>3 DEF Work, CInv, TypeOK, OpRecords
  <2>6. Idle' = Idle BY <2>4 DEF Idle
  <2>7. Places'
    BY <1>11, <1>a, <2>4, <2>6 DEF Work, poolVars, CInv, Places, Elems, Pool!ElemsOf
  <2> QED BY <2>5, <2>7, <1>b
<1>12. ASSUME NEW o \in Op, Finish(o) PROVE CInv'
  <2>1. o \in working /\ working' = working \ {o} /\ UNCHANGED <<queue, calling, op, Idle>>
    BY <1>12 DEF Finish, Pool!Finish, Idle
  <2>2. Elems(finished)' = Elems(finished) \cup {o}
    BY <1>12, AppendPlaces DEF Finish, Pool!Finish, CInv, Places, PoolPlaces, Elems
  <2>3. Elems(queue)' = Elems(queue) BY <2>1 DEF Elems
  <2>4. TypeOK' BY <1>12 DEF Finish, CInv, TypeOK
  <2>5. Places' BY <1>12, <1>a, <2>1, <2>2, <2>3 DEF Finish, CInv, Places
  <2> QED BY <2>4, <2>5, <1>b
<1>13. CASE Begin
  <2>1. /\ Elems(queue) = Elems(queue') \cup {Head(queue)}
        /\ working' = working \cup {Head(queue)} /\ UNCHANGED <<finished, calling, op, Idle>>
    BY <1>13, TailPlaces DEF Begin, Pool!Begin, CInv, Places, PoolPlaces, Idle
  <2>2. Elems(finished)' = Elems(finished) /\ Elems(queue)' = Elems(queue')
    BY <2>1 DEF Elems
  <2>3. TypeOK' BY <1>13 DEF Begin, CInv, TypeOK
  <2>4. Places' BY <1>a, <2>1, <2>2 DEF CInv, Places
  <2> QED BY <2>3, <2>4, <1>b
<1>14. CASE Deliver
  <2>1. /\ Elems(finished) = Elems(finished') \cup {calling'} /\ calling' \in Op
        /\ calling' \notin Elems(finished')
        /\ UNCHANGED <<queue, working, op, Idle>>
    BY <1>14, TailPlaces
    DEF Deliver, Pool!Deliver, CInv, Places, PoolPlaces, Idle
  <2>2. Elems(queue)' = Elems(queue) /\ Elems(finished)' = Elems(finished')
    BY <2>1 DEF Elems
  <2>3. op[calling'].file \in File BY <2>1 DEF CInv, Places, TypeOK
  <2>4. TypeOK'
    <3>1. \A r \in [fd : Fd \cup {None}, isClosing : BOOLEAN, isClosed : BOOLEAN] :
            Settled(r, op[calling'].type, op[calling'].status, op[calling'].fd)
              \in [fd : Fd \cup {None}, isClosing : BOOLEAN, isClosed : BOOLEAN]
      BY <2>1 DEF Settled, CInv, TypeOK
    <3> QED BY <1>14, <2>1, <2>3, <3>1 DEF Deliver, CInv, TypeOK
  <2>5. Places'
    <3>1. calling' \notin Elems(queue) \cup working
      BY <2>1 DEF CInv, Places, PoolPlaces
    <3> QED BY <1>a, <2>1, <2>2, <3>1 DEF CInv, Places
  <2> QED BY <2>4, <2>5, <1>b
<1>15. CASE Return
  <2>1. /\ calling \in Op /\ calling' = None /\ op' = [op EXCEPT ![calling] = Unused]
        /\ UNCHANGED <<queue, working, finished>>
    BY <1>15 DEF Return, Pool!Return, CInv, Places
  <2>2. Elems(queue)' = Elems(queue) /\ Elems(finished)' = Elems(finished)
    BY <2>1 DEF Elems
  <2>3. TypeOK' BY <1>15, <2>1 DEF Return, CInv, TypeOK, Unused
  <2>4. Idle' = Idle \cup {calling} BY <2>1 DEF Idle, Unused, CInv, TypeOK
  <2>5. Places' BY <1>a, <2>1, <2>2, <2>4 DEF CInv, Places, TypeOK, Unused
  <2> QED BY <2>3, <2>5, <1>b
<1>16. CASE Enter \/ Leave
  <2>1. UNCHANGED <<queue, working, finished, calling, op>> /\ TypeOK'
    BY <1>16 DEF Enter, Leave, Pool!Enter, Pool!Leave, CInv, TypeOK
  <2> QED BY <1>a, <1>b, <2>1 DEF CInv, Places, Idle, Elems, Pool!ElemsOf
<1>17. CASE UNCHANGED vars
  <2>1. TypeOK' BY <1>17 DEF vars, CInv, TypeOK
  <2> QED BY <1>2, <1>17, <2>1 DEF vars
<1> QED
  BY <1>3, <1>4, <1>6, <1>7, <1>10, <1>11, <1>12, <1>13, <1>14, <1>15, <1>16, <1>17 DEF Next

-----------------------------------------------------------------------------
(* Asynchronous functions and operations. *)

Pending(f) == InFlight(f) \cup (IF micro = f THEN {calling} ELSE {})
Awaits(at) == IF at \in {"open", "opening"} THEN "open" ELSE at

(* An asynchronous function waits for one operation, of the type it asked for,
   or that operation's callback is about to continue it; only it opens files;
   every operation keeps its file alive. *)
Frames ==
  /\ \A f \in File : frame[f] \in Awaiting =>
       \E o \in Op : Pending(f) = {o} /\ op[o].type = Awaits(frame[f])
  /\ micro # None => /\ calling \in Op /\ op[calling].file = micro /\ frame[micro] \in Awaiting
  /\ \A o \in Op : op[o].type = "open" /\ o # calling => frame[op[o].file] \in {"open", "opening"}
  /\ \A o \in Op : op[o].type \notin {"unknown", "open"} => op[o].handle
  /\ FileLives

(* How the operations in flight change. *)
LEMMA InFlightSubmit ==
  ASSUME CInv, NEW o \in Op, NEW f \in File,
         NEW type \in {"open", "read", "write", "stat", "close"},
         NEW h \in BOOLEAN, Submit(o, type, f, h)
  PROVE  /\ (\A g \in File : o \notin InFlight(g)) /\ InFlight(f)' = InFlight(f) \cup {o}
         /\ \A g \in File \ {f} : InFlight(g)' = InFlight(g)
         /\ UNCHANGED calling /\ o # calling
         /\ op'[o] = [type |-> type, file |-> f, fd |-> file[f].fd,
                      status |-> "unknown", handle |-> h]
         /\ \A p \in Op \ {o} : op'[p] = op[p]
<1>1. /\ o \in Op /\ o \in Idle /\ o # calling
      /\ op' = [op EXCEPT ![o] = [type |-> type, file |-> f, fd |-> file[f].fd,
                                  status |-> "unknown", handle |-> h]]
      /\ calling' = calling
  BY SubmitStep
<1>2. op[o].file = None /\ op'[o].file = f /\ \A p \in Op : p # o => op'[p] = op[p]
  BY <1>1 DEF CInv, Places, TypeOK
<1>3. /\ op'[o] = [type |-> type, file |-> f, fd |-> file[f].fd,
                   status |-> "unknown", handle |-> h]
  BY <1>1 DEF CInv, TypeOK
<1> QED BY <1>1, <1>2, <1>3, FileAssumption DEF InFlight

LEMMA InFlightWork ==
  ASSUME CInv, NEW o \in Op, Work(o)
  PROVE  /\ \A f \in File : InFlight(f)' = InFlight(f)
         /\ \A p \in Op : op'[p].type = op[p].type /\ op'[p].file = op[p].file
                          /\ op'[p].handle = op[p].handle
         /\ \A p \in Op \ {o} : op'[p] = op[p]
         /\ UNCHANGED <<calling, frame, micro, file>>
<1>1. \/ op' = op
      \/ \E s \in {"ok", "error"} : op' = [op EXCEPT ![o].status = s]
      \/ \E d \in Fd : op' = [op EXCEPT ![o].status = "ok", ![o].fd = d]
  BY CloseAssumption DEF Work, WorkOpen, WorkUse, WorkClose, Ends
<1>2. /\ \A p \in Op : op'[p].type = op[p].type /\ op'[p].file = op[p].file
                       /\ op'[p].handle = op[p].handle
      /\ \A p \in Op \ {o} : op'[p] = op[p]
  BY <1>1 DEF CInv, TypeOK
<1>3. UNCHANGED <<calling, frame, micro, file>> BY DEF Work, poolVars
<1> QED BY <1>2, <1>3 DEF InFlight

LEMMA InFlightDeliver ==
  ASSUME CInv, Deliver
  PROVE  /\ calling = None /\ calling' \in Op /\ op[calling'].file \in File
         /\ \A f \in File : InFlight(f)' = InFlight(f) \ {calling'}
         /\ op[calling'].type # "unknown" /\ op[calling'].status # "unknown"
         /\ calling' \in InFlight(op[calling'].file)
         /\ UNCHANGED <<op, frame, table>>
<1>1. calling = None /\ calling' = Head(finished) /\ finished # <<>> BY DEF Deliver, Pool!Deliver
<1>2. calling' \in Elems(finished) /\ calling' \in Op
  BY <1>1, TailPlaces DEF CInv, Places, PoolPlaces
<1>3. op[calling'].file \in File /\ op[calling'].type # "unknown" /\ op[calling'].status # "unknown"
  BY <1>2 DEF CInv, Places, TypeOK, Idle
<1>4. UNCHANGED <<op, frame, table>> BY DEF Deliver
<1> QED BY <1>1, <1>2, <1>3, <1>4, OpAssumption DEF InFlight

LEMMA InFlightReturn ==
  ASSUME CInv, Return
  PROVE  /\ \A f \in File : InFlight(f)' = InFlight(f)
         /\ calling' = None /\ calling \in Op /\ op'[calling] = Unused
         /\ \A p \in Op \ {calling} : op'[p] = op[p]
         /\ micro = None /\ UNCHANGED <<file, frame, micro, table>>
<1>1. calling \in Op /\ calling' = None /\ op' = [op EXCEPT ![calling] = Unused]
  BY DEF Return, Pool!Return, CInv, Places
<1>2. op'[calling] = Unused /\ \A p \in Op \ {calling} : op'[p] = op[p]
  BY <1>1 DEF CInv, TypeOK
<1>3. Unused.file = None BY DEF Unused
<1> QED BY <1>1, <1>2, <1>3, FileAssumption, OpAssumption DEF InFlight, Return, InProgram

LEMMA FramesInit == Init => Frames
  BY FileAssumption, OpAssumption
  DEF Init, Pool!Init, Frames, FileLives, InFlight, Unused, Awaiting, ReadFile

LEMMA FramesNext == CInv /\ Frames /\ [Next]_vars => Frames'
<1> SUFFICES ASSUME CInv, Frames, [Next]_vars PROVE Frames'
  OBVIOUS
<1> USE FileAssumption, OpAssumption
<1>a. /\ op \in OpRecords /\ frame \in [File -> {"none", "held", "spent", "dropped", "done"} \cup Awaiting]
      /\ Awaiting = {"open", "opening", "stat", "read", "close"}
  BY DEF CInv, TypeOK, OpRecords, Awaiting, ReadFile
<1>b. \A f \in File : InFlight(f) = {o \in Op \ {calling} : op[o].file = f}
  BY DEF InFlight
(* An operation is submitted where nothing is awaited. *)
<1>1. ASSUME NEW f \in File, NEW o \in Op,
             NEW type \in {"open", "read", "write", "stat", "close"}, NEW h \in BOOLEAN,
             NEW at \in {"open", "opening", "stat", "read", "close", "held", "spent"},
             Submit(o, type, f, h), frame' = [frame EXCEPT ![f] = at], micro' = None,
             type # "open" => h /\ frame[f] # "none",
             InFlight(f) = {} \/ (frame[f] \in {"held", "spent"} /\ at \in {"held", "spent"}),
             micro # None => micro = f,
             at \in Awaiting <=> type = Awaits(at) /\ at \notin {"held", "spent"},
             type = "open" => at \in {"open", "opening"},
             frame[f] \in {"open", "opening"} => InFlight(f) = {}
      PROVE  Frames'
  <2>1. /\ (\A g \in File : o \notin InFlight(g)) /\ InFlight(f)' = InFlight(f) \cup {o}
        /\ \A g \in File \ {f} : InFlight(g)' = InFlight(g)
        /\ UNCHANGED calling /\ o # calling
        /\ op'[o] = [type |-> type, file |-> f, fd |-> file[f].fd,
                     status |-> "unknown", handle |-> h]
        /\ \A p \in Op \ {o} : op'[p] = op[p]
    BY <1>1, InFlightSubmit
  <2>2. frame'[f] = at /\ \A g \in File \ {f} : frame'[g] = frame[g] BY <1>1, <1>a
  <2>3. \A g \in File : frame'[g] \in Awaiting =>
          \E p \in Op : Pending(g)' = {p} /\ op'[p].type = Awaits(frame'[g])
    <3>1. ASSUME NEW g \in File \ {f}, frame[g] \in Awaiting
          PROVE  \E p \in Op : Pending(g)' = {p} /\ op'[p].type = Awaits(frame[g])
      <4>1. Pending(g)' = Pending(g) BY <1>1, <2>1, <3>1 DEF Pending
      <4>2. PICK p \in Op : Pending(g) = {p} /\ op[p].type = Awaits(frame[g])
        BY <3>1 DEF Frames
      <4>3. p # o BY <2>1, <4>2 DEF Pending
      <4> QED BY <2>1, <4>1, <4>2, <4>3
    <3>2. CASE at \in Awaiting
      <4>1. Pending(f)' = {o} BY <1>1, <1>a, <2>1, <3>2 DEF Pending
      <4> QED BY <1>1, <2>1, <2>2, <3>1, <3>2, <4>1
    <3>3. CASE at \notin Awaiting BY <2>2, <3>1, <3>3
    <3> QED BY <3>2, <3>3
  <2>4. \A p \in Op : op'[p].type = "open" /\ p # calling' => frame'[op'[p].file] \in {"open", "opening"}
    <3>1. SUFFICES ASSUME NEW p \in Op, op'[p].type = "open", p # calling
          PROVE  frame'[op'[p].file] \in {"open", "opening"}
      BY <2>1
    <3>2. CASE p = o BY <1>1, <2>1, <2>2, <3>1, <3>2
    <3>3. CASE p # o
      <4>1. op[p].type = "open" /\ op[p].file \in File /\ frame[op[p].file] \in {"open", "opening"}
        BY <2>1, <3>1, <3>3 DEF Frames, CInv, Places, TypeOK, Idle
      <4>2. op[p].file # f BY <1>1, <1>b, <3>1, <4>1
      <4> QED BY <2>1, <2>2, <3>3, <4>1, <4>2
    <3> QED BY <3>2, <3>3
  <2>5. \A p \in Op : op'[p].type \notin {"unknown", "open"} => op'[p].handle
    BY <1>1, <2>1 DEF Frames
  <2>6. FileLives' BY <1>1, <2>1, <2>2 DEF FileLives, Frames
  <2> QED BY <1>1, <2>3, <2>4, <2>5, <2>6 DEF Frames
(* Only the frame of a file that is not awaited, or is continued, changes. *)
<1>2. ASSUME NEW f \in File, NEW at \in {"none", "held", "spent", "dropped", "done"},
             UNCHANGED <<op, calling>>, frame' = [frame EXCEPT ![f] = at], micro' \in {micro, None},
             micro' = None \/ micro # f, micro' = None => micro \in {None, f},
             frame[f] \in {"open", "opening"} => InFlight(f) = {},
             at = "none" => InFlight(f) = {}, frame[f] # "none"
      PROVE  Frames'
  <2>1. frame'[f] = at /\ at \notin Awaiting /\ \A g \in File \ {f} : frame'[g] = frame[g]
    BY <1>2, <1>a
  <2>2. \A g \in File : InFlight(g)' = InFlight(g) BY <1>2 DEF InFlight
  <2>3. \A g \in File \ {f} : Pending(g)' = Pending(g) BY <1>2, <2>2 DEF Pending
  <2>4. \A g \in File : frame'[g] \in Awaiting =>
          \E p \in Op : Pending(g)' = {p} /\ op'[p].type = Awaits(frame'[g])
    BY <1>2, <2>1, <2>3 DEF Frames
  <2>5. \A p \in Op : op'[p].type = "open" /\ p # calling' => frame'[op'[p].file] \in {"open", "opening"}
    <3>1. SUFFICES ASSUME NEW p \in Op, op[p].type = "open", p # calling
          PROVE  frame'[op[p].file] \in {"open", "opening"}
      BY <1>2
    <3>2. op[p].file \in File /\ frame[op[p].file] \in {"open", "opening"}
      BY <3>1 DEF Frames, CInv, Places, TypeOK, Idle
    <3> QED BY <1>2, <1>b, <2>1, <3>1, <3>2
  <2>6. FileLives' BY <1>2, <2>1, <2>2 DEF FileLives, Frames
  <2>7. micro' # None => /\ calling' \in Op /\ op'[calling'].file = micro'
                         /\ frame'[micro'] \in Awaiting
    <3>1. SUFFICES ASSUME micro' # None PROVE frame'[micro] \in Awaiting /\ micro' = micro
      BY <1>2 DEF Frames
    <3>2. micro \in File BY <1>2, <3>1 DEF CInv, TypeOK
    <3> QED BY <1>2, <2>1, <3>1, <3>2 DEF Frames
  <2> QED BY <1>2, <2>4, <2>5, <2>6, <2>7 DEF Frames
<1>3. ASSUME NEW f \in File, micro = f
      PROVE  InFlight(f) = {} /\ frame[f] \in Awaiting /\ op[calling].type = Awaits(frame[f])
  BY <1>3, <1>b DEF Frames, Pending
<1>4. ASSUME NEW f \in File, NEW o \in Op, Open(f, o) PROVE Frames'
  <2>1. PICK by \in {"open", "opening"} : frame' = [frame EXCEPT ![f] = by]
    BY <1>4 DEF Open
  <2>2. /\ Submit(o, "open", f, FALSE) /\ micro = None /\ micro' = None
        /\ frame[f] = "none" /\ InFlight(f) = {}
    BY <1>4 DEF Open, MayStart, InProgram, Frames, FileLives
  <2> QED BY <1>1, <1>a, <2>1, <2>2 DEF Awaits
<1>5. ASSUME NEW f \in File, NEW o \in Op, Use(f, o) PROVE Frames'
  <2>1. PICK type \in {"read", "write", "stat"} : Submit(o, type, f, TRUE)
    BY <1>5 DEF Use
  <2>2. /\ micro = None /\ micro' = None /\ frame[f] \in {"held", "spent"}
        /\ frame' = [frame EXCEPT ![f] = frame[f]]
    BY <1>5, <1>a DEF Use, MayStart, InProgram
  <2> QED BY <1>1, <1>a, <2>1, <2>2 DEF Awaits
<1>6. ASSUME NEW f \in File, NEW o \in Op, Close(f, o) PROVE Frames'
  <2>1. /\ Submit(o, "close", f, TRUE) /\ micro = None /\ micro' = None
        /\ frame[f] \in {"held", "spent"} /\ frame' = [frame EXCEPT ![f] = "spent"]
    BY <1>6 DEF Close, CloseWith, MayStart, InProgram
  <2> QED BY <1>1, <1>a, <2>1 DEF Awaits
<1>7. ASSUME NEW f \in File, Drop(f) PROVE Frames'
  BY <1>2, <1>7 DEF Drop, InProgram, poolVars
<1>8. ASSUME NEW f \in File, Collect(f) PROVE Frames'
  <2>1. InFlight(f) = {}
    <3> SUFFICES ASSUME NEW o \in InFlight(f) PROVE FALSE
      OBVIOUS
    <3>1. o \in Op /\ o # calling /\ op[o].file = f /\ ~op[o].handle BY <1>8, <1>b DEF Collect
    <3>2. op[o].type = "open" BY <3>1 DEF Frames, CInv, Places, Idle
    <3> QED BY <1>8, <3>1, <3>2 DEF Frames, Collect
  <2>2. micro # f BY <1>3, <1>8, <1>a DEF Collect
  <2> QED BY <1>2, <1>8, <2>1, <2>2 DEF Collect, poolVars
<1>9. ASSUME NEW f \in File, NEW at, NEW left \in {"held", "dropped", "done"},
             Continue(f, at), Becomes(f, left)
      PROVE  Frames'
  <2>1. frame[f] # "none" /\ InFlight(f) = {} BY <1>3, <1>9, <1>a DEF Continue
  <2> QED BY <1>2, <1>9, <2>1 DEF Continue, Becomes, poolVars
<1>10. ASSUME NEW f \in File, NEW at, NEW o \in Op, NEW type \in {"stat", "read", "close"},
              Continue(f, at), Submit(o, type, f, TRUE), frame' = [frame EXCEPT ![f] = type]
       PROVE  Frames'
  <2>1. /\ InFlight(f) = {} /\ frame[f] # "none" /\ type \in Awaiting /\ type = Awaits(type)
        /\ type \notin {"held", "spent", "open"}
    BY <1>3, <1>10, <1>a DEF Continue, Awaits
  <2> QED BY <1>1, <1>10, <2>1 DEF Continue
<1>11. ASSUME NEW f \in File, Resume(f) PROVE Frames'
  <2>1. CASE Opened(f) BY <2>1, <1>9 DEF Opened
  <2>2. CASE RfOpened(f) BY <2>2, <1>9, <1>10 DEF RfOpened
  <2>3. CASE RfStat(f) BY <2>3, <1>10 DEF RfStat, CloseWith
  <2>4. CASE RfRead(f) BY <2>4, <1>10 DEF RfRead, CloseWith
  <2>5. CASE RfClose(f) BY <2>5, <1>9 DEF RfClose
  <2> QED BY <1>11, <2>1, <2>2, <2>3, <2>4, <2>5 DEF Resume
<1>12. ASSUME \A f \in File : InFlight(f)' = InFlight(f), UNCHANGED <<calling, frame, micro>>,
              \A p \in Op : op'[p].type = op[p].type /\ op'[p].file = op[p].file
                            /\ op'[p].handle = op[p].handle
       PROVE  Frames'
  <2>1. \A f \in File : Pending(f)' = Pending(f) BY <1>12 DEF Pending
  <2> QED BY <1>12, <2>1 DEF Frames, FileLives
<1>13. ASSUME NEW o \in Op, Work(o) PROVE Frames'
  BY <1>12, <1>13, InFlightWork
<1>14. CASE UNCHANGED <<op, calling, frame, micro>>
  BY <1>12, <1>14 DEF InFlight
<1>15. CASE Deliver
  <2>1. /\ calling = None /\ calling' \in Op /\ op[calling'].file \in File
        /\ \A f \in File : InFlight(f)' = InFlight(f) \ {calling'}
        /\ calling' \in InFlight(op[calling'].file) /\ UNCHANGED <<op, frame>>
    BY <1>15, InFlightDeliver
  <2>2. micro = None /\ micro' = IF frame[op[calling'].file] \in Awaiting
                                 THEN op[calling'].file ELSE None
    BY <1>15 DEF Deliver, InProgram
  <2>3. \A f \in File : frame[f] \in Awaiting => Pending(f)' = Pending(f)
    <3> SUFFICES ASSUME NEW f \in File, frame[f] \in Awaiting PROVE Pending(f)' = Pending(f)
      OBVIOUS
    <3>1. Pending(f) = InFlight(f) BY <2>2 DEF Pending
    <3>2. CASE op[calling'].file = f BY <2>1, <2>2, <3>1, <3>2 DEF Pending
    <3>3. CASE op[calling'].file # f
      <4>1. calling' \notin InFlight(f) BY <3>3, <1>b
      <4> QED BY <2>1, <2>2, <3>1, <3>3, <4>1 DEF Pending
    <3> QED BY <3>2, <3>3
  <2>4. FileLives' BY <2>1 DEF FileLives, Frames
  <2> QED BY <2>1, <2>2, <2>3, <2>4 DEF Frames
<1>16. CASE Return
  <2>1. /\ \A f \in File : InFlight(f)' = InFlight(f)
        /\ calling' = None /\ calling \in Op /\ op'[calling] = Unused
        /\ \A p \in Op \ {calling} : op'[p] = op[p]
        /\ micro = None /\ UNCHANGED <<frame, micro>>
    BY <1>16, InFlightReturn
  <2>2. \A f \in File : Pending(f)' = Pending(f) /\ calling \notin Pending(f)
    BY <2>1, <1>b DEF Pending
  <2>3. Unused.type = "unknown" BY DEF Unused
  <2>4. \A f \in File : frame[f] \in Awaiting =>
          \E p \in Op : Pending(f)' = {p} /\ op'[p].type = Awaits(frame[f])
    BY <2>1, <2>2 DEF Frames
  <2>5. FileLives' BY <2>1 DEF FileLives, Frames
  <2> QED BY <2>1, <2>3, <2>4, <2>5 DEF Frames
<1>17. CASE Begin \/ Enter \/ Leave
  BY <1>14, <1>17 DEF Begin, Enter, Leave, Pool!Begin, Pool!Enter, Pool!Leave
<1>18. ASSUME NEW o \in Op, Finish(o) PROVE Frames'
  BY <1>14, <1>18 DEF Finish, Pool!Finish
<1>19. CASE UNCHANGED vars BY <1>14, <1>19 DEF vars, poolVars
<1> QED
  BY <1>4, <1>5, <1>6, <1>7, <1>8, <1>11, <1>13, <1>15, <1>16, <1>17, <1>18, <1>19 DEF Next

-----------------------------------------------------------------------------
(* The types of the operations, the File objects and the table, whatever the
   program does with its files. *)
THEOREM FsTypeCorrect == Spec => []TypeOK
<1>1. Init => CInv BY CInit
<1>2. CInv /\ [Next]_vars => CInv' BY CNext
<1>3. CInv => TypeOK BY DEF CInv
<1> QED BY <1>1, <1>2, <1>3, PTL DEF Spec

(* FileOperation::onDone never writes to a File that File::onCleanup has
   deleted, whatever the program does with its files and whenever the collector
   runs: read, write, fstat and close keep the object of the file alive, and the
   asynchronous function that awaits open keeps the one open works for. *)
THEOREM FsFileLives == Spec => []FileLives
<1>1. Init => CInv /\ Frames BY CInit, FramesInit
<1>2. CInv /\ Frames /\ [Next]_vars => (CInv /\ Frames)' BY CNext, FramesNext
<1>3. Frames => FileLives BY DEF Frames
<1> QED BY <1>1, <1>2, <1>3, PTL DEF Spec

-----------------------------------------------------------------------------
(* Descriptors, for a program that obeys both rules, where no close is
   interrupted. *)

Careful == {"during", "after"} \subseteq Rules /\ "intr" \notin CloseResults

Entries(f) == {d \in Fd : table[d] = f}

(* OwnDescriptor; the close of a file is the last operation in flight; a file
   has one entry at most, which File::fd is the number of as long as it may be
   used, and none before it is opened and after it is closed. *)
Descriptors ==
  /\ OwnDescriptor
  /\ \A f \in File : \A o \in InFlight(f) : op[o].type = "close" =>
       InFlight(f) = {o} /\ frame[f] \in {"spent", "close", "dropped"}
  /\ \A f \in File : frame[f] \in {"held", "stat", "read"} =>
       file[f].fd \in Fd /\ table[file[f].fd] = f
  /\ \A f \in File : frame[f] \in {"none", "done"} => Entries(f) = {}
  /\ \A f \in File : frame[f] \in {"open", "opening"} => \A o \in Pending(f) :
       IF op[o].status = "ok"
       THEN op[o].fd \in Fd /\ table[op[o].fd] = f /\ (micro = f => file[f].fd = op[o].fd)
       ELSE Entries(f) = {}
  /\ \A f \in File : frame[f] = "close" => \A o \in Pending(f) :
       op[o].status # "unknown" => Entries(f) = {}
  /\ \A f \in File : \A d, e \in Entries(f) : d = e

LEMMA DescriptorsInit == Init => Descriptors
  BY FileAssumption, OpAssumption
  DEF Init, Pool!Init, Descriptors, OwnDescriptor, InFlight, Pending, Unused, Entries,
      Awaiting, ReadFile

LEMMA DescriptorsNext ==
  ASSUME Careful, CInv, Frames, Descriptors, [Next]_vars
  PROVE  Descriptors'
<1> USE FileAssumption, OpAssumption
<1>a. /\ op \in OpRecords /\ frame \in [File -> {"none", "held", "spent", "dropped", "done"} \cup Awaiting]
      /\ Awaiting = {"open", "opening", "stat", "read", "close"}
      /\ table \in [Fd -> File \cup {None, Lost}]
      /\ file \in [File -> [fd : Fd \cup {None}, isClosing : BOOLEAN, isClosed : BOOLEAN]]
  BY DEF CInv, TypeOK, OpRecords, Awaiting, ReadFile
<1>b. \A f \in File : /\ InFlight(f) = {o \in Op \ {calling} : op[o].file = f}
                      /\ Pending(f) = InFlight(f) \cup (IF micro = f THEN {calling} ELSE {})
  BY DEF InFlight, Pending
<1>c. \A o \in Op : /\ op[o].type # "unknown" => op[o].file \in File
                    /\ op[o].status = "unknown" => o # calling
                    /\ op[o].type # "unknown" /\ o # calling => o \in InFlight(op[o].file)
  BY <1>a, <1>b DEF OpRecords, CInv, Places, Idle
(* An operation is submitted. *)
<1>1. ASSUME NEW f \in File, NEW o \in Op,
             NEW type \in {"open", "read", "write", "stat", "close"}, NEW h \in BOOLEAN,
             NEW at \in {"open", "opening", "stat", "read", "close", "held", "spent"},
             Submit(o, type, f, h), frame' = [frame EXCEPT ![f] = at], micro' = None,
             micro \in {None, f}, UNCHANGED table, \A g \in File : file'[g].fd = file[g].fd,
             frame[f] \notin {"spent", "close", "dropped"},
             type = "open" => Entries(f) = {} /\ at \in {"open", "opening"} /\ InFlight(f) = {},
             type # "open" => /\ file[f].fd \in Fd /\ table[file[f].fd] = f
                              /\ at \notin {"open", "opening"},
             type = "close" => InFlight(f) = {},
             type = "close" <=> at \in {"close", "spent"},
             at = "close" => InFlight(f) = {}
      PROVE  Descriptors'
  <2>1. /\ (\A g \in File : o \notin InFlight(g)) /\ InFlight(f)' = InFlight(f) \cup {o}
        /\ \A g \in File \ {f} : InFlight(g)' = InFlight(g)
        /\ UNCHANGED calling /\ o # calling
        /\ op'[o] = [type |-> type, file |-> f, fd |-> file[f].fd,
                     status |-> "unknown", handle |-> h]
        /\ \A p \in Op \ {o} : op'[p] = op[p]
    BY <1>1, InFlightSubmit
  <2>2. /\ frame'[f] = at /\ \A g \in File \ {f} : frame'[g] = frame[g]
        /\ \A g \in File : Entries(g)' = Entries(g)
    BY <1>1, <1>a DEF Entries
  <2>3. \A g \in File \ {f} : Pending(g)' = Pending(g) /\ o \notin Pending(g)
    BY <1>1, <2>1, FileAssumption DEF Pending
  <2>4. at \in {"open", "opening", "close"} => Pending(f)' = {o}
    BY <1>1, <2>1 DEF Pending
  <2>5. OwnDescriptor' BY <1>1, <2>1 DEF Descriptors, OwnDescriptor
  <2>6. \A g \in File : \A p \in InFlight(g)' : op'[p].type = "close" =>
          InFlight(g)' = {p} /\ frame'[g] \in {"spent", "close", "dropped"}
    <3>1. SUFFICES ASSUME NEW g \in File, NEW p \in InFlight(g)', op'[p].type = "close"
          PROVE  InFlight(g)' = {p} /\ frame'[g] \in {"spent", "close", "dropped"}
      OBVIOUS
    <3>2. CASE g = f
      <4>1. p \in InFlight(f) \cup {o} BY <2>1, <3>1, <3>2
      <4>2. ASSUME p # o PROVE FALSE
        <5>1. p \in InFlight(f) /\ op[p].type = "close" BY <1>b, <2>1, <3>1, <4>1, <4>2
        <5> QED BY <1>1, <5>1 DEF Descriptors
      <4> QED BY <1>1, <2>1, <2>2, <3>1, <3>2, <4>2
    <3>3. CASE g # f
      <4>1. p \in InFlight(g) /\ p \in Op /\ op'[p] = op[p] BY <1>b, <2>1, <3>1, <3>3
      <4> QED BY <2>1, <2>2, <3>1, <3>3, <4>1 DEF Descriptors
    <3> QED BY <3>2, <3>3
  <2>7. \A g \in File : frame'[g] \in {"held", "stat", "read"} =>
          file'[g].fd \in Fd /\ table'[file'[g].fd] = g
    BY <1>1, <2>2 DEF Descriptors
  <2>8. \A g \in File : frame'[g] \in {"none", "done"} => Entries(g)' = {}
    BY <1>1, <2>2 DEF Descriptors
  <2>9. \A g \in File : frame'[g] \in {"open", "opening"} => \A p \in Pending(g)' :
          IF op'[p].status = "ok"
          THEN op'[p].fd \in Fd /\ table'[op'[p].fd] = g /\ (micro' = g => file'[g].fd = op'[p].fd)
          ELSE Entries(g)' = {}
    <3>1. SUFFICES ASSUME NEW g \in File, frame'[g] \in {"open", "opening"}, NEW p \in Pending(g)'
          PROVE  IF op'[p].status = "ok"
                 THEN /\ op'[p].fd \in Fd /\ table'[op'[p].fd] = g
                      /\ (micro' = g => file'[g].fd = op'[p].fd)
                 ELSE Entries(g)' = {}
      OBVIOUS
    <3>2. CASE g = f BY <1>1, <2>1, <2>2, <2>4, <3>1, <3>2
    <3>3. CASE g # f
      <4>1. p \in Pending(g) /\ frame[g] \in {"open", "opening"} /\ p # o /\ micro # g
        BY <1>1, <2>2, <2>3, <3>1, <3>3
      <4>2. p \in Op BY <1>b, <4>1
      <4> QED BY <1>1, <2>1, <2>2, <4>1, <4>2 DEF Descriptors
    <3> QED BY <3>2, <3>3
  <2>10. \A g \in File : frame'[g] = "close" => \A p \in Pending(g)' :
           op'[p].status # "unknown" => Entries(g)' = {}
    <3>1. SUFFICES ASSUME NEW g \in File, frame'[g] = "close", NEW p \in Pending(g)',
                          op'[p].status # "unknown"
          PROVE  Entries(g)' = {}
      OBVIOUS
    <3>2. CASE g = f BY <1>1, <2>1, <2>2, <2>4, <3>1, <3>2
    <3>3. CASE g # f
      <4>1. p \in Pending(g) /\ frame[g] = "close" /\ p # o /\ micro # g
        BY <1>1, <2>2, <2>3, <3>1, <3>3
      <4>2. p \in Op BY <1>b, <4>1
      <4> QED BY <2>1, <2>2, <3>1, <4>1, <4>2 DEF Descriptors
    <3> QED BY <3>2, <3>3
  <2>11. \A g \in File : \A d, e \in Entries(g)' : d = e BY <2>2 DEF Descriptors
  <2> QED BY <2>5, <2>6, <2>7, <2>8, <2>9, <2>10, <2>11 DEF Descriptors
(* Only the frame of a file that is not awaited, or is continued, changes. *)
<1>2. ASSUME NEW f \in File, NEW at \in {"none", "held", "dropped", "done"},
             UNCHANGED <<op, calling>>, frame' = [frame EXCEPT ![f] = at], micro' \in {micro, None},
             micro' = None \/ micro # f,
             \A g \in File \ {f} : file'[g].fd = file[g].fd,
             \A d \in Fd : table'[d] = IF at = "none" /\ table[d] = f THEN Lost ELSE table[d],
             at # "dropped" => InFlight(f) = {},
             at = "held" => file'[f].fd \in Fd /\ table[file'[f].fd] = f,
             at = "done" => Entries(f) = {},
             micro \in File \ {f} => micro' = micro
      PROVE  Descriptors'
  <2>1. frame'[f] = at /\ \A g \in File \ {f} : frame'[g] = frame[g] BY <1>2, <1>a
  <2>2. \A g \in File : InFlight(g)' = InFlight(g) BY <1>2 DEF InFlight
  <2>3. \A g \in File \ {f} : Pending(g)' = Pending(g) BY <1>2, <2>2 DEF Pending
  <2>4. /\ \A g \in File \ {f} : Entries(g)' = Entries(g)
        /\ Entries(f)' = IF at = "none" THEN {} ELSE Entries(f)
    BY <1>2 DEF Entries
  <2>5. OwnDescriptor'
    <3>1. SUFFICES ASSUME NEW o \in Op, op[o].type \notin {"unknown", "open"}, op[o].status = "unknown"
          PROVE  op[o].fd \in Fd /\ table'[op[o].fd] = op[o].file
      BY <1>2 DEF OwnDescriptor
    <3>2. op[o].fd \in Fd /\ table[op[o].fd] = op[o].file BY <3>1 DEF Descriptors, OwnDescriptor
    <3>3. op[o].file \in File /\ op[o].file = f => o \in InFlight(f)
      <4>1. op[o].type # "unknown" /\ o # calling BY <1>c, <3>1
      <4>2. op[o].file \in File BY <1>c, <4>1
      <4> QED BY <1>b, <4>1, <4>2
    <3> QED BY <1>2, <3>2, <3>3
  <2>6. \A g \in File : \A o \in InFlight(g)' : op'[o].type = "close" =>
          InFlight(g)' = {o} /\ frame'[g] \in {"spent", "close", "dropped"}
    BY <1>2, <2>1, <2>2 DEF Descriptors
  <2>7. \A g \in File : frame'[g] \in {"held", "stat", "read"} =>
          file'[g].fd \in Fd /\ table'[file'[g].fd] = g
    BY <1>2, <2>1 DEF Descriptors
  <2>8. \A g \in File : frame'[g] \in {"none", "done"} => Entries(g)' = {}
    BY <1>2, <2>1, <2>4 DEF Descriptors
  <2>9. \A g \in File : frame'[g] \in {"open", "opening"} => \A p \in Pending(g)' :
          IF op'[p].status = "ok"
          THEN op'[p].fd \in Fd /\ table'[op'[p].fd] = g /\ (micro' = g => file'[g].fd = op'[p].fd)
          ELSE Entries(g)' = {}
    <3>1. SUFFICES ASSUME NEW g \in File, frame'[g] \in {"open", "opening"}, NEW p \in Pending(g)'
          PROVE  IF op[p].status = "ok"
                 THEN /\ op[p].fd \in Fd /\ table'[op[p].fd] = g
                      /\ (micro' = g => file'[g].fd = op[p].fd)
                 ELSE Entries(g)' = {}
      BY <1>2
    <3>2. g # f BY <2>1, <3>1
    <3>3. p \in Pending(g) /\ frame[g] \in {"open", "opening"} BY <2>1, <2>3, <3>1, <3>2
    <3>4. Entries(g)' = Entries(g) /\ file'[g].fd = file[g].fd /\ (micro' = g => micro = g)
      BY <1>2, <2>4, <3>2
    <3>5. op[p].status = "ok" => op[p].fd \in Fd /\ table[op[p].fd] = g
      BY <3>3 DEF Descriptors
    <3>6. op[p].status = "ok" => table'[op[p].fd] = g BY <1>2, <3>2, <3>5
    <3> QED BY <3>3, <3>4, <3>5, <3>6 DEF Descriptors
  <2>10. \A g \in File : frame'[g] = "close" => \A p \in Pending(g)' :
           op'[p].status # "unknown" => Entries(g)' = {}
    BY <1>2, <2>1, <2>3, <2>4 DEF Descriptors
  <2>11. \A g \in File : \A d, e \in Entries(g)' : d = e BY <2>4 DEF Descriptors
  <2> QED BY <2>5, <2>6, <2>7, <2>8, <2>9, <2>10, <2>11 DEF Descriptors
(* Where a file is continued, its operation is settled and no other is left. *)
<1>3. ASSUME NEW f \in File, micro = f
      PROVE  /\ InFlight(f) = {} /\ calling \in Pending(f) /\ calling \in Op
             /\ op[calling].status # "unknown"
  BY <1>3, <1>b DEF Frames, CInv, Places
<1>4. ASSUME NEW f \in File, NEW o \in Op, Open(f, o) PROVE Descriptors'
  <2>1. PICK by \in {"open", "opening"} : frame' = [frame EXCEPT ![f] = by]
    BY <1>4 DEF Open
  <2>2. /\ Submit(o, "open", f, FALSE) /\ micro = None /\ micro' = None
        /\ frame[f] = "none" /\ InFlight(f) = {} /\ UNCHANGED <<file, table>>
    BY <1>4 DEF Open, MayStart, InProgram, Frames, FileLives
  <2>3. Entries(f) = {} BY <2>2 DEF Descriptors
  <2> QED BY <1>1, <2>1, <2>2, <2>3
<1>5. ASSUME NEW f \in File, NEW o \in Op, Use(f, o) PROVE Descriptors'
  <2>1. PICK type \in {"read", "write", "stat"} : Submit(o, type, f, TRUE)
    BY <1>5 DEF Use
  <2>2. /\ micro = None /\ micro' = None /\ frame[f] = "held"
        /\ frame' = [frame EXCEPT ![f] = "held"] /\ UNCHANGED <<file, table>>
    BY <1>5, <1>a DEF Use, MayStart, InProgram, Allowed, Careful
  <2>3. file[f].fd \in Fd /\ table[file[f].fd] = f BY <2>2 DEF Descriptors
  <2> QED BY <1>1, <2>1, <2>2, <2>3
<1>6. ASSUME NEW f \in File, NEW o \in Op, NEW left \in {"spent", "close"}, CloseWith(f, o, left),
             InFlight(f) = {}, frame[f] \in {"held", "stat", "read"}, micro \in {None, f},
             micro' = None, UNCHANGED table
      PROVE  Descriptors'
  <2>1. /\ Submit(o, "close", f, TRUE) /\ frame' = [frame EXCEPT ![f] = left]
        /\ \A g \in File : file'[g].fd = file[g].fd
    BY <1>6, <1>a DEF CloseWith
  <2>2. file[f].fd \in Fd /\ table[file[f].fd] = f BY <1>6 DEF Descriptors
  <2> QED BY <1>1, <1>6, <2>1, <2>2
<1>7. ASSUME NEW f \in File, NEW o \in Op, Close(f, o) PROVE Descriptors'
  BY <1>6, <1>7 DEF Close, MayStart, InProgram, Allowed, Careful
<1>8. ASSUME NEW f \in File, Drop(f) PROVE Descriptors'
  BY <1>2, <1>8 DEF Drop, InProgram, poolVars
<1>9. ASSUME NEW f \in File, Collect(f) PROVE Descriptors'
  <2>1. InFlight(f) = {}
    <3> SUFFICES ASSUME NEW o \in InFlight(f) PROVE FALSE
      OBVIOUS
    <3>1. o \in Op /\ o # calling /\ op[o].file = f /\ ~op[o].handle BY <1>9, <1>b DEF Collect
    <3>2. op[o].type = "open" BY <3>1 DEF Frames, CInv, Places, Idle
    <3> QED BY <1>9, <3>1, <3>2 DEF Frames, Collect
  <2>2. micro # f BY <1>9, <1>a DEF Collect, Frames
  <2>3. \A g \in File \ {f} : file'[g].fd = file[g].fd BY <1>9, <1>a DEF Collect
  <2> QED BY <1>2, <1>9, <2>1, <2>2, <2>3 DEF Collect, poolVars
<1>10. ASSUME NEW f \in File, Resume(f) PROVE Descriptors'
  <2>1. /\ micro = f /\ micro' = None /\ UNCHANGED table
        /\ InFlight(f) = {} /\ calling \in Pending(f) /\ calling \in Op
        /\ op[calling].status # "unknown"
    BY <1>3, <1>10 DEF Resume, Opened, RfOpened, RfStat, RfRead, RfClose, Continue
  <2>2. frame[f] \in {"open", "opening"} =>
          IF Ok THEN file[f].fd \in Fd /\ table[file[f].fd] = f ELSE Entries(f) = {}
    BY <2>1 DEF Descriptors, Ok
  <2>3. CASE Opened(f)
    <3>1. /\ UNCHANGED <<op, calling, file>>
          /\ frame' = [frame EXCEPT ![f] = IF Ok THEN "held" ELSE "dropped"]
          /\ frame[f] = "open"
      BY <2>3 DEF Opened, Continue, Becomes, poolVars
    <3>2. CASE Ok BY <1>2, <2>1, <2>2, <3>1, <3>2
    <3>3. CASE ~Ok BY <1>2, <2>1, <2>2, <3>1, <3>3
    <3> QED BY <3>2, <3>3
  <2>4. CASE RfOpened(f)
    <3>1. frame[f] = "opening" BY <2>4 DEF RfOpened, Continue
    <3>2. CASE Ok
      <4>1. PICK o \in Op : Submit(o, "stat", f, TRUE)
        BY <2>4, <3>2 DEF RfOpened
      <4>2. frame' = [frame EXCEPT ![f] = "stat"] /\ UNCHANGED file
        BY <2>4, <3>2 DEF RfOpened
      <4> QED BY <1>1, <2>1, <2>2, <3>1, <3>2, <4>1, <4>2
    <3>3. CASE ~Ok
      <4>1. UNCHANGED <<op, calling, file>> /\ frame' = [frame EXCEPT ![f] = "done"]
        BY <2>4, <3>3 DEF RfOpened, Becomes, poolVars
      <4> QED BY <1>2, <2>1, <2>2, <3>1, <3>3, <4>1
    <3> QED BY <3>2, <3>3
  <2>5. CASE RfStat(f)
    <3>1. frame[f] = "stat" /\ file[f].fd \in Fd /\ table[file[f].fd] = f
      BY <2>5 DEF RfStat, Continue, Descriptors
    <3>2. PICK o \in Op :
            \/ Submit(o, "read", f, TRUE) /\ frame' = [frame EXCEPT ![f] = "read"] /\ UNCHANGED file
            \/ CloseWith(f, o, "close")
      BY <2>5 DEF RfStat
    <3>3. CASE CloseWith(f, o, "close") BY <1>6, <2>1, <3>1, <3>3
    <3>4. CASE /\ Submit(o, "read", f, TRUE) /\ frame' = [frame EXCEPT ![f] = "read"]
               /\ UNCHANGED file
      BY <1>1, <2>1, <3>1, <3>4
    <3> QED BY <3>2, <3>3, <3>4
  <2>6. CASE RfRead(f) BY <1>6, <2>1, <2>6 DEF RfRead, Continue
  <2>7. CASE RfClose(f)
    <3>1. /\ UNCHANGED <<op, calling, file>> /\ frame' = [frame EXCEPT ![f] = "done"]
          /\ frame[f] = "close"
      BY <2>7 DEF RfClose, Continue, Becomes, poolVars
    <3>2. Entries(f) = {} BY <2>1, <3>1 DEF Descriptors
    <3> QED BY <1>2, <2>1, <3>1, <3>2
  <2> QED BY <1>10, <2>3, <2>4, <2>5, <2>6, <2>7 DEF Resume
(* The system call of an operation. *)
<1>11. ASSUME NEW o \in Op, Work(o) PROVE Descriptors'
  <2>1. /\ \A g \in File : InFlight(g)' = InFlight(g)
        /\ \A p \in Op : op'[p].type = op[p].type /\ op'[p].file = op[p].file
        /\ \A p \in Op \ {o} : op'[p] = op[p]
        /\ UNCHANGED <<calling, frame, micro, file>>
    BY <1>11, InFlightWork
  <2>2. \A g \in File : Pending(g)' = Pending(g) BY <2>1 DEF Pending
  <2>a. op[o].type # "unknown" /\ op[o].status = "unknown" /\ o # calling
    <3>1. op[o].type # "unknown" /\ op[o].status = "unknown"
      BY <1>11 DEF Work, WorkOpen, WorkUse, WorkClose
    <3> QED BY <1>c, <3>1
  <2>b. PICK f \in File : op[o].file = f BY <1>c, <2>a
  <2>3. o \in InFlight(f) /\ \A g \in File \ {f} : o \notin Pending(g)
    BY <1>b, <2>a, <2>b
  (* Where the table and the fields of o change only for f. *)
  <2>4. ASSUME \A g \in File \ {f} : Entries(g)' = Entries(g),
               \A d \in Fd : table[d] \in File \ {f} => table'[d] = table[d],
               \A p \in Op \ {o} : op[p].type \notin {"unknown", "open"} /\ op[p].status = "unknown"
                 /\ op[p].fd \in Fd /\ table[op[p].fd] = f => table'[op[p].fd] = f,
               op[o].type = "open" \/ op'[o].status # "unknown",
               frame[f] \in {"held", "stat", "read"} => table'[file[f].fd] = f,
               frame[f] \in {"none", "done"} => Entries(f)' = {},
               frame[f] \in {"open", "opening"} =>
                 /\ Pending(f) = {o} /\ micro # f
                 /\ IF op'[o].status = "ok" THEN op'[o].fd \in Fd /\ table'[op'[o].fd] = f
                                            ELSE Entries(f)' = {},
               frame[f] = "close" => Pending(f) = {o} /\ (op'[o].status # "unknown" => Entries(f)' = {}),
               \A d, e \in Entries(f)' : d = e
        PROVE  Descriptors'
    <3>1. OwnDescriptor'
      <4>1. SUFFICES ASSUME NEW p \in Op, op'[p].type \notin {"unknown", "open"}, op'[p].status = "unknown"
            PROVE  op'[p].fd \in Fd /\ table'[op'[p].fd] = op'[p].file
        BY DEF OwnDescriptor
      <4>2. p # o /\ op'[p] = op[p] BY <2>1, <2>4, <4>1
      <4>3. op[p].fd \in Fd /\ table[op[p].fd] = op[p].file /\ op[p].file \in File
        BY <1>c, <4>1, <4>2 DEF Descriptors, OwnDescriptor
      <4> QED BY <2>4, <4>1, <4>2, <4>3
    <3>2. \A g \in File : \A p \in InFlight(g)' : op'[p].type = "close" =>
            InFlight(g)' = {p} /\ frame'[g] \in {"spent", "close", "dropped"}
      BY <1>b, <2>1 DEF Descriptors
    <3>3. \A g \in File : frame'[g] \in {"held", "stat", "read"} =>
            file'[g].fd \in Fd /\ table'[file'[g].fd] = g
      BY <2>1, <2>4 DEF Descriptors
    <3>4. \A g \in File : frame'[g] \in {"none", "done"} => Entries(g)' = {}
      BY <2>1, <2>4 DEF Descriptors
    <3>5. \A g \in File : frame'[g] \in {"open", "opening"} => \A p \in Pending(g)' :
            IF op'[p].status = "ok"
            THEN op'[p].fd \in Fd /\ table'[op'[p].fd] = g /\ (micro' = g => file'[g].fd = op'[p].fd)
            ELSE Entries(g)' = {}
      <4>1. SUFFICES ASSUME NEW g \in File, frame[g] \in {"open", "opening"}, NEW p \in Pending(g)
            PROVE  IF op'[p].status = "ok"
                   THEN /\ op'[p].fd \in Fd /\ table'[op'[p].fd] = g
                        /\ (micro = g => file[g].fd = op'[p].fd)
                   ELSE Entries(g)' = {}
        BY <2>1, <2>2
      <4>2. CASE g = f BY <2>4, <4>1, <4>2
      <4>3. CASE g # f
        <5>1. p \in Op /\ p # o BY <1>b, <2>3, <4>1, <4>3 DEF Frames
        <5> QED BY <2>1, <2>4, <4>1, <4>3, <5>1 DEF Descriptors
      <4> QED BY <4>2, <4>3
    <3>6. \A g \in File : frame'[g] = "close" => \A p \in Pending(g)' :
            op'[p].status # "unknown" => Entries(g)' = {}
      <4>1. SUFFICES ASSUME NEW g \in File, frame[g] = "close", NEW p \in Pending(g),
                            op'[p].status # "unknown"
            PROVE  Entries(g)' = {}
        BY <2>1, <2>2
      <4>2. CASE g = f BY <2>4, <4>1, <4>2
      <4>3. CASE g # f
        <5>1. p \in Op /\ p # o BY <1>b, <2>3, <4>1, <4>3 DEF Frames
        <5> QED BY <2>1, <2>4, <4>1, <4>3, <5>1 DEF Descriptors
      <4> QED BY <4>2, <4>3
    <3>7. \A g \in File : \A d, e \in Entries(g)' : d = e
      BY <2>4 DEF Descriptors
    <3> QED BY <3>1, <3>2, <3>3, <3>4, <3>5, <3>6, <3>7 DEF Descriptors
  <2>5. frame[f] \in Awaiting => Pending(f) = {o} /\ micro # f /\ op[o].type = Awaits(frame[f])
    BY <1>b, <2>3 DEF Frames
  <2>6. CASE WorkOpen(o)
    <3>1. frame[f] \in {"open", "opening"} /\ Pending(f) = {o} /\ micro # f
      BY <1>a, <2>a, <2>b, <2>5, <2>6 DEF WorkOpen, Frames
    <3>2. Entries(f) = {} BY <2>a, <3>1 DEF Descriptors
    <3>3. CASE \E d \in Fd : /\ table[d] = None /\ table' = [table EXCEPT ![d] = op[o].file]
                             /\ op' = [op EXCEPT ![o].status = "ok", ![o].fd = d]
      <4>1. PICK d \in Fd : /\ table[d] = None /\ table' = [table EXCEPT ![d] = op[o].file]
                            /\ op' = [op EXCEPT ![o].status = "ok", ![o].fd = d]
        BY <3>3
      <4>2. table'[d] = f /\ \A e \in Fd \ {d} : table'[e] = table[e] BY <1>a, <2>b, <4>1
      <4>3. op'[o].status = "ok" /\ op'[o].fd = d BY <1>a, <4>1 DEF OpRecords
      <4>4. \A g \in File \ {f} : Entries(g)' = Entries(g) BY <4>1, <4>2 DEF Entries
      <4>5. Entries(f)' = {d} BY <3>2, <4>2 DEF Entries
      <4>6. \A e \in Fd : (table[e] = f \/ table[e] \in File \ {f}) => table'[e] = table[e]
        BY <4>1, <4>2
      <4> QED BY <2>4, <2>6, <3>1, <4>2, <4>3, <4>4, <4>5, <4>6 DEF WorkOpen
    <3>4. CASE op' = [op EXCEPT ![o].status = "error"] /\ table' = table
      <4>1. op'[o].status = "error" BY <1>a, <3>4 DEF OpRecords
      <4>2. \A g \in File : Entries(g)' = Entries(g) BY <3>4 DEF Entries
      <4> QED BY <2>4, <3>1, <3>2, <3>4, <4>1, <4>2
    <3> QED BY <2>6, <3>3, <3>4 DEF WorkOpen, Ends
  <2>7. CASE WorkUse(o) /\ table' = table
    <3>1. op[o].type \in {"read", "write", "stat"} BY <2>7 DEF WorkUse
    <3>2. op'[o].status # "unknown" BY <1>a, <2>7 DEF WorkUse, Ends, OpRecords
    <3>3. \A g \in File : Entries(g)' = Entries(g) BY <2>7 DEF Entries
    <3>4. frame[f] \notin {"open", "opening", "close"} BY <1>a, <2>5, <3>1 DEF Awaits
    <3>5. frame[f] \in {"held", "stat", "read"} => table'[file[f].fd] = f
      BY <2>7 DEF Descriptors
    <3>6. \A d, e \in Entries(f)' : d = e BY <3>3 DEF Descriptors
    <3>7. frame[f] \in {"none", "done"} => Entries(f)' = {} BY <3>3 DEF Descriptors
    <3> QED BY <2>4, <2>7, <3>2, <3>3, <3>4, <3>5, <3>6, <3>7
  <2>8. CASE WorkClose(o)
    <3>1. op[o].type = "close" BY <2>8 DEF WorkClose
    <3>2. InFlight(f) = {o} /\ frame[f] \in {"spent", "close", "dropped"}
      BY <2>3, <3>1 DEF Descriptors
    <3>3. op[o].fd \in Fd /\ table[op[o].fd] = f
      BY <2>a, <2>b, <3>1 DEF Descriptors, OwnDescriptor
    <3>4. table' = [table EXCEPT ![op[o].fd] = None] BY <2>8 DEF WorkClose
    <3>5. /\ table'[op[o].fd] = None
          /\ \A d \in Fd \ {op[o].fd} : table'[d] = table[d]
      BY <1>a, <3>3, <3>4
    <3>6. op'[o].status # "unknown"
      <4>1. PICK r \in {"ok", "error"} : Ends(o, r)
        BY <2>8, CloseAssumption, FileAssumption, <3>3 DEF WorkClose, Careful
      <4> QED BY <1>a, <4>1 DEF Ends, OpRecords
    <3>7. Entries(f) = {op[o].fd} BY <3>3 DEF Descriptors, Entries
    <3>8. Entries(f)' = {}
      <4> SUFFICES ASSUME NEW d \in Fd, table'[d] = f PROVE FALSE
        BY DEF Entries
      <4> QED BY <3>5, <3>7 DEF Entries
    <3>9. \A g \in File \ {f} : Entries(g)' = Entries(g) BY <3>3, <3>5 DEF Entries
    <3>10. \A p \in Op \ {o} : op[p].type \notin {"unknown", "open"} /\ op[p].status = "unknown"
             => op[p].fd \in Fd /\ table[op[p].fd] # f
      <4> SUFFICES ASSUME NEW p \in Op \ {o}, op[p].type \notin {"unknown", "open"},
                          op[p].status = "unknown"
          PROVE  op[p].fd \in Fd /\ table[op[p].fd] # f
        OBVIOUS
      <4>1. op[p].fd \in Fd /\ table[op[p].fd] = op[p].file BY DEF Descriptors, OwnDescriptor
      <4>2. op[p].file = f => p \in InFlight(f) BY <1>b, <1>c
      <4> QED BY <3>2, <4>1, <4>2
    <3>11. \A d \in Fd : table[d] \in File \ {f} => table'[d] = table[d] BY <3>3, <3>5
    <3>12. frame[f] = "close" => Pending(f) = {o} BY <1>a, <2>5
    <3> QED BY <2>4, <3>2, <3>6, <3>8, <3>9, <3>10, <3>11, <3>12
  <2> QED BY <1>11, <2>6, <2>7, <2>8 DEF Work, WorkUse
<1>12. CASE Deliver
  <2>1. /\ calling = None /\ calling' \in Op /\ op[calling'].file \in File
        /\ \A g \in File : InFlight(g)' = InFlight(g) \ {calling'}
        /\ op[calling'].type # "unknown" /\ op[calling'].status # "unknown"
        /\ calling' \in InFlight(op[calling'].file)
        /\ UNCHANGED <<op, frame, table>>
    BY <1>12, InFlightDeliver
  <2>2. PICK f \in File : f = op[calling'].file BY <2>1
  <2>3. /\ micro = None /\ micro' = IF frame[f] \in Awaiting THEN f ELSE None
        /\ file' = [file EXCEPT ![f] = Settled(@, op[calling'].type, op[calling'].status, op[calling'].fd)]
    BY <1>12, <2>2 DEF Deliver, InProgram
  <2>4. /\ \A g \in File \ {f} : file'[g] = file[g]
        /\ file'[f].fd = IF op[calling'].type = "open" /\ op[calling'].status = "ok"
                         THEN op[calling'].fd ELSE file[f].fd
    BY <1>a, <2>3 DEF Settled
  <2>5. \A g \in File : Entries(g)' = Entries(g) /\ Pending(g) = InFlight(g)
    BY <2>1, <2>3 DEF Entries, Pending
  <2>6. \A g \in File : frame[g] \in Awaiting => Pending(g)' = Pending(g)
    <3> SUFFICES ASSUME NEW g \in File, frame[g] \in Awaiting PROVE Pending(g)' = Pending(g)
      OBVIOUS
    <3>1. CASE f = g BY <2>1, <2>2, <2>3, <2>5, <3>1 DEF Pending
    <3>2. CASE f # g
      <4>1. calling' \notin InFlight(g) BY <1>b, <2>2, <3>2
      <4> QED BY <2>1, <2>3, <2>5, <3>2, <4>1 DEF Pending
    <3> QED BY <3>1, <3>2
  <2>7. op[calling'].type = "open" => frame[f] \in {"open", "opening"}
    BY <2>1, <2>2 DEF Frames
  <2>8. OwnDescriptor' BY <2>1 DEF Descriptors, OwnDescriptor
  <2>9. \A g \in File : \A o \in InFlight(g)' : op'[o].type = "close" =>
          InFlight(g)' = {o} /\ frame'[g] \in {"spent", "close", "dropped"}
    BY <2>1 DEF Descriptors
  <2>10. \A g \in File : frame'[g] \in {"held", "stat", "read"} =>
          file'[g].fd \in Fd /\ table'[file'[g].fd] = g
    <3> SUFFICES ASSUME NEW g \in File, frame[g] \in {"held", "stat", "read"}
        PROVE  file'[g].fd \in Fd /\ table[file'[g].fd] = g
      BY <2>1
    <3>1. file'[g].fd = file[g].fd BY <2>4, <2>7
    <3> QED BY <3>1 DEF Descriptors
  <2>11. \A g \in File : frame'[g] \in {"none", "done"} => Entries(g)' = {}
    BY <2>1, <2>5 DEF Descriptors
  <2>12. \A g \in File : frame'[g] \in {"open", "opening"} => \A p \in Pending(g)' :
          IF op'[p].status = "ok"
          THEN op'[p].fd \in Fd /\ table'[op'[p].fd] = g /\ (micro' = g => file'[g].fd = op'[p].fd)
          ELSE Entries(g)' = {}
    <3> SUFFICES ASSUME NEW g \in File, frame[g] \in {"open", "opening"}, NEW p \in Pending(g)'
        PROVE  IF op[p].status = "ok"
               THEN op[p].fd \in Fd /\ table[op[p].fd] = g /\ (micro' = g => file'[g].fd = op[p].fd)
               ELSE Entries(g)' = {}
      BY <2>1
    <3>1. p \in Pending(g) BY <1>a, <2>6
    <3>2. micro' = g /\ op[p].status = "ok" => file'[g].fd = op[p].fd
      <4> SUFFICES ASSUME micro' = g, op[p].status = "ok" PROVE file'[g].fd = op[p].fd
        OBVIOUS
      <4>1. g = f BY <2>3, FileAssumption
      <4>2. Pending(g) = {calling'} /\ op[calling'].type = "open"
        BY <1>a, <2>1, <2>2, <2>5, <4>1 DEF Frames, Awaits
      <4> QED BY <2>4, <3>1, <4>1, <4>2
    <3> QED BY <2>5, <3>1, <3>2 DEF Descriptors
  <2>13. \A g \in File : frame'[g] = "close" => \A p \in Pending(g)' :
           op'[p].status # "unknown" => Entries(g)' = {}
    BY <1>a, <2>1, <2>5, <2>6 DEF Descriptors
  <2>14. \A g \in File : \A d, e \in Entries(g)' : d = e BY <2>5 DEF Descriptors
  <2> QED BY <2>8, <2>9, <2>10, <2>11, <2>12, <2>13, <2>14 DEF Descriptors
<1>13. CASE Return
  <2>1. /\ \A g \in File : InFlight(g)' = InFlight(g)
        /\ calling' = None /\ calling \in Op /\ op'[calling] = Unused
        /\ \A p \in Op \ {calling} : op'[p] = op[p]
        /\ micro = None /\ UNCHANGED <<file, frame, micro, table>>
    BY <1>13, InFlightReturn
  <2>2. /\ \A g \in File : Pending(g)' = Pending(g) /\ calling \notin Pending(g)
        /\ \A g \in File : Entries(g)' = Entries(g) /\ Pending(g) \subseteq Op
    BY <1>b, <2>1 DEF Pending, Entries
  <2>3. Unused.type = "unknown" BY DEF Unused
  <2>4. OwnDescriptor' BY <2>1, <2>3 DEF Descriptors, OwnDescriptor
  <2>5. \A g \in File : \A o \in InFlight(g)' : op'[o].type = "close" =>
          InFlight(g)' = {o} /\ frame'[g] \in {"spent", "close", "dropped"}
    BY <1>b, <2>1 DEF Descriptors
  <2>6. \A g \in File : frame'[g] \in {"open", "opening"} => \A p \in Pending(g)' :
          IF op'[p].status = "ok"
          THEN op'[p].fd \in Fd /\ table'[op'[p].fd] = g /\ (micro' = g => file'[g].fd = op'[p].fd)
          ELSE Entries(g)' = {}
    <3> SUFFICES ASSUME NEW g \in File, frame[g] \in {"open", "opening"}, NEW p \in Pending(g)
        PROVE  IF op[p].status = "ok"
               THEN op[p].fd \in Fd /\ table[op[p].fd] = g /\ (micro = g => file[g].fd = op[p].fd)
               ELSE Entries(g) = {}
      BY <2>1, <2>2
    <3> QED BY DEF Descriptors
  <2>7. \A g \in File : frame'[g] = "close" => \A p \in Pending(g)' :
          op'[p].status # "unknown" => Entries(g)' = {}
    BY <2>1, <2>2 DEF Descriptors
  <2> QED BY <2>1, <2>2, <2>4, <2>5, <2>6, <2>7 DEF Descriptors
<1>14. CASE UNCHANGED <<op, calling, file, frame, micro, table>>
  BY <1>14 DEF Descriptors, OwnDescriptor, Entries, InFlight, Pending
<1>15. CASE Begin \/ Enter \/ Leave
  BY <1>14, <1>15 DEF Begin, Enter, Leave, Pool!Begin, Pool!Enter, Pool!Leave
<1>16. ASSUME NEW o \in Op, Finish(o) PROVE Descriptors'
  BY <1>14, <1>16 DEF Finish, Pool!Finish
<1>17. CASE UNCHANGED vars BY <1>14, <1>17 DEF vars, poolVars
<1> QED
  BY <1>4, <1>5, <1>7, <1>8, <1>9, <1>10, <1>11, <1>12, <1>13, <1>15, <1>16, <1>17 DEF Next

(* For a program that awaits the operations of a file before it closes it, and
   uses no file it has closed: however many workers make the system calls of the
   pd_fs_ functions in whatever order, each is made on a descriptor that is open
   and that its own file opened. Assumes that close() is never interrupted. *)
THEOREM FsOwnDescriptor == Careful => (Spec => []OwnDescriptor)
<1> SUFFICES ASSUME Careful PROVE Spec => []OwnDescriptor
  OBVIOUS
<1>1. Init => CInv /\ Frames /\ Descriptors BY CInit, FramesInit, DescriptorsInit
<1>2. CInv /\ Frames /\ Descriptors /\ [Next]_vars => (CInv /\ Frames /\ Descriptors)'
  BY CNext, FramesNext, DescriptorsNext
<1>3. Descriptors => OwnDescriptor BY DEF Descriptors
<1> QED BY <1>1, <1>2, <1>3, PTL DEF Spec

(* Under the same assumptions, when the promise of readFile is settled its file
   is closed, whichever of fstat, new Buffer, read and close failed. *)
THEOREM FsReadFileCloses == Careful => (Spec => []ReadFileCloses)
<1> SUFFICES ASSUME Careful PROVE Spec => []ReadFileCloses
  OBVIOUS
<1>1. Init => CInv /\ Frames /\ Descriptors BY CInit, FramesInit, DescriptorsInit
<1>2. CInv /\ Frames /\ Descriptors /\ [Next]_vars => (CInv /\ Frames /\ Descriptors)'
  BY CNext, FramesNext, DescriptorsNext
<1>3. Descriptors => ReadFileCloses BY DEF Descriptors, ReadFileCloses, Entries
<1> QED BY <1>1, <1>2, <1>3, PTL DEF Spec
=============================================================================
