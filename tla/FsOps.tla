------------------------------- MODULE FsOps --------------------------------
(***************************************************************************)
(* File operations: the tasks of deps/pandio/src/sys/fs_unix.c, the        *)
(* objects core/fs.cc wraps around them, and the asynchronous functions of *)
(* js/fs.js that await their promises.                                     *)
(*                                                                         *)
(* The thread pool is TaskService, which ThreadPool implements: operations *)
(* are begun in order, but their system calls run on several workers and   *)
(* meet in the table of descriptors in any order.                          *)
(***************************************************************************)
EXTENDS Integers, Sequences, FiniteSets

CONSTANTS
  File,          \* the File objects, with the FileHandle the program gets
  Op,            \* the FileOperation objects that may be alive at once
  Fd,            \* the free descriptor numbers
  None,
  Lost,          \* owner of a descriptor whose File was collected
  CloseResults,  \* what a close of an open descriptor may return
  Rules          \* the rules the program obeys, see Allowed

ASSUME FileAssumption == None \notin File /\ Lost \notin File /\ Lost # None
ASSUME OpAssumption == IsFiniteSet(Op) /\ None \notin Op
ASSUME FdAssumption == Fd \subseteq Nat
ASSUME CloseAssumption == CloseResults \subseteq {"ok", "error", "intr"}
ASSUME RulesAssumption == Rules \subseteq {"during", "after"}

VARIABLES
  queue, working, finished, calling, looping,   \* the pool, see TaskService
  op,       \* per operation: the fields of pd_fs_t and FileOperation
  file,     \* per File object: its fields
  frame,    \* per File object: the asynchronous function or variable that has it
  micro,    \* the File whose asynchronous function continues next, or None
  table     \* per descriptor: the File that opened it, None, or Lost

poolVars == <<queue, working, finished, calling, looping>>
vars == <<poolVars, op, file, frame, micro, table>>

Pool == INSTANCE TaskService WITH Task <- Op

-----------------------------------------------------------------------------
Unused == [type |-> "unknown", file |-> None, fd |-> None, status |-> "unknown", handle |-> FALSE]

Closed == [fd |-> None, isClosing |-> FALSE, isClosed |-> TRUE]

Init ==
  /\ Pool!Init
  /\ op = [o \in Op |-> Unused]
  /\ file = [f \in File |-> Closed] /\ frame = [f \in File |-> "none"] /\ micro = None
  /\ table = [d \in Fd |-> None]

Idle == {o \in Op : op[o].type = "unknown"}
InFlight(f) == {o \in Op \ {calling} : op[o].file = f}

(* An asynchronous function awaits: fs.open for the program, or readFile. *)
ReadFile == {"opening", "stat", "read", "close"}
Awaiting == {"open"} \cup ReadFile

(* Rules of a careful program: "during", it awaits the operations of a file
   before it closes it; "after", it uses no file it has closed. *)
Allowed(rule, broken) == rule \in Rules => ~broken

(* The program runs: the script or a callback, with no continuation left.
   It leaves one operation to the continuations, so that Op bounds the
   program and nothing else. *)
InProgram == micro = None
MayStart == InProgram /\ Cardinality(Idle) > 1

-----------------------------------------------------------------------------
(* Calls of the program. *)

(* pd_fs_open, pd_fs_read and the others: the operation is filled and goes to
   the pool. handle: it keeps the JavaScript object of its file alive. *)
Submit(o, type, f, handle) ==
  /\ o \in Idle
  /\ op' = [op EXCEPT ![o] = [type |-> type, file |-> f, fd |-> file[f].fd,
                              status |-> "unknown", handle |-> handle]]
  /\ Pool!Submit(o)

(* fs.open and readFile, which starts with it: new File, File::open. *)
Open(f, o) ==
  /\ MayStart /\ frame[f] = "none"
  /\ Submit(o, "open", f, FALSE)
  /\ \E by \in {"open", "opening"} : frame' = [frame EXCEPT ![f] = by]
  /\ UNCHANGED <<file, micro, table>>

MutantUse(f, o) ==
  /\ MayStart /\ frame[f] \in {"held", "spent"} /\ Allowed("after", frame[f] = "spent")
  /\ \E type \in {"read", "write", "stat"} : Submit(o, type, f, FALSE)
  /\ UNCHANGED <<file, frame, micro, table>>

(* FileHandle read, write and fstat *)
Use(f, o) ==
  /\ MayStart /\ frame[f] \in {"held", "spent"} /\ Allowed("after", frame[f] = "spent")
  /\ \E type \in {"read", "write", "stat"} : Submit(o, type, f, TRUE)
  /\ UNCHANGED <<file, frame, micro, table>>

(* File::close; the frame is what the caller has left of the file. *)
CloseWith(f, o, left) ==
  /\ file' = [file EXCEPT ![f].isClosing = TRUE]
  /\ Submit(o, "close", f, TRUE)
  /\ frame' = [frame EXCEPT ![f] = left]

(* FileHandle.close *)
Close(f, o) ==
  /\ MayStart /\ frame[f] \in {"held", "spent"}
  /\ Allowed("during", InFlight(f) # {}) /\ Allowed("after", frame[f] = "spent")
  /\ CloseWith(f, o, "spent")
  /\ UNCHANGED <<micro, table>>

(* The program forgets a file. *)
Drop(f) ==
  /\ InProgram /\ frame[f] \in {"held", "spent"}
  /\ frame' = [frame EXCEPT ![f] = "dropped"]
  /\ UNCHANGED <<poolVars, op, file, micro, table>>

(* The collector finds that only operations could have had the object, and that
   none has: File::onCleanup deletes the File and forgets its descriptor. *)
Collect(f) ==
  /\ frame[f] \in {"dropped", "done"} /\ \A o \in Op : op[o].file = f => ~op[o].handle
  /\ frame' = [frame EXCEPT ![f] = "none"]
  /\ file' = [file EXCEPT ![f] = Closed]
  /\ table' = [d \in Fd |-> IF table[d] = f THEN Lost ELSE table[d]]
  /\ UNCHANGED <<poolVars, op, micro>>

-----------------------------------------------------------------------------
(* Workers. *)

Begin == Pool!Begin /\ UNCHANGED <<op, file, frame, micro, table>>

Ends(o, status) == op' = [op EXCEPT ![o].status = status]

(* pd__fs_open_work: open gives the lowest free number, or fails. *)
WorkOpen(o) ==
  /\ op[o].type = "open"
  /\ \/ \E d \in Fd : /\ table[d] = None /\ \A e \in Fd : table[e] = None => d <= e
                      /\ table' = [table EXCEPT ![d] = op[o].file]
                      /\ op' = [op EXCEPT ![o].status = "ok", ![o].fd = d]
     \/ Ends(o, "error") /\ UNCHANGED table

(* pd__fs_read_work, pd__fs_write_work, pd__fs_stat_work *)
WorkUse(o) ==
  /\ op[o].type \in {"read", "write", "stat"}
  /\ \E status \in {"ok", "error"} :
       /\ status = "ok" => table[op[o].fd] # None
       /\ Ends(o, status)
  /\ UNCHANGED table

MutantWorkClose(o) ==
  /\ op[o].type = "close"
  /\ table' = [table EXCEPT ![op[o].fd] = None]
  /\ \E r \in IF table[op[o].fd] = None THEN {"error"} ELSE CloseResults :
       IF r # "ok" THEN UNCHANGED op ELSE Ends(o, r)

(* pd__fs_close_work: whatever close returns, the number is free afterwards;
   an interrupted one is called again. *)
WorkClose(o) ==
  /\ op[o].type = "close"
  /\ table' = [table EXCEPT ![op[o].fd] = None]
  /\ \E r \in IF table[op[o].fd] = None THEN {"error"} ELSE CloseResults :
       IF r = "intr" THEN UNCHANGED op ELSE Ends(o, r)

Work(o) ==
  /\ o \in working /\ op[o].status = "unknown"
  /\ WorkOpen(o) \/ WorkUse(o) \/ WorkClose(o)
  /\ UNCHANGED <<poolVars, file, frame, micro>>

Finish(o) ==
  /\ op[o].status # "unknown" /\ Pool!Finish(o)
  /\ UNCHANGED <<op, file, frame, micro, table>>

-----------------------------------------------------------------------------
(* The loop. *)

Enter == InProgram /\ Pool!Enter /\ UNCHANGED <<op, file, frame, micro, table>>
Leave == InProgram /\ Pool!Leave /\ UNCHANGED <<op, file, frame, micro, table>>

Settled(r, type, status, fd) ==
  [r EXCEPT !.fd = IF type = "open" /\ status = "ok" THEN fd ELSE @,
            !.isClosing = IF type = "close" THEN FALSE ELSE @,
            !.isClosed = IF type = "close" /\ status = "ok" THEN TRUE ELSE @]

(* FileOperation::onDone up to Resolve or Reject, whose continuations run
   before it returns. *)
Deliver ==
  /\ InProgram /\ Pool!Deliver
  /\ LET o == calling'
         f == op[o].file
     IN  /\ file' = [file EXCEPT ![f] = Settled(@, op[o].type, op[o].status, op[o].fd)]
         /\ micro' = IF frame[f] \in Awaiting THEN f ELSE None
  /\ UNCHANGED <<op, frame, table>>

(* The rest of onDone: delete wrap *)
Return ==
  /\ InProgram /\ Pool!Return
  /\ op' = [op EXCEPT ![calling] = Unused]
  /\ UNCHANGED <<file, frame, micro, table>>

-----------------------------------------------------------------------------
(* Continuations of fs.open and readFile. *)

Ok == op[calling].status = "ok"

Continue(f, at) == micro = f /\ frame[f] = at /\ micro' = None /\ UNCHANGED table

Becomes(f, left) == frame' = [frame EXCEPT ![f] = left] /\ UNCHANGED <<poolVars, op, file>>

(* fs.open: the program gets its FileHandle, or an error *)
Opened(f) == Continue(f, "open") /\ Becomes(f, IF Ok THEN "held" ELSE "dropped")

(* readFile after its await of open; an error leaves before the try block *)
RfOpened(f) ==
  /\ Continue(f, "opening")
  /\ IF Ok THEN /\ \E o \in Op : Submit(o, "stat", f, TRUE)
                /\ frame' = [frame EXCEPT ![f] = "stat"] /\ UNCHANGED file
     ELSE Becomes(f, "done")

MutantRfStat(f) ==
  /\ Continue(f, "stat")
  /\ IF Ok THEN /\ \E o \in Op : Submit(o, "read", f, TRUE)
                /\ frame' = [frame EXCEPT ![f] = "read"] /\ UNCHANGED file
     ELSE Becomes(f, "done")

(* after fstat: an error, of fstat or of new Buffer, goes to the finally block *)
RfStat(f) ==
  /\ Continue(f, "stat")
  /\ \E o \in Op :
       \/ Ok /\ Submit(o, "read", f, TRUE) /\ frame' = [frame EXCEPT ![f] = "read"] /\ UNCHANGED file
       \/ CloseWith(f, o, "close")

(* after read: the finally block *)
RfRead(f) == Continue(f, "read") /\ \E o \in Op : CloseWith(f, o, "close")

(* after close: the promise of readFile is settled *)
RfClose(f) == Continue(f, "close") /\ Becomes(f, "done")

Resume(f) == Opened(f) \/ RfOpened(f) \/ RfStat(f) \/ RfRead(f) \/ RfClose(f)

-----------------------------------------------------------------------------
Next ==
  \/ \E f \in File : Drop(f) \/ Collect(f) \/ Resume(f)
  \/ \E f \in File, o \in Op : Open(f, o) \/ Use(f, o) \/ Close(f, o)
  \/ \E o \in Op : Work(o) \/ Finish(o)
  \/ Begin \/ Enter \/ Leave \/ Deliver \/ Return

Spec == Init /\ [][Next]_vars

-----------------------------------------------------------------------------
TypeOK ==
  /\ op \in [Op -> [type : {"unknown", "open", "read", "write", "stat", "close"},
                    file : File \cup {None}, fd : Fd \cup {None},
                    status : {"unknown", "ok", "error"}, handle : BOOLEAN]]
  /\ file \in [File -> [fd : Fd \cup {None}, isClosing : BOOLEAN, isClosed : BOOLEAN]]
  /\ frame \in [File -> {"none", "held", "spent", "dropped", "done"} \cup Awaiting]
  /\ micro \in File \cup {None} /\ table \in [Fd -> File \cup {None, Lost}]

(* Whatever the workers do in whatever order, an operation whose system call is
   still to come has a descriptor that is open and belongs to its file. *)
OwnDescriptor ==
  \A o \in Op : op[o].type \notin {"unknown", "open"} /\ op[o].status = "unknown" =>
                  op[o].fd \in Fd /\ table[op[o].fd] = op[o].file

(* The File an operation will write to when it is done has not been deleted. *)
FileLives == \A f \in File : InFlight(f) # {} => frame[f] # "none"

(* When the promise of readFile is settled, its file is closed, also when fstat,
   read or close failed. *)
ReadFileCloses == \A f \in File : frame[f] = "done" => \A d \in Fd : table[d] # f
=============================================================================
