------------------------------- MODULE Loader -------------------------------
(***************************************************************************)
(* The life of a program: core/loader.cc loads, links and evaluates its    *)
(* modules, core/pand.cc runs the entry script, the callbacks of the event *)
(* loop and the check for rejected promises, core/main.cc turns what       *)
(* escapes into the exit status, and ~Pand takes everything down.          *)
(*                                                                         *)
(* All of it runs on one thread, but nested: V8 calls Loader::load while   *)
(* it links, a module's body calls dynamicImport while it is evaluated,    *)
(* and that links and evaluates another module inside. The stack holds the *)
(* calls in progress. V8 is external: it links what a module requests,     *)
(* evaluates requested modules first, each once, and fails a module whose  *)
(* request failed.                                                         *)
(***************************************************************************)
EXTENDS Errors, SequencesExt

CONSTANTS
  Bootstrap,     \* the path of std:bootstrap
  Entry,         \* the path of the entry script
  FileSystems,   \* the file systems looked at: path -> [kind, deps]
  MaxImports,    \* bound on the calls of import()
  MaxCallbacks,  \* bound on the callbacks the loop makes
  Careful        \* the program does not call exit() while a script is evaluated

(* Those of the paths that are modules of the binary request no other file. *)
Standard(fs, std) ==
  /\ Bootstrap \in std /\ Entry \notin std
  /\ \A p \in std : fs[p].deps \subseteq std

Kinds == {"ok", "missing", "syntax", "throws", "awaits"}

(* What ada leaves out of a url. *)
Dropped == {"\t", "\n", "\r"}

(* Characters by which two paths may differ and have one url all the same: those
   that are dropped, the backslash, which becomes a slash, and the bar, which
   becomes a colon in a first segment like "c|". *)
Merging == Dropped \cup {"\\", "|"}

(* A path is a sequence of characters, none of which merges its url with that of
   another path, and no module that awaits is requested otherwise than by
   import(): V8's rules for that are left out. *)
ASSUME FileSystemsAssumption ==
  \A fs \in FileSystems :
    /\ {Bootstrap, Entry} \subseteq DOMAIN fs
    /\ \A p \in DOMAIN fs : p \in Seq(Range(p)) /\ Range(p) \cap Merging = {}
    /\ \A p \in DOMAIN fs : fs[p].kind \in Kinds
    /\ \A p \in DOMAIN fs : fs[p].deps \subseteq {q \in DOMAIN fs : fs[q].kind # "awaits"}
    /\ \E std \in SUBSET DOMAIN fs : Standard(fs, std)
ASSUME CarefulAssumption == Careful \in BOOLEAN

VARIABLES
  files,         \* what is on disk or, for std: modules, in the binary
  modules,       \* modules of loader.cc: ScriptId -> path of the Module
  resolve_cache, \* url -> ScriptId of the cached v8::Module
  v8,            \* V8's modules by ScriptId: [path, status, requests]
  stack,         \* the calls in progress, the innermost last
  imports, callbacks,   \* how many there were
  phase,         \* where Pand::run is
  status         \* why the program ends

vars == <<errorVars, files, modules, resolve_cache, v8, stack, imports, callbacks, phase, status>>
loaded == <<modules, resolve_cache>>
counts == <<imports, callbacks>>

Paths == DOMAIN files

Init ==
  /\ ErrorsInit
  /\ files \in FileSystems
  /\ modules = <<>> /\ resolve_cache = <<>> /\ v8 = <<>>
  /\ stack = <<>> /\ imports = 0 /\ callbacks = 0
  /\ phase = "bootstrap" /\ status = "none"

-----------------------------------------------------------------------------
(* Paths and urls. A path is absolute and in normal form, so that it has no dot
   segments. ada::href_from_file goes through it character by character; the
   space stands for all that it writes as a percent code. *)
UrlChar(c) ==
  CASE c = " "         -> <<"%", "2", "0">>
    [] c \in Dropped   -> <<>>
    [] c = "\\"        -> <<"/">>
    [] OTHER           -> <<c>>

Href(path) == FlattenSeq([i \in DOMAIN path |-> UrlChar(path[i])])

(* Mutant: the % is not escaped. *)
MutantpathURL(path) == Href(path)

(* ada keeps a percent sign, so it is escaped first. *)
pathURL(path) == Href(FlattenSeq([i \in DOMAIN path |->
                   IF path[i] = "%" THEN <<"%", "2", "5">> ELSE <<path[i]>>]))

(* Mutant: every request loads the file again. *)
MutantfromCache(path) == {}

fromCache(path) == IF pathURL(path) \in DOMAIN resolve_cache THEN {resolve_cache[pathURL(path)]} ELSE {}

(* Module::init reads and compiles. A module that compiles is entered into
   both tables under the next ScriptId; another one is destroyed at once. *)
CanInit(path) == files[path].kind \notin {"missing", "syntax"}
NextId == Len(v8) + 1
Requests(id, path) == {id} \X files[path].deps

Compiled(path) ==
  /\ modules' = Put(modules, NextId, path)
  /\ resolve_cache' = Put(resolve_cache, pathURL(path), NextId)

(* Mutant: ~Module leaves the cache alone. *)
MutantErased(paths) == resolve_cache

(* ~Module erases what the cache has under its url. *)
Erased(paths) == [u \in DOMAIN resolve_cache \ {pathURL(p) : p \in paths} |-> resolve_cache[u]]

Destroyed(path) == modules' = modules /\ resolve_cache' = Erased({path})

(* A V8 module that only exists. *)
Unlinked(path) == [path |-> path, status |-> "unlinked", requests |-> {}]

-----------------------------------------------------------------------------
Top == Last(stack)
Pushed(s, f) == Append(s, f)
Popped == Front(stack)

(* Loader::evaluate and dynamicImport are the same frame: what they load, the
   requests V8 has yet to resolve, the modules it has seen, and the promise of
   the import. *)
LoadFrame(f, id, path, p) ==
  [f |-> f, id |-> id, at |-> "link", todo |-> Requests(id, path), seen |-> {id}, p |-> p]
Loads == {"exec", "import"}

BodyFrame(id) == [f |-> "body", id |-> id]

Alive == phase \in {"bootstrap", "script", "loop"}
Busy == Alive /\ stack # <<>>
Linking == Busy /\ Top.f \in Loads /\ Top.at = "link"
Evaluated(id) == v8[id].status \in {"evaluated", "errored", "awaiting"}
Finished == Busy /\ Top.f \in Loads /\ Top.at = "eval" /\ Evaluated(Top.id)

Deps(id, st) == {d \in {r[2] : r \in v8[id].requests} : v8[d].status = st}
AtBody == Busy /\ Top.f = "body"
Ready == AtBody /\ Deps(Top.id, "linked") = {} /\ Deps(Top.id, "errored") = {}

(* Where the program's JavaScript runs: a module's body, a callback of the
   loop, and the microtasks V8 runs at the end of either when nothing encloses
   it. Nothing of it runs in std:bootstrap. *)
AtMicrotasks == (Busy /\ Top.f = "callback") \/ (Finished /\ Top.f = "exec")
InScript == phase # "bootstrap" /\ (Ready \/ AtMicrotasks)

(* CriticalException: everything up to main() is unwound. *)
Raise(why) == stack' = <<>> /\ phase' = "exit" /\ status' = why

-----------------------------------------------------------------------------
(* execInternal and execScript: no look into the cache. *)
Exec ==
  /\ ~Busy /\ phase \in {"bootstrap", "script"}
  /\ LET path == IF phase = "bootstrap" THEN Bootstrap ELSE Entry IN
     IF CanInit(path)
     THEN /\ v8' = Append(v8, Unlinked(path)) /\ Compiled(path)
          /\ stack' = <<LoadFrame("exec", NextId, path, <<>>)>>
          /\ UNCHANGED <<phase, status>>
     ELSE /\ Destroyed(path) /\ Raise("critical") /\ UNCHANGED v8
  /\ UNCHANGED <<errorVars, files, counts>>

(* V8 got module d for a request of module `parent`: it goes on to the
   requests of d, unless it has seen d or linked it before. *)
Resolved(parent, path, d, mods) ==
  /\ v8' = [mods EXCEPT ![parent].requests = @ \cup {<<path, d>>}]
  /\ LET new == IF mods[d].status = "unlinked" THEN {d} \ Top.seen ELSE {} IN
     stack' = Append(Popped, [Top EXCEPT
                !.todo = (@ \ {<<parent, path>>}) \cup UNION {Requests(n, mods[n].path) : n \in new},
                !.seen = @ \cup new])

(* Linking fails: what V8 linked on the way is as it was before. *)
Unlink == [i \in DOMAIN v8 |->
             IF i \in Top.seen THEN [v8[i] EXCEPT !.requests = {}] ELSE v8[i]]

LinkFails ==
  /\ v8' = Unlink
  /\ \/ Top.f = "exec" /\ Raise("critical") /\ UNCHANGED errorVars
     \/ /\ Top.f = "import"
        /\ promise' = Settled(Top.p, "rejected", FALSE, Top.id)
        /\ rejected_promises' = RejectWithNoHandler(Top.p)
        /\ stack' = Popped /\ UNCHANGED <<phase, status>>

(* Loader::load for one request of the module being linked. *)
load ==
  /\ Linking
  /\ \E r \in Top.todo : LET parent == r[1] path == r[2] IN
     \/ /\ parent \notin DOMAIN modules
        /\ LinkFails /\ UNCHANGED loaded
     \/ /\ parent \in DOMAIN modules
        /\ \E d \in fromCache(path) : Resolved(parent, path, d, v8)
        /\ UNCHANGED <<loaded, errorVars, phase, status>>
     \/ /\ parent \in DOMAIN modules /\ fromCache(path) = {} /\ CanInit(path)
        /\ Compiled(path) /\ Resolved(parent, path, NextId, Append(v8, Unlinked(path)))
        /\ UNCHANGED <<errorVars, phase, status>>
     \/ /\ parent \in DOMAIN modules /\ fromCache(path) = {} /\ ~CanInit(path)
        /\ Destroyed(path) /\ LinkFails
  /\ UNCHANGED <<files, counts>>

(* Everything is resolved: InstantiateModule returns, Evaluate begins. *)
Evaluate ==
  /\ Linking /\ Top.todo = {}
  /\ v8' = [i \in DOMAIN v8 |->
              IF i = Top.id THEN [v8[i] EXCEPT !.status = "evaluating"]
              ELSE IF i \in Top.seen THEN [v8[i] EXCEPT !.status = "linked"] ELSE v8[i]]
  /\ promise' = Settled(<<"module", Top.id>>, "pending", FALSE, Top.id)
  /\ stack' = Append(Append(Popped, [Top EXCEPT !.at = "eval"]), BodyFrame(Top.id))
  /\ UNCHANGED <<rejected_promises, files, loaded, counts, phase, status>>

(* V8 evaluates a requested module first. *)
EnterDep ==
  /\ AtBody /\ Deps(Top.id, "errored") = {}
  /\ \E d \in Deps(Top.id, "linked") :
       v8' = [v8 EXCEPT ![d].status = "evaluating"] /\ stack' = Append(stack, BodyFrame(d))
  /\ UNCHANGED <<errorVars, files, loaded, counts, phase, status>>

(* The promise of an evaluation is settled with its root. *)
StateOf == [evaluated |-> "fulfilled", errored |-> "rejected", awaiting |-> "pending"]

SettleRoot(id, end) ==
  /\ promise' = Settled(<<"module", id>>, StateOf[end], FALSE, id)
  /\ rejected_promises' = IF end = "errored" THEN RejectWithNoHandler(<<"module", id>>) ELSE rejected_promises

Leave(end) ==
  /\ v8' = [v8 EXCEPT ![Top.id].status = end]
  /\ stack' = Popped
  /\ IF Last(Popped).f \in Loads THEN SettleRoot(Top.id, end) ELSE UNCHANGED errorVars
  /\ UNCHANGED <<files, loaded, counts, phase, status>>

(* The body ends, or is not run because what it requests has failed. *)
LeaveBody ==
  \/ AtBody /\ Deps(Top.id, "errored") # {} /\ Leave("errored")
  \/ /\ Ready
     /\ Leave(CASE files[v8[Top.id].path].kind = "throws" -> "errored"
                [] files[v8[Top.id].path].kind = "awaits" -> "awaiting"
                [] OTHER -> "evaluated")

(* The rest of Loader::evaluate, after V8 has run the microtasks. *)
ExecEnd ==
  /\ Finished /\ Top.f = "exec"
  /\ IF promise[<<"module", Top.id>>].state = "rejected"
     THEN Raise("uncaught")
     ELSE /\ stack' = <<>>
          /\ phase' = IF phase = "bootstrap" THEN "script" ELSE "loop"
          /\ UNCHANGED status
  /\ UNCHANGED <<errorVars, files, loaded, v8, counts>>

-----------------------------------------------------------------------------
(* A module whose code runs is found by its url, and then by its ScriptId. *)
Referrers == {i \in DOMAIN v8 : v8[i].status \notin {"unlinked", "linked"}}
ParentFound(i) == \E c \in fromCache(v8[i].path) : c \in DOMAIN modules

Refused(p) ==
  /\ promise' = Settled(p, "rejected", FALSE, 0)
  /\ rejected_promises' = RejectWithNoHandler(p)
  /\ UNCHANGED <<v8, stack>>

(* dynamicImport from a script: what is in the cache already is not used, and
   the import is rejected as not found. *)
dynamicImport ==
  /\ InScript /\ imports < MaxImports
  /\ imports' = imports + 1
  /\ \E path \in Paths \ {Bootstrap}, parent \in Referrers : LET p == <<"import", imports + 1>> IN
     \/ /\ ParentFound(parent) /\ fromCache(path) = {} /\ CanInit(path)
        /\ Compiled(path) /\ v8' = Append(v8, Unlinked(path))
        /\ stack' = Append(stack, LoadFrame("import", NextId, path, p))
        /\ UNCHANGED errorVars
     \/ /\ ParentFound(parent) /\ fromCache(path) = {} /\ ~CanInit(path)
        /\ Destroyed(path) /\ Refused(p)
     \/ /\ ~ParentFound(parent) \/ fromCache(path) # {}
        /\ Refused(p) /\ UNCHANGED loaded
  /\ UNCHANGED <<files, callbacks, phase, status>>

(* The rest of dynamicImport: the rejection of the module's own promise is
   taken back, and given to the promise of the import. *)
ImportEnd ==
  /\ Finished /\ Top.f = "import"
  /\ LET m == <<"module", Top.id>> IN
     IF promise[m].state = "rejected"
     THEN /\ promise' = Settled(Top.p, "rejected", FALSE, Top.id)
          /\ rejected_promises' = removePendingReject(m) \cup {Top.p}
     ELSE /\ promise' = Settled(Top.p, "fulfilled", FALSE, Top.id)
          /\ UNCHANGED rejected_promises
  /\ stack' = Popped
  /\ UNCHANGED <<files, loaded, v8, counts, phase, status>>

(* A module with a top-level await goes on in a later microtask. *)
AwaitEnd ==
  /\ AtMicrotasks
  /\ \E id \in {i \in DOMAIN v8 : v8[i].status = "awaiting"}, end \in {"evaluated", "errored"} :
       v8' = [v8 EXCEPT ![id].status = end] /\ SettleRoot(id, end)
  /\ UNCHANGED <<files, loaded, stack, counts, phase, status>>

Promises ==
  /\ InScript
  /\ \/ \E handled \in BOOLEAN : RejectOwn(handled)
     \/ \E p \in DOMAIN promise : AddHandler(p)
  /\ UNCHANGED <<files, loaded, v8, stack, counts, phase, status>>

(* Runtime::exit, at once from wherever the script is. *)
ExitCall ==
  /\ InScript /\ (Careful => \A i \in DOMAIN stack : stack[i].f # "exec")
  /\ phase' = "exit" /\ status' = "exit"
  /\ UNCHANGED <<errorVars, files, loaded, v8, stack, counts>>

-----------------------------------------------------------------------------
(* makeCallback, from a callback of the event loop; an exception that leaves
   the function is reported. *)
makeCallback ==
  /\ phase = "loop" /\ ~Busy /\ callbacks < MaxCallbacks
  /\ callbacks' = callbacks + 1 /\ stack' = <<[f |-> "callback"]>>
  /\ UNCHANGED <<errorVars, files, loaded, v8, imports, phase, status>>

CallbackEnd ==
  /\ phase = "loop" /\ Busy /\ Top.f = "callback"
  /\ \/ stack' = Popped /\ UNCHANGED <<phase, status>>
     \/ Raise("uncaught")
  /\ UNCHANGED <<errorVars, files, loaded, v8, counts>>

(* Mutant: no check after the loop. *)
MutantcheckPendingErrors(last) ==
  IF last THEN phase' = "exit" /\ status' = "success" /\ UNCHANGED stack
  ELSE IF Pending THEN Raise("promise") ELSE UNCHANGED <<phase, status, stack>>

(* checkPendingErrors, the loop's after_tick and once more when it is over. *)
checkPendingErrors(last) ==
  IF Pending THEN Raise("promise")
  ELSE IF last THEN phase' = "exit" /\ status' = "success" /\ UNCHANGED stack
  ELSE UNCHANGED <<phase, status, stack>>

Turn ==
  /\ phase = "loop" /\ ~Busy
  /\ \E last \in BOOLEAN : checkPendingErrors(last)
  /\ UNCHANGED <<errorVars, files, loaded, v8, counts>>

(* ~Pand. A Module that a frame of the stack still owns outlives `modules`:
   only exit() leaves such frames behind. *)
Owned == {stack[i].id : i \in {j \in DOMAIN stack : stack[j].f = "exec"}}

Destroy ==
  /\ phase = "exit" /\ phase' = "gone"
  /\ rejected_promises' = {}
  /\ modules' = <<>>
  /\ resolve_cache' = Erased({modules[i] : i \in DOMAIN modules \ Owned})
  /\ UNCHANGED <<promise, files, v8, stack, counts, status>>

Stopped == phase = "gone" /\ UNCHANGED vars

Next ==
  \/ Exec \/ load \/ Evaluate \/ EnterDep \/ LeaveBody \/ ExecEnd
  \/ dynamicImport \/ ImportEnd \/ AwaitEnd \/ Promises \/ ExitCall
  \/ makeCallback \/ CallbackEnd \/ Turn \/ Destroy \/ Stopped

Spec == Init /\ [][Next]_vars

-----------------------------------------------------------------------------
(* Types. *)
TypeOK ==
  /\ rejected_promises \subseteq DOMAIN promise
  /\ \A p \in DOMAIN promise : promise[p].state \in States /\ promise[p].of \in 0 .. Len(v8)
  /\ DOMAIN modules \subseteq DOMAIN v8
  /\ \A i \in DOMAIN v8 : v8[i].path \in Paths

(* The two tables of loader.cc stay in step: every cached url leads to the
   Module that was loaded from it, and every Module is cached, so that no path
   has two; load and dynamicImport find the parent of each request. *)
CachesAgree ==
  /\ TypeOK
  /\ phase # "gone" =>
       /\ \A i \in DOMAIN modules : fromCache(modules[i]) = {i}
       /\ \A u \in DOMAIN resolve_cache : resolve_cache[u] \in DOMAIN modules

(* A request gets the module of the path it names, though the cache knows only
   the url, where no path has a character of Merging; and what import() fulfils has been evaluated as far as it can be. *)
RightModule ==
  /\ \A i \in DOMAIN v8 : \A r \in v8[i].requests : v8[r[2]].path = r[1]
  /\ \A p \in DOMAIN promise : p[1] = "import" /\ promise[p].state = "fulfilled" =>
       \/ v8[promise[p].of].status \in {"evaluated", "awaiting"}
       \/ files[v8[promise[p].of].path].kind = "awaits"

(* The evaluation's own promise is answered for by the import it failed. *)
Rethrown(p) ==
  p[1] = "module" /\ \E q \in DOMAIN promise :
    q[1] = "import" /\ promise[q].of = promise[p].of /\ promise[q].state = "rejected"

(* rejected_promises is the set of promises that are rejected and unhandled,
   so that a script that catches what import() rejects with is not ended by
   the promise of the module (loader.cc:246), and nothing else is forgotten. *)
PendingExact ==
  phase # "gone" =>
    rejected_promises = {p \in DOMAIN promise :
      promise[p].state = "rejected" /\ ~promise[p].handled /\ ~Rethrown(p)}

(* main() returns success only if the entry script was evaluated and nobody's
   rejection was left without a handler, and a failure has a cause. *)
ExitStatus ==
  /\ status = "success" =>
       /\ \A p \in DOMAIN promise : promise[p].state = "rejected" => promise[p].handled \/ Rethrown(p)
       /\ \E i \in DOMAIN v8 : v8[i].path = Entry /\ v8[i].status \in {"evaluated", "awaiting"}
  /\ status = "promise" =>
       \E p \in DOMAIN promise : promise[p].state = "rejected" /\ ~promise[p].handled

(* When the isolate is disposed no table holds a handle of it any more. *)
CleanExit == phase = "gone" => resolve_cache = <<>> /\ rejected_promises = {}
=============================================================================
