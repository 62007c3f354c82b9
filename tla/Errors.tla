------------------------------- MODULE Errors -------------------------------
(***************************************************************************)
(* Rejected promises, core/errors.cc: V8 tells the runtime when a promise  *)
(* is rejected without a handler and when a rejected one gets its handler; *)
(* the runtime keeps the promises in between and ends the program if one   *)
(* is left at the end of a turn of the event loop.                         *)
(*                                                                         *)
(* A promise stands for its identity hash: hashes are taken to differ.     *)
(***************************************************************************)
EXTENDS Naturals, Sequences, FiniteSets

CONSTANTS MaxRejects      \* how many promises of its own the program rejects

ASSUME MaxRejectsAssumption == MaxRejects \in Nat

VARIABLES
  promise,            \* V8's promises: key -> [state, handled, of]
  rejected_promises   \* keys of the promises that wait for a handler

errorVars == <<promise, rejected_promises>>

States == {"pending", "fulfilled", "rejected"}

(* The promises of the program itself, beside those of modules and imports. *)
Own == {"own"} \X (1 .. MaxRejects)
OwnUsed == DOMAIN promise \cap Own

ErrorsInit == promise = <<>> /\ rejected_promises = {}

(* Table f with the entry k -> e, as operator[] of a std::unordered_map sets it. *)
Put(f, k, e) == [x \in DOMAIN f \cup {k} |-> IF x = k THEN e ELSE f[x]]

(* V8 settles promise p: it calls promiseRejectedCallback when p is rejected
   and has no handler. *)
Settled(p, state, handled, of) ==
  Put(promise, p, [state |-> state, handled |-> handled, of |-> of])

RejectWithNoHandler(p) == rejected_promises \cup {p}
HandlerAddedAfterReject(p) == rejected_promises \ {p}

(* Mutant: the rejection that import() passes on stays. *)
MutantremovePendingReject(p) == rejected_promises

removePendingReject(p) == rejected_promises \ {p}

(* The program rejects a promise of its own, with or without a handler. *)
RejectOwn(handled) ==
  /\ Cardinality(OwnUsed) < MaxRejects
  /\ LET p == <<"own", Cardinality(OwnUsed) + 1>> IN
     /\ promise' = Settled(p, "rejected", handled, 0)
     /\ rejected_promises' = IF handled THEN rejected_promises ELSE RejectWithNoHandler(p)

(* The program adds a handler to a promise it has: its own, or what import()
   returned, but not the one that belongs to the evaluation of a module. *)
AddHandler(p) ==
  /\ p[1] # "module" /\ ~promise[p].handled
  /\ promise' = [promise EXCEPT ![p].handled = TRUE]
  /\ rejected_promises' =
       IF promise[p].state = "rejected" THEN HandlerAddedAfterReject(p) ELSE rejected_promises

(* checkPendingErrors reports the first of them and throws. *)
Pending == rejected_promises # {}
=============================================================================
