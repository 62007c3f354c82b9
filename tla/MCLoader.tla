------------------------------ MODULE MCLoader ------------------------------
(* Instances of Loader for TLC: an entry script and two files whose names are
   "x " and "x%20", with every choice of what they are and what they request. *)
EXTENDS Loader

Boot == <<"b">>
Main == <<"m">>
X == <<"x", " ">>
Y == <<"x", "%", "2", "0">>

File(kinds, deps) == {f \in [kind : kinds, deps : SUBSET deps] : f.kind \in {"missing", "syntax"} => f.deps = {}}

(* A module that throws is in no cycle of requests, and one that awaits is
   requested by import() only: V8's rules for these are left out. *)
Ordinary(fs) ==
  /\ fs[X].kind = "throws" => {X, Main, Y} \cap fs[X].deps = {} \/ (Main \notin fs[X].deps /\ fs[Y].deps = {})
  /\ fs[Y].kind = "throws" => X \notin fs[Y].deps \/ Y \notin fs[X].deps
  /\ fs[Main].kind = "throws" => Main \notin fs[X].deps
  /\ \A p, q \in {Main, X, Y} : fs[q].kind = "awaits" => q \notin fs[p].deps

Disks ==
  {fs \in [{Boot, Main, X, Y} -> File(Kinds, {Main, X, Y})] :
     /\ fs[Boot] = [kind |-> "ok", deps |-> {}]
     /\ fs[Main] \in File(Kinds \ {"syntax"}, {X, Y})
     /\ fs[X] \in File(Kinds, {Main, Y})
     /\ fs[Y] \in File(Kinds, {X})
     /\ Ordinary(fs)}
=============================================================================
