------------------------------ MODULE TimerHeap ------------------------------
(***************************************************************************)
(* The intrusive binary heap of pandio (deps/pandio/include/pandio/heap.h) *)
(* as timers.c uses it: a node is embedded in a timer and holds pointers   *)
(* to its children and its parent.  The heap is a record of the header and *)
(* of the three pointer fields; an operation is a function of it, with one *)
(* definition per loop of the code.                                        *)
(***************************************************************************)
EXTENDS Integers, FiniteSets

CONSTANTS Timer, Deadline, Null

ASSUME TimerAssumption == IsFiniteSet(Timer) /\ Null \notin Timer
ASSUME DeadlineAssumption == Deadline \subseteq Nat

VARIABLES
  heap,      \* ctx->timers and the hnode of every timer
  active,    \* per timer: pd_timer_t.active
  timeout    \* per timer: pd_timer_t.timeout

heapVars == <<heap, active, timeout>>

Links == [Timer -> Timer \cup {Null}]

(* An assignment n->field = v, skipped when the pointer n is null. *)
Set(f, n, v) == IF n = Null THEN f ELSE [f EXCEPT ![n] = v]

(* pd_timers_comparator *)
Before(d, a, b) == d[a] < d[b]

(* The node at each position of the complete tree: the bits of a position,
   after the first, say left or right on the way down from the root. *)
NodeAt(h, n) ==
  LET at[p \in 1..n] ==
        IF p = 1 THEN h.root
        ELSE LET up == at[p \div 2] IN IF p % 2 = 0 THEN h.left[up] ELSE h.right[up]
  IN  at[n]

(* heap_swap: the assignments to one pointer field in the order of the code,
   so that a later one wins; child's parent is parent. *)
Swap(h, child, parent) ==
  LET over  == h.parent[parent]
      under(f) == [f EXCEPT ![parent] = f[child],
                            ![child] = IF f[parent] = child THEN parent ELSE f[parent]]
      asLeft == over # Null /\ h.left[over] = parent
      l1 == IF asLeft THEN [h.left EXCEPT ![over] = child] ELSE h.left
      r1 == IF over # Null /\ ~asLeft THEN [h.right EXCEPT ![over] = child] ELSE h.right
      p1 == Set(Set(h.parent, h.left[parent], child), h.right[parent], child)
      p2 == Set(Set(p1, h.left[child], parent), h.right[child], parent)
  IN  [h EXCEPT !.left = under(l1), !.right = under(r1),
                !.parent = [p2 EXCEPT ![parent] = child, ![child] = over],
                !.root = IF over = Null THEN child ELSE h.root]

(* The loop that moves node n up while it is before its parent; a node of a
   heap of size s moves at most s times. *)
SiftUp(h, d, n) ==
  LET up[i \in 0..h.size] ==
        IF i = 0 THEN h
        ELSE LET g == up[i - 1]
             IN  IF g.parent[n] # Null /\ Before(d, n, g.parent[n])
                 THEN Swap(g, n, g.parent[n]) ELSE g
  IN  up[h.size]

(* The child the loop of heap_remove compares with: the earlier one, the right
   one in a tie, the only one, or none. *)
MutantSwapNode(h, d, n) == IF h.left[n] # Null THEN h.left[n] ELSE h.right[n]

SwapNode(h, d, n) ==
  IF h.left[n] # Null /\ h.right[n] # Null
  THEN IF Before(d, h.left[n], h.right[n]) THEN h.left[n] ELSE h.right[n]
  ELSE IF h.left[n] # Null THEN h.left[n] ELSE h.right[n]

SiftDown(h, d, n) ==
  LET down[i \in 0..h.size] ==
        IF i = 0 THEN h
        ELSE LET g == down[i - 1]
                 c == SwapNode(g, d, n)
             IN  IF c = Null \/ Before(d, n, c) THEN g ELSE Swap(g, c, n)
  IN  down[h.size]

Emptied(h, n) == [h EXCEPT !.left[n] = Null, !.right[n] = Null]

Insert(h, d, n) ==
  IF h.root = Null
  THEN [Emptied(h, n) EXCEPT !.root = n, !.size = h.size + 1, !.parent[n] = Null]
  ELSE LET last == NodeAt(h, (h.size + 1) \div 2)
           linked == IF h.left[last] = Null THEN [h EXCEPT !.left[last] = n]
                                            ELSE [h EXCEPT !.right[last] = n]
       IN  SiftUp([Emptied(linked, n) EXCEPT !.size = h.size + 1, !.parent[n] = last], d, n)

(* The last node leaves its parent. *)
Unlink(h, last) ==
  LET up == h.parent[last]
  IN  IF up = Null THEN h
      ELSE IF h.left[up] = last THEN [h EXCEPT !.left[up] = Null] ELSE [h EXCEPT !.right[up] = Null]

(* It takes the place of node n. *)
Replace(h, n, last) ==
  LET up == h.parent[n]
      asLeft == up # Null /\ h.left[up] = n
  IN  [h EXCEPT !.root = IF up = Null THEN last ELSE h.root,
                !.left = [Set(@, IF asLeft THEN up ELSE Null, last) EXCEPT ![last] = h.left[n]],
                !.right = [Set(@, IF asLeft THEN Null ELSE up, last) EXCEPT ![last] = h.right[n]],
                !.parent = [Set(Set(@, h.left[n], last), h.right[n], last) EXCEPT ![last] = up]]

MutantRemoveNoRise(h, d, n) ==
  IF h.root = Null THEN h
  ELSE IF h.size = 1 THEN [h EXCEPT !.root = Null, !.size = 0]
  ELSE LET last == NodeAt(h, h.size)
           cut  == [Unlink(h, last) EXCEPT !.size = h.size - 1]
       IN  IF last = n THEN cut ELSE SiftDown(Replace(cut, n, last), d, last)

Remove(h, d, n) ==
  IF h.root = Null THEN h
  ELSE IF h.size = 1 THEN [h EXCEPT !.root = Null, !.size = 0]
  ELSE LET last == NodeAt(h, h.size)
           cut  == [Unlink(h, last) EXCEPT !.size = h.size - 1]
       IN  IF last = n THEN cut
           ELSE SiftUp(SiftDown(Replace(cut, n, last), d, last), d, last)

-----------------------------------------------------------------------------
Init ==
  /\ heap = [root |-> Null, size |-> 0, left |-> [t \in Timer |-> Null],
             right |-> [t \in Timer |-> Null], parent |-> [t \in Timer |-> Null]]
  /\ active = [t \in Timer |-> FALSE]
  /\ timeout = [t \in Timer |-> 0]

Start(t, d) ==
  /\ ~active[t]                     \* otherwise pd_timer_start returns at once
  /\ active' = [active EXCEPT ![t] = TRUE]
  /\ timeout' = [timeout EXCEPT ![t] = d]
  /\ heap' = Insert(heap, timeout', t)

Stop(t) ==
  /\ active[t]                      \* otherwise pd_timer_stop returns at once
  /\ active' = [active EXCEPT ![t] = FALSE]
  /\ heap' = Remove(heap, timeout, t)
  /\ UNCHANGED timeout

Next == \E t \in Timer : Stop(t) \/ \E d \in Deadline : Start(t, d)

Spec == Init /\ [][Next]_heapVars

-----------------------------------------------------------------------------
Armed == {t \in Timer : active[t]}

TypeOK ==
  /\ heap.root \in Timer \cup {Null} /\ heap.size \in Nat
  /\ heap.left \in Links /\ heap.right \in Links /\ heap.parent \in Links
  /\ active \in [Timer -> BOOLEAN] /\ timeout \in [Timer -> Nat]

(* The pointers form the complete binary tree of heap.size nodes: each position
   holds another active timer, points to the nodes of the positions under and
   over it, and to nothing where the tree ends.  heap_insert and heap_remove
   find the last node by the size alone, so they rely on it. *)
CompleteTree ==
  LET n == heap.size
      at == [p \in 1..n |-> NodeAt(heap, p)]
      ref(p) == IF p \in 1..n THEN at[p] ELSE Null
  IN  /\ {at[p] : p \in 1..n} = Armed /\ n = Cardinality(Armed)
      /\ heap.root = ref(1)
      /\ \A p \in 1..n :
           /\ heap.left[at[p]] = ref(2 * p)
           /\ heap.right[at[p]] = ref(2 * p + 1)
           /\ heap.parent[at[p]] = ref(p \div 2)

(* No timer in the heap is due before the one above it. *)
HeapOrder ==
  \A t \in Armed : heap.parent[t] # Null => ~Before(timeout, t, heap.parent[t])

(* What heap_insert and heap_remove rely on, and leave behind: a complete tree
   in the order of the deadlines, however the timers came and went. *)
WellFormed == TypeOK /\ CompleteTree /\ HeapOrder

(* With the root as its top the heap is the ordered set pd_timers_run and
   pd_timers_next take it for. *)
TimerQueue == INSTANCE TimerSet WITH
  armed <- Armed, deadline <- timeout, top <- heap.root, Deadline <- Deadline \cup {0}

ImplementsTimerSet == TimerQueue!Spec
=============================================================================
