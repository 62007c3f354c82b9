----------------------------- MODULE MCTimerHeap -----------------------------
(* Instances of TimerHeap for TLC. *)
EXTENDS TimerHeap, TLC

CONSTANTS t1, t2, t3, t4, t5, t6

Timers6 == {t1, t2, t3, t4, t5, t6}

Symmetry == Permutations(Timers6)

(* Nothing reads the pointers and the deadline of a timer outside the heap
   before heap_insert and pd_timer_start overwrite them. *)
Live(f) == [t \in Armed |-> f[t]]
HeapView ==
  <<heap.root, heap.size, Live(heap.left), Live(heap.right), Live(heap.parent), active, Live(timeout)>>
=============================================================================
