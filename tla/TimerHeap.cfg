CONSTANTS
  t1 = t1 t2 = t2 t3 = t3 t4 = t4 t5 = t5 t6 = t6
  Null = Null
  Timer <- Timers6
  Deadline = {1, 2, 3}
SYMMETRY Symmetry
VIEW HeapView
SPECIFICATION Spec
INVARIANTS
  WellFormed
PROPERTIES
  ImplementsTimerSet
