CONSTANTS
  w1 = w1 w2 = w2 w3 = w3 t1 = t1 t2 = t2 t3 = t3
  Main = Main
  None = None
  Worker <- Workers3
  Task <- Tasks3
  MaxHandles = 1
SYMMETRY Symmetry
SPECIFICATION Spec
INVARIANTS
  MutualExclusion NoUseAfterDestroy OnePlace RefsCount NoLostNotification WorkConserving
PROPERTIES
  ImplementsService
