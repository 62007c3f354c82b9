CONSTANTS
  MaxTimers = 3
  Width = 64
  IntMax = 31
  MaxHandles = 1
  MaxLag = 1
  MaxIntr = 1
  MaxSlept = 3
  Delay <- Delays
  Careful = FALSE
SPECIFICATION Spec
INVARIANTS
  DeletedOnce
