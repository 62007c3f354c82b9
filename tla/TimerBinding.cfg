CONSTANTS
  MaxTimers = 3
  Width = 64
  IntMax = 31
  MaxHandles = 1
  MaxLag = 1
  MaxIntr = 1
  MaxSlept = 3
  Delay <- Delays
  Careful = TRUE
SPECIFICATION Spec
INVARIANTS
  TimerObjects ClearedSilent
