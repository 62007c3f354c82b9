CONSTANTS
  t1 = t1 t2 = t2
  Null = Null
  Timer <- Timers2
  Width = 8
  IntMax = 2
  MaxHandles = 1
  MaxLag = 2
  MaxIntr = 1
  MaxSlept = 4
  Delay = {0, 1, 3}
  Careful = TRUE
SPECIFICATION LiveSpec
INVARIANTS
  TimerRefs SleepBound StaysStopped IntervalKeeps
PROPERTIES
  Fires LoopTurns
