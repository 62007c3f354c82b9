CONSTANTS
  w1 = w1 w2 = w2 w3 = w3 t1 = t1 t2 = t2 t3 = t3
  Main = Main
  None = None
  Worker <- Workers2
  Task <- Tasks2
  MaxHandles = 1
SPECIFICATION LiveSpec
PROPERTIES
  EveryTaskDone EndReturns
