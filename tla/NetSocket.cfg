CONSTANTS
  s1 = s1 s2 = s2 o1 = o1
  None = None
  Socket <- Sockets
  Op <- Ops
  Size <- Sizes
  Fd = {1}
  MaxIn = 1
  MaxDepth = 2
  MaxReads = 2
  MaxListens = 1
  Careful = TRUE
  Rules = {"early", "closed", "inside", "unopened"}
CHECK_DEADLOCK FALSE
SPECIFICATION LiveSpec
INVARIANTS
  StreamLife ReadsServed ConnectAnswered
PROPERTIES
  ClosesTold
