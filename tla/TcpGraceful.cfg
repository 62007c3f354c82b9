CONSTANTS
  s1 = s1 s2 = s2 o1 = o1 o2 = o2
  None = None
  Stream <- Streams2
  Op <- Ops2
  Size <- Sizes
  Fd = {1, 2}
  MaxIn = 2
  MaxDepth = 2
  Rules = {"early", "closed", "inside", "unopened"}
CHECK_DEADLOCK FALSE
SYMMETRY Symmetry
SPECIFICATION Spec
PROPERTIES
  GracefulRead
