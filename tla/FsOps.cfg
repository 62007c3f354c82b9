CONSTANTS
  f1 = f1 f2 = f2 o1 = o1 o2 = o2 o3 = o3
  None = None
  Lost = Lost
  File <- Files2
  Op <- Ops3
  Fd = {1, 2}
  CloseResults = {"ok", "error"}
  Rules = {"during", "after"}
SYMMETRY Symmetry
SPECIFICATION Spec
INVARIANTS
  OwnDescriptor FileLives ReadFileCloses
