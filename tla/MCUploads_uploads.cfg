SPECIFICATION Spec
CONSTANTS
  Sessions = {sA, sB}
  Files = {f1, f2, f3}
  Bad = {f3}
  MaxSends = 3
  Switches = FALSE
  None = None
  sA = sA
  sB = sB
  f1 = f1
  f2 = f2
  f3 = f3
SYMMETRY Symmetry
INVARIANTS AttachedOnce ShownIsAttached
PROPERTIES ListedFilesExist
