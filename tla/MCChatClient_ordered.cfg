SPECIFICATION Spec
CONSTANTS
  Sessions = {s1, s2}
  Views = {v1}
  None = None
  MaxChanges = 2
  MaxRpcs = 2
  MaxBus = 1
  OrderedReplies = TRUE
  s1 = s1
  s2 = s2
  v1 = v1
  v2 = v2
SYMMETRY Symmetry
INVARIANTS TypeOK  ArtifactOfOpenSession ToldOfOpenSession
CHECK_DEADLOCK FALSE
