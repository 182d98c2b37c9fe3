SPECIFICATION Spec
CONSTANTS
  Requests = {q1, q2, q3}
  Values = {v1, v2}
  Fresh = Fresh
  Shared = None
  Inodes = {i1, i2, i3, i4, i5}
  Overlap = FALSE
  RemoveFails = FALSE
  None = None
  Empty = Empty
  Torn = Torn
  q1 = q1
  q2 = q2
  q3 = q3
  v1 = v1
  v2 = v2
  i1 = i1
  i2 = i2
  i3 = i3
  i4 = i4
  i5 = i5
SYMMETRY Symmetry
INVARIANTS TypeOK NoneOnlyAfterRemoval
PROPERTIES ImplementsRegister KeyAsSet
