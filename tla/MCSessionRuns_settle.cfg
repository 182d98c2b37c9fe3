SPECIFICATION Spec
CONSTANTS
  s1 = s1
  s2 = s2
  r1 = r1
  r2 = r2
  p1 = p1
  p2 = p2
  u1 = u1
  u2 = u2
  Sessions = {s1}
  Runs = {r1, r2}
  Pids = {p1, p2}
  None = None
  Owner <- OneOwner
  Managers = {}
  MaxConcurrent = 0
  HttpWorkers = 1
  Timeout = 1
  Grace = 1
  PidReuse = FALSE
  StreamingRuns = {r1, r2}
SYMMETRY Symmetry
PROPERTIES
  SettlesOnlyWithoutResult
