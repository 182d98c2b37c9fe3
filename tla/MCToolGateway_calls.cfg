SPECIFICATION Spec
CONSTANTS
  Calls = {c1, c2}
  ReadTools = {}
  WriteTools = {unlink}
  WebTools = {}
  Deletes = {unlink}
  Targets = {OwnSession, orders, secrets}
  OwnSession = OwnSession
  Excluded = {secrets}
  MaxTries = 2
  LogFails = FALSE
  None = None
  c1 = c1
  c2 = c2
  read = read
  write = write
  unlink = unlink
  web = web
  orders = orders
  secrets = secrets
SYMMETRY Symmetry
INVARIANTS TypeOK AtMostOnce EffectsAreLogged ResultMeansDone
PROPERTIES WritesWereGranted
