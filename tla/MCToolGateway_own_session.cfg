SPECIFICATION FairSpec
CONSTANTS
  Calls = {c1}
  ReadTools = {read}
  WriteTools = {unlink}
  WebTools = {}
  Deletes = {unlink}
  Targets = {OwnSession, orders}
  OwnSession = OwnSession
  Excluded = {}
  MaxTries = 2
  LogFails = FALSE
  None = None
  c1 = c1
  c2 = c2
  read = read
  write = write
  unlink = unlink
  web = web
  orders = orders
  secrets = secrets
PROPERTY RequestEnds
