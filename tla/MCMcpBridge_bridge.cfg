SPECIFICATION FairSpec
CONSTANTS
  Tools = {read, write}
  Allowed = {read, web}
  ReadOnly = {read}
  MaxLines = 3
  NoTool = NoTool
  read = read
  write = write
  web = web
INVARIANTS  AtMostOneLateCall
PROPERTIES  EndsWithCli
CHECK_DEADLOCK FALSE
