CONSTANTS
  Client = {c1, c2}
  CallNumbers = 1
  Name <- AllNames
  Type <- AskedOnce
  Oversized <- TooLong
  FuncList <- GetFirst
  Outcome = {"output", "error"}
  OddFrame = {}
  Fd = {1, 2, 3}
  Info = {a1, a2}
  NULL = NULL
  Backlog = 2
  MayFail = {"send"}
SPECIFICATION FairSpec
PROPERTIES
  CallsReturn
  DeadPeersAreDropped
CHECK_DEADLOCK FALSE
