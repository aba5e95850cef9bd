CONSTANTS
  Client = {c1, c2}
  CallNumbers = 1
  Name <- AllNames
  Type <- AskedOnce
  Oversized = {}
  FuncList <- GetFirst
  Outcome = {"output", "error", "silent"}
  OddFrame = {}
  Fd = {1, 2, 3}
  Info = {a1, a2}
  NULL = NULL
  Backlog = 2
  MayFail = {}
SPECIFICATION FairSpec
PROPERTY CallsReturn
CHECK_DEADLOCK FALSE
