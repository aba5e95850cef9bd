CONSTANTS
  Client = {c1, c2}
  CallNumbers = 1
  Name <- AllNames
  Type <- AskedOnce
  Oversized = {}
  FuncList <- GetFirst
  Outcome = {"output"}
  OddFrame = {}
  Fd = {1, 2, 3}
  Info = {a1, a2}
  NULL = NULL
  Backlog = 2
  MayFail = {"send"}
SPECIFICATION Spec
INVARIANT ServerSurvives
CHECK_DEADLOCK FALSE
