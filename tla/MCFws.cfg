CONSTANTS
  Client = {c1, c2}
  CallNumbers = 2
  Name <- AllNames
  Type <- Asked
  Oversized <- TooLong
  FuncList <- GetFirst
  Outcome = {"output", "error", "silent"}
  OddFrame = {"bodyless"}
  Fd = {1, 2, 3}
  Info = {a1, a2}
  NULL = NULL
  Backlog = 2
  MayFail = {"create", "select", "accept", "send"}
SPECIFICATION Spec
SYMMETRY Interchangeable
PROPERTIES
  ImplementsServer
  ImplementsRpc
CHECK_DEADLOCK FALSE
INVARIANTS
  TypeOK
  EveryPeerIsListed
  TurnsAlternate
  AnswersWhoAsked
  OwnReply
  ServedByItsName
