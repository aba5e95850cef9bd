CONSTANTS
  Fd = {1, 2, 3, 4}
  Info = {a1, a2, a3}
  NULL = NULL
  Backlog = 2
  MaxConns = 3
  MayFail = {}
SPECIFICATION FairSpec
INVARIANT ServesWhatWasAccepted
PROPERTIES
  NewcomersAreAccepted
  FirstIsHeard
CHECK_DEADLOCK FALSE
