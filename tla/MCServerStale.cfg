CONSTANTS
  Fd = {1, 2, 3}
  Info = {a1, a2, a3}
  NULL = NULL
  Backlog = 2
  MaxConns = 3
  MayFail = {}
SPECIFICATION Spec
INVARIANT ServesWhatWasAccepted
CHECK_DEADLOCK FALSE
