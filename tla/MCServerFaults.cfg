CONSTANTS
  Fd = {1, 2, 3, 4}
  Info = {a1, a2, a3}
  NULL = NULL
  Backlog = 2
  MaxConns = 5
  MayFail = {"create", "select", "accept", "send"}
SPECIFICATION Spec
SYMMETRY Blocks
INVARIANTS
  TypeOK
  TablesAgree
  EntriesOwnTheirs
  CurrentIsListed
  SnapshotIsUseful
PROPERTY OnlyTheCurrentIsDropped
CHECK_DEADLOCK FALSE
