CONSTANTS
  Elem = {x, y}
  Junk = Junk
  VECTOR_INIT_SIZE = 2
  MaxAlloc = 4
  InsertPast = {}
SPECIFICATION Spec
INVARIANT StaysInside
CHECK_DEADLOCK FALSE
