CONSTANTS
  Elem = {x, y}
  Junk = Junk
  VECTOR_INIT_SIZE = 3
  MaxAlloc = 6
  InsertPast = {}
SPECIFICATION Spec
SYMMETRY Elements
INVARIANT TypeOK
PROPERTIES
  OnlyRemoveOverruns
  ImplementsList
CHECK_DEADLOCK FALSE
