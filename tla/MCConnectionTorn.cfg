CONSTANTS
  Message <- Words
  Junk = {0, 1}
  Torn = TRUE
  MaxSends = 2
SPECIFICATION Spec
INVARIANT WholeMessages
CHECK_DEADLOCK FALSE
