CONSTANTS
  Message <- Words
  Junk = {0}
  Torn = FALSE
  MaxSends = 3
  LongOctets = 3
  LongIsWide = TRUE
  Garbage = 0
  Field <- Fields
  MaxFields = 2
SPECIFICATION ExchangeSpec
INVARIANTS
  TypeOK
  FramesAligned
  FieldsArrive
PROPERTIES
  ImplementsChannel
  EverythingArrives
CHECK_DEADLOCK FALSE
