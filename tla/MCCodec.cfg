CONSTANTS
  Nil = Nil
  NoTag = NoTag
  Failed = Failed
  TagBits = 32
  LenOctets = 3
  LongOctets = 2
  ArcOctets = 2
  Cases <- mcCases
  Names <- mcNames
  Unknown <- mcUnknown
  Encode <- Encoded
  LegalForms <- Encodings
  CanonicalForms <- Canonicals
  Decode <- Decoded
  Check <- Checked
  Valid <- IsValue
  Spellings <- mcSpellings
  LocalZone = 3600
  Trailer <- mcTrailer
  Piece = 3
  TmpSpace = 256
SPECIFICATION Spec
INVARIANTS ArrivesAsSent NeverRefused TakesItsOwnOctets WritesCanonically ChecksAreRight EstimatesAreExact
CHECK_DEADLOCK FALSE
