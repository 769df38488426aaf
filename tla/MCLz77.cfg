SPECIFICATION Spec
CONSTANTS
  Values = {0, 1}
  MinSize = 4
  MaxSize = 14
  SmallSize = 4
  MatchTail = 3
  CompactLen = 4
  CompactDist = 1
  MediumDist = 2
  HighDist = 2
  LiteralField = 2
  MediumField = 2
  LongField = 2
  LengthStep = 2
INVARIANTS
  TypeOK
  RoundTrip
  ReaderInStep
  RefusedAtEndOnly
  StoredSizeIsExact
CHECK_DEADLOCK FALSE
