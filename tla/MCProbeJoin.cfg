CONSTANTS
  MaxRows = 4
  MaxMatches = 2
  Caps = {0, 2}
  ProbeBatch = 3
  ScanBatchMin = 2
  MemoryScanBatchMin = 3
  CheapBatchMin = 3
  Ahead = 2
SPECIFICATION Spec
INVARIANTS
  DoneIsJoin
  HeldWithinCap
  NothingInFlight
  OneSentAfterCancel
PROPERTIES
  JoinEnds
CHECK_DEADLOCK FALSE
