CONSTANTS
  MaxRows = 4
  MaxExtends = 2
  NoStop = NoStop
  Windows <- Heads
  ChunkStart = 1
  ChunkMax = 3
SPECIFICATION Spec
INVARIANTS
  DeliversWindow
  CancelStopsWithinAChunk
  DecodesOnlyReached
CHECK_DEADLOCK FALSE
