CONSTANTS
  Files = {"a", "b"}
  FileRows <- TwoFiles
  Calls = {c1, c2}
  Queries = {"q"}
  None = None
  Ground = {2}
  ChunkRows = 3
  ChunkStart = 1
  ChunkMax = 2
  OpensInQuery = FALSE
  MaxEpoch = 2
SPECIFICATION Spec
INVARIANTS
  RowsFromItsFile
  KeptIsTheOpenFiles
  DecodesOnlyReached
SYMMETRY Symmetry
CHECK_DEADLOCK FALSE
