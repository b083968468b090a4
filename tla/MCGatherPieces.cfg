CONSTANTS
  MaxRows = 5
  MaxGrouped = 2
  PairBudgets = {0, 1, 3}
  PieceRows = 4
SPECIFICATION Spec
INVARIANTS
  TypeOK
  PiecesWithinBudget
  PiecesInOrder
  NoPairLost
  CancelStopsWithinAPiece
PROPERTIES
  NextReturns
  IsJoinStream
CHECK_DEADLOCK FALSE
