CONSTANTS
  Texts <- AllTexts
  Datatypes <- AllDatatypes
  TextRank <- RankOfText
  DtRank <- RankOfDt
  Dictionary <- AllTerms
  Foreign <- QueryTerms
  Context <- TheContext
  Filters <- ForeignFilters
  Tables <- ForeignTables
  Vars <- AllVars
  OutOfRange = TRUE
SPECIFICATION Spec
INVARIANT DroppedFail
CHECK_DEADLOCK FALSE
