CONSTANTS
  Texts <- AllTexts
  Datatypes <- AllDatatypes
  TextRank <- RankOfText
  DtRank <- RankOfDt
  Dictionary <- AllTerms
  Foreign <- QueryTerms
  Context <- TheContext
  Filters <- AllFilters
  Tables <- AllTables
  Vars <- AllVars
  OutOfRange = FALSE
SPECIFICATION Spec
INVARIANTS
  DroppedFail
  SettledHold
  FastAnswersAreRdflibs
CHECK_DEADLOCK FALSE
