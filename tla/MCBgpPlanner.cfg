CONSTANTS
  NPatterns = 5
  Codes = {1, 2}
  VarAt <- BlockAt
  Quad <- BlockQuad
  PointWhen <- BlockPoints
  TupleVars <- XZ
  Keeps <- OneWOrNone
  Alloweds <- OneX
  Meanings <- XZMeanings
  PairBudgets = {1, 4}
  Fanouts = {1, 2}
  BatchMins = {2, 4}
SPECIFICATION Spec
INVARIANTS
  AnswerDelivered
  RelationIsPrefix
  BuiltWithinBudget
  PutBackIsOver
  OnePutBack
PROPERTIES
  PlanAdvances
