CONSTANTS
  Vars = {"x", "y"}
  Codes = {1, 2, 3}
  Graphs = {1, 2}
  Unnamable = {3}
  Union = 0
  Cases <- AllCases
  Patterns <- AllPatterns
  Single <- OneTriple
  PatternVars <- VarsOfPattern
  Conjuncts <- AllConjuncts
  Reads <- ReadBy
  Passes <- PassedBy
SPECIFICATION Spec
INVARIANTS
  AnswerIsRdflib
  UnboundIsDeclared
  UnboundIsForeseen
