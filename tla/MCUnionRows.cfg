CONSTANTS
  Triples = {a, b, c}
  NoTriple = NoTriple
  MaxMatched = 6
SPECIFICATION UnionSpec
INVARIANTS
  KeepsFirstRows
  YieldsEachTripleOnce
CHECK_DEADLOCK FALSE
