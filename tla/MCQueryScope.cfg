CONSTANTS
  t1 = t1
  t2 = t2
  q1 = q1
  q2 = q2
  c1 = c1
  c2 = c2
  None = None
  Kept = Kept
  Threads <- TwoThreads
  Queries <- TwoQueries
  Tokens <- TwoTokens
  Tracings = {FALSE, TRUE}
  MaxDepth = 3
SPECIFICATION Spec
SYMMETRY Interchangeable
INVARIANTS
  RunsUnderItsOwn
  NothingLeaks
  ScopeInOneThread
  ClearedAtEnd
  TracedAsItself
CHECK_DEADLOCK FALSE
