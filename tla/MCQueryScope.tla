---------------------------- MODULE MCQueryScope ----------------------------
EXTENDS QueryScope, TLC

CONSTANTS t1, t2, q1, q2, c1, c2

TwoThreads == {t1, t2}
TwoQueries == {q1, q2}
TwoTokens == {c1, c2}

Interchangeable ==
  Permutations(Threads) \cup Permutations(Queries) \cup Permutations(Tokens)
=============================================================================
