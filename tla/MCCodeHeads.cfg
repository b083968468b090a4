CONSTANTS
  t = t
  u = u
  Terms = {t, u}
  None = None
  Literals <- MCLiterals
  Names <- MCNames
  IriLo = 3
  BlankLo = 5
  Places <- MCPlaces
  Queries <- MCQueries
  ChunkStart = 1
  ChunkMax = 2
SPECIFICATION Spec
INVARIANTS
  OneRepresentative
  HeadIsRdflibs
  GroupsAreTerms
CHECK_DEADLOCK FALSE
