CONSTANTS
  RRs <- MCRRs
  TTLs = {0, 2}
  CacheSizeMax = 1
  MaxTime = 2
  Nodes = {n1, n2, n3}
  Dummy = Dummy
  NULL = NULL
SPECIFICATION Spec
SYMMETRY Symmetry
INVARIANTS TypeOK NoUseAfterFree ListWellFormed
PROPERTY ImplementsCache
