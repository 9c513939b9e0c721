CONSTANTS
  RRs <- MCRRs
  TTLs = {0, 1, 2}
  CacheSizeMax = 2
  MaxTime = 3
SPECIFICATION MCFairSpec
INVARIANTS TypeOK NoDuplicates TtlIsFresh LastPutFirst
PROPERTIES LeastRecentEvicted ExpiredIsRemoved
