CONSTANTS
  Workers = {w1}
  Queries <- OneName
  Ids = {1, 2}
  DB <- MCDB
  Upstream <- MCUpstream
  BadNames <- MCBadNames
  Faults = {}
  AnCountMax = 3
  NoRR = NoRR
  NoReply = NoReply
  RRs <- MCRRs
  TTLs = {1}
  CacheSizeMax = 2
  MaxTime = 2
SPECIFICATION Spec
INVARIANT NoRecordOutlivesTtl
