CONSTANTS
  Workers = {w1}
  Queries <- OneName
  Ids = {1, 2}
  DB <- MCDB
  Upstream <- MCUpstream
  BadNames <- MCBadNames
  Faults = {"truncated", "id"}
  AnCountMax = 3
  NoRR = NoRR
  NoReply = NoReply
  RRs <- MCRRs
  TTLs = {1}
  CacheSizeMax = 2
  MaxTime = 1
SPECIFICATION Spec
INVARIANT ReplyHasQueryId
