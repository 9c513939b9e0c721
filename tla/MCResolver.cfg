CONSTANTS
  Workers = {w1, w2}
  Queries <- MCQueries
  Ids = {1, 2}
  DB <- MCDB
  Upstream <- MCUpstream
  BadNames <- MCBadNames
  Faults = {"socket", "option", "truncated"}
  AnCountMax = 3
  NoRR = NoRR
  NoReply = NoReply
  RRs <- MCRRs
  TTLs = {1}
  CacheSizeMax = 1
  MaxTime = 1
SPECIFICATION FairSpec
INVARIANTS TypeOK CacheHoldsUpstreamOnly AnswersBelongToQuery RelayNameAnsweredHere
INVARIANTS ForeignIdIsLocal OneQuestionIsFilled
PROPERTY QueryIsAnswered
