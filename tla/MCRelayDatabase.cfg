CONSTANTS
  Names <- MCNames
  Types = {"A", "AAAA"}
  Datas = {1, 2, 3}
  Lower <- MCLower
  Hash <- MCHash
  Buckets = {0, 1}
  HashSwitchThreshold = 1
  RRCntMax = 2
  LongNames <- MCLong
  Lines <- MCLines
  Missing = Missing
  BadAddr = BadAddr
  Garbage <- MCGarbage
  LongLines <- MCLongLines
  MaxLines = 4
CHECK_DEADLOCK FALSE
SPECIFICATION Spec
INVARIANTS TypeOK TreeConsistent RecordsComeFromFile
PROPERTY ImplementsMap
