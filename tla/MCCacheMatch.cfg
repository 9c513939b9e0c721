CONSTANTS
  RRs <- MCRRs
  TTLs = {0, 2}
  CacheSizeMax = 2
  MaxTime = 3
SPECIFICATION RecencySpec
PROPERTY PutIsStored
