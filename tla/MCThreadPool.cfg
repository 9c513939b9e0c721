CONSTANTS
  Workers = {w1, w2}
  Jobs = {j1, j2, j3, j4, j5}
  NoJob = NoJob
  NThreadsMax = 2
  MaxExits = 2
SPECIFICATION FairSpec
INVARIANTS TypeOK RingConsistent JobInOnePlace FreeCountExact NoLostWakeup
PROPERTIES Implements AcceptedIsTaken
