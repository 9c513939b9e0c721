CONSTANTS
  Workers = {w1, w2}
  Jobs = {j1, j2, j3}
  Capacity = 1
  NoJob = NoJob
  Clients = {c1, c2}
  c1 = c1
  c2 = c2
  Packets <- MCPackets
  MaxFd = 2
  MaxSize = 2
  None = None
SPECIFICATION FairSpec
INVARIANTS TypeOK ReplyToAsker SessionOwnsItsFd OrphansExplained
PROPERTY QueuedIsTaken
