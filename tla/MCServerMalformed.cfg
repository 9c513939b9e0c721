CONSTANTS
  Workers = {w1}
  Jobs = {j1, j2}
  Capacity = 1
  NoJob = NoJob
  Clients = {c1, c2}
  c1 = c1
  c2 = c2
  Packets <- Short
  MaxFd = 1
  MaxSize = 1
  None = None
SPECIFICATION Spec
INVARIANT MalformedGetsError
