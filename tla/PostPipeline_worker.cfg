CONSTANTS
  p1 = p1
  p2 = p2
  c1 = c1
  c2 = c2
  r1 = r1
  Sweeper = Sweeper
  Posts = {p1}
  Channels = {c1}
  Requests = {r1}
  WorkerConfigured = TRUE
  MaxRequests = 0
  MaxPauses = 0
  MaxFaults = 0
SPECIFICATION FairSpec
CHECK_DEADLOCK FALSE
PROPERTY DuePostProcessed
