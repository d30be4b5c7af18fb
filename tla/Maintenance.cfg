CONSTANTS
  p1 = p1
  p2 = p2
  c1 = c1
  c2 = c2
  r1 = r1
  Sweeper = Sweeper
  Posts <- TwoPosts
  Channels = {c1}
  Requests = {r1}
  WorkerConfigured = FALSE
  MaxRequests = 1
  MaxPauses = 1
  MaxFaults = 1
  Watch = Watch
  Losses = {c1}
  MaxDown = 1
SPECIFICATION DutiesSpec
CHECK_DEADLOCK FALSE
INVARIANT AlertsTypeOK
PROPERTIES DuePostSwept QuietHour LoadKeepsRinging
