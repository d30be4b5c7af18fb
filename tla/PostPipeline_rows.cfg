CONSTANTS
  p1 = p1
  p2 = p2
  c1 = c1
  c2 = c2
  r1 = r1
  Sweeper = Sweeper
  Posts <- TwoPosts
  Channels <- TwoChannels
  Requests = {r1}
  WorkerConfigured = FALSE
  MaxRequests = 1
  MaxPauses = 1
  MaxFaults = 1
SPECIFICATION Spec
CHECK_DEADLOCK FALSE
INVARIANTS TypeOK PublishedWasSent CountBacked DeliveredOnce
PROPERTY ImplementsOutbox
CONSTRAINT Small
SYMMETRY Symmetry
