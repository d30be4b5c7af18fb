CONSTANTS
  c1 = c1
  c2 = c2
  m1 = m1
  m2 = m2
  Loop = Loop
  Channels <- TwoChannels
  Manual <- TwoJobs
SPECIFICATION Spec
INVARIANTS TypeOK ExclusiveUnlessLapsed CycleSpacing
CONSTRAINT Small
SYMMETRY Symmetry
