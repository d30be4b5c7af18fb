CONSTANTS
  c1 = c1
  c2 = c2
  m1 = m1
  m2 = m2
  Loop = Loop
  Channels = {c1}
  Manual = {m1}
SPECIFICATION Spec
INVARIANT NoConcurrentPosts
