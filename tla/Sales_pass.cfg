CONSTANTS
  x1 = x1
  x2 = x2
  t1 = t1
  t2 = t2
  d1 = d1
  d2 = d2
  f1 = f1
  Handlers <- TwoHandlersD
  Talks <- TwoTalks
  Leads <- TwoLeads
  Facts = {f1}
  MaxScore = 1
  Nil = Nil
SPECIFICATION DSpec
INVARIANTS DialogTypeOK OneOfEach
PROPERTY ScoreNeverFalls
SYMMETRY DSymmetry
CHECK_DEADLOCK FALSE
