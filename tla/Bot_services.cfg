CONSTANTS
  a1 = a1
  o1 = o1
  o2 = o2
  j1 = j1
  j2 = j2
  l1 = l1
  Boot = Boot
  None = None
  Accounts <- OneAccount
  Objects <- TwoObjects
  Calls <- TwoCalls
  Loops <- OneLoop
  g1 = g1
  g2 = g2
  Asks <- TwoAsks
  Cooldown = 2
  LastTick = 5
  Never = Never
SPECIFICATION BotSpec
INVARIANTS BotTypeOK AnsweredOnce StoppedIsSilent
PROPERTIES LossNoticed QuietAfterRefusal CallEnds
CHECK_DEADLOCK FALSE
