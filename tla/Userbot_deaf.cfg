CONSTANTS
  a1 = a1
  o1 = o1
  o2 = o2
  j1 = j1
  j2 = j2
  l1 = l1
  Boot = Boot
  None = None
  Accounts <- OneAccount
  Objects <- TwoObjects
  Calls <- OneCall
  Loops <- OneLoop
SPECIFICATION MSpec
INVARIANT SkippedClientHasHandlers
CHECK_DEADLOCK FALSE
