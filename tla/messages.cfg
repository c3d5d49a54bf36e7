SPECIFICATION FairSpec
CONSTANTS
  m1 = m1
  m2 = m2
  m3 = m3
  Msgs = {m1, m2, m3}
  Cap = 1
  Budget <- AnyFault
INVARIANTS TypeOK OneCopy HiddenIsHeld ConsumedIsTraced
PROPERTIES EventuallyHeard EventuallyUnhidden
CHECK_DEADLOCK FALSE
