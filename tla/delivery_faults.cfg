SPECIFICATION Spec
CONSTANTS
  o1 = o1
  s1 = s1
  Runs = {o1, s1}
  Once = {o1}
  Cap = 1
  Quota = 2
  Budget <- AnyFault
INVARIANTS NeverResurrected ClosedNeverHanded SpentMeansClaimed
PROPERTIES ImplementsLedger OneShotNeverDropped
CHECK_DEADLOCK FALSE
