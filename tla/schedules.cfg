SPECIFICATION FairSpec
CONSTANTS
  s1 = s1
  s2 = s2
  Subs = {s1, s2}
  Rules <- SomeRules
  Horizon = 3
  Budget <- AnyFault
  Quota = 2
INVARIANTS TypeOK HeapMatchesRows
PROPERTIES NoReplay ImplementsTimetable OverdueIsServed
CHECK_DEADLOCK FALSE
