SPECIFICATION FairSpec
CONSTANTS
  o1 = o1
  s1 = s1
  Runs = {o1, s1}
  Once = {o1}
  Cap = 1
  Quota = 1
  Budget <- CrashOrTurn
INVARIANTS TypeOK HandedOnce NothingStranded Accounted
PROPERTIES EventuallyClaimed EventuallyTold
CHECK_DEADLOCK FALSE
