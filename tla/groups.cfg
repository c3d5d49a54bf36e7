SPECIFICATION FairSpec
CONSTANTS
  a = a
  b = b
  person = person
  Members = {a, b}
  Person = person
  MaxHops = 2
  MaxRows = 4
  MaxSpoken = 1
  MaxTurns = 2
  MaxSegs = 2
  Budget <- AnyFault
  Quota = 2
INVARIANTS TypeOK SaidOnce HandedInOrder AgentsFallSilent
PROPERTIES PassedOverSleeps EveryPostReachesAll
CHECK_DEADLOCK FALSE
