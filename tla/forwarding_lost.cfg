SPECIFICATION FairSpec
CONSTANTS
  Clients = {1, 2, 3}
  RingCap = 3
  MaxRuns = 2
  MaxText = 1
  Budget <- NoFault
  Quota = 2
PROPERTIES EveryRunAnswered
CHECK_DEADLOCK FALSE
