SPECIFICATION FairSpec
CONSTANTS
  Clients = {1, 2, 3}
  RingCap = 2
  MaxRuns = 2
  MaxText = 2
  Budget <- AnyFault
  Quota = 3
INVARIANTS TypeOK OneLive ChainReaches OnceInOrder OneVoice NoGap
PROPERTIES HeardIsSent
CHECK_DEADLOCK FALSE
