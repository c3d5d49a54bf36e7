CONSTANTS
  watch = watch
  task1 = task1
  w1 = w1
  w2 = w2
  t1 = t1
  t2 = t2
  Rules <- MCRules
  Once <- MCOnce
  Fires = {w1, t1, t2}
  RuleOf <- MCRuleOf
  Slots = 1
  Allowed = {"stop", "kill", "raise", "db", "reply", "again", "remove", "crash"}
  Quota = 2
SPECIFICATION FairSpec
CHECK_DEADLOCK FALSE
INVARIANTS TypeOK OneOutcome SlotsConserved RunningIsLive

PROPERTY EventuallyHandled
