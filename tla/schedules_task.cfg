SPECIFICATION Spec
CONSTANTS
  s1 = s1
  s2 = s2
  Subs = {s1}
  Rules <- OneShots
  Horizon = 3
  Budget <- OneEdit
  Quota = 1
INVARIANTS TaskHappens
CHECK_DEADLOCK FALSE
