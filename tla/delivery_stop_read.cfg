SPECIFICATION Spec
CONSTANTS
  o1 = o1
  s1 = s1
  Runs = {o1, s1}
  Once = {o1}
  Cap = 1
  Quota = 3
  Budget <- StopTurn
INVARIANTS Accounted
CHECK_DEADLOCK FALSE
