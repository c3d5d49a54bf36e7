SPECIFICATION Spec
CONSTANTS
  a = a
  b = b
  person = person
  Members = {a, b}
  Person = person
  MaxHops = 2
  MaxRows = 3
  MaxSpoken = 1
  MaxTurns = 2
  MaxSegs = 2
  Budget <- NoFault
  Quota = 0
INVARIANTS SeatInOrder
CHECK_DEADLOCK FALSE
