SPECIFICATION Spec
CONSTANTS
  Clients = {c1}
  Workers = {w1, w2}
  MaxEvents = 2
INVARIANTS FreedOnce
CHECK_DEADLOCK FALSE
