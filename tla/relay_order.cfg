CONSTANTS
  k1 = k1
  k2 = k2
  p1 = p1
  p2 = p2
  Keys = {k1, k2}
  Relays = {p1, p2}
  BatchSize = 2
  MaxId = 3
  MaxFaults = 0
SPECIFICATION Spec
INVARIANT InOrder
CHECK_DEADLOCK FALSE
