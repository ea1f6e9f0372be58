CONSTANTS
  q1 = q1
  q2 = q2
  q3 = q3
  q4 = q4
  NoExpiry = NoExpiry
  Requests = {q1, q2, q3, q4}
  Limit = 1
  Window = 4
  MaxDelay = 1
  Grain = 2
  MaxTime = 6
  MaxFaults = 1
SPECIFICATION Spec
SYMMETRY Symmetry
INVARIANTS
  TypeOK
  
  RefusedOnlyWhenBusy
  KeyIsReaped
CHECK_DEADLOCK FALSE
