CONSTANTS
  c1 = c1
  c2 = c2
  NoMember = NoMember
  Members = {c1, c2}
  MaxMessages = 3
  MaxFaults = 1
SPECIFICATION Spec
INVARIANT FailedIsRedelivered
CHECK_DEADLOCK FALSE
