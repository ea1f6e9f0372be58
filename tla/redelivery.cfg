CONSTANTS
  o1 = o1
  r1 = r1
  r2 = r2
  w1 = w1
  q1 = q1
  q2 = q2
  p1 = p1
  NoRider = NoRider
  Orders = {o1}
  Riders = {r1, r2}
  Workers = {w1}
  Requests = {}
  RiderRequests = {p1}
  Limit = 1
  MaxFaults = 0
  MaxStints = 2
  MaxDeliveries = 2
  CoordsGiven = {TRUE, FALSE}
  MaxRows = 4
SPECIFICATION Spec
INVARIANT AssignedOnce
CHECK_DEADLOCK FALSE
