CONSTANTS
  o1 = o1
  o2 = o2
  r1 = r1
  r2 = r2
  w1 = w1
  w2 = w2
  p1 = p1
  NoRider = NoRider
  Orders = {o1, o2}
  Riders = {r1, r2}
  Workers = {w1, w2}
  Requests = {}
  RiderRequests = {p1}
  Limit = 2
  MaxFaults = 1
  MaxStints = 1
  MaxDeliveries = 1
  CoordsGiven = {TRUE, FALSE}
  MaxRows = 4
SPECIFICATION Spec
SYMMETRY Symmetry
INVARIANTS
  OutboxMirrorsOrder
  ClaimOncePerStint
  NoRiderOverlooked
  ClaimsPerDelivery
CHECK_DEADLOCK FALSE
