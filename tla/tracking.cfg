CONSTANTS
  c1 = c1
  c2 = c2
  r1 = r1
  NoMember = NoMember
  NoRider = NoRider
  Members = {c1, c2}
  Riders = {r1}
  MaxMessages = 2
  MaxFaults = 1
  MaxOrders = 2
  MaxChanges = 3
SPECIFICATION TrackingFairSpec
INVARIANTS
  TrackingTypeOK
  CommittedWasTried
  PositionWasTried
  FailedPassedByLater
  TargetFollowsPickup
  NoEtaAfterEnd
  RowWasAnnounced
PROPERTIES
  OlderOnlyOnRepeat
  EventuallyTried
  EtaCatchesUp
CHECK_DEADLOCK FALSE
