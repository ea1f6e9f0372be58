CONSTANTS
  n1 = n1
  o1 = o1
  c1 = c1
  c2 = c2
  status = status
  NoReplica = NoReplica
  NoOrder = NoOrder
  Replicas = {n1}
  Topics = {status}
  Orders = {o1}
  Conns = {c1, c2}
  MaxEvents = 2
  MaxFaults = 1
SPECIFICATION FairSpec
INVARIANTS
  TypeOK
  SubscribersServed
  HubMatchesHandlers
PROPERTIES
  DroppedIsForgotten
  EventuallyBroadcast
CHECK_DEADLOCK FALSE
