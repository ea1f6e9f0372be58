CONSTANTS
  n1 = n1
  n2 = n2
  o1 = o1
  c1 = c1
  c2 = c2
  status = status
  NoReplica = NoReplica
  NoOrder = NoOrder
  Replicas = {n1, n2}
  Topics = {status}
  Orders = {o1}
  Conns = {c1}
  MaxEvents = 1
  MaxFaults = 0
SPECIFICATION Spec
INVARIANTS
  SubscribersServed
CHECK_DEADLOCK FALSE
