------------------------------- MODULE Store -------------------------------
(***************************************************************************)
(* What the services share: the Postgres tables orders, riders,            *)
(* order_events and outbox (migrations/*.sql), and the Redis geo index     *)
(* "riders:geo".                                                           *)
(*                                                                         *)
(* A Postgres transaction of the code is one step.  Every transaction      *)
(* that writes an event first updates (or inserts) the row of the order it *)
(* is about and holds that row's lock until it commits, so the events of   *)
(* one order get their ids in commit order: outbox[o] and order_events[o]  *)
(* are the rows of order o in id order.                                    *)
(***************************************************************************)
EXTENDS Naturals, Sequences, OrderStateMachine

CONSTANTS
  Orders,    \* ids the orders table may ever hold
  Riders,    \* ids of riders, registered or not
  NoRider,   \* NULL in orders.rider_id
  MaxFaults  \* bound: failed calls and crashes in one behaviour

ASSUME NoRiderAssumption == NoRider \notin Riders
ASSUME MaxFaultsAssumption == MaxFaults \in Nat

VARIABLES
  orders,        \* orders[o]: [status, rider], status NoStatus before INSERT
  riders,        \* riders[r]: status column, "UNREGISTERED" before INSERT
  order_events,  \* order_events[o]: the audit rows of o
  outbox,        \* outbox[o]: the outbox rows of o, sent or not
  geo,           \* members of the Redis geo index
  stint,         \* stint[r]: how often r became AVAILABLE (history variable)
  faults         \* failures so far

tables == <<orders, order_events, outbox>>
storeVars == <<tables, riders, geo, stint, faults>>

RiderStatuses == {"AVAILABLE", "BUSY", "OFFLINE"}

(***************************************************************************)
(* An event as it is written to order_events and to the outbox.  `stint`   *)
(* stands for assigned_at: the period of availability of the rider that    *)
(* the assignment ended.  `reason` is the field only noRiderEvent has.     *)
(***************************************************************************)
Event ==
  [topic  : {"order.placed", "order.status.updated", "order.assigned"},
   status : Statuses \union {NoStatus},
   rider  : Riders \union {NoRider},
   stint  : Nat,
   reason : {"", "no rider available"}]

OrderPlacedEvent ==
  [topic |-> "order.placed", status |-> "PLACED", rider |-> NoRider,
   stint |-> 0, reason |-> ""]

StatusUpdatedEvent(s) ==
  [topic |-> "order.status.updated", status |-> s, rider |-> NoRider,
   stint |-> 0, reason |-> ""]

NoRiderEvent ==
  [topic |-> "order.status.updated", status |-> "CANCELLED",
   rider |-> NoRider, stint |-> 0, reason |-> "no rider available"]

OrderAssignedEvent(r, k) ==
  [topic |-> "order.assigned", status |-> NoStatus, rider |-> r,
   stint |-> k, reason |-> ""]

\* An event that reports the order's status, or the order's rider.
ReportsStatus(e) == e.status # NoStatus
ReportsRider(e) == e.rider # NoRider

Placed(o) == orders[o].status # NoStatus

\* outbox.Write and the INSERT INTO order_events, inside a transaction on o.
Write(o, e) == outbox' = [outbox EXCEPT ![o] = Append(@, e)]
Audit(o, e) == order_events' = [order_events EXCEPT ![o] = Append(@, e)]

\* A call to Postgres or Redis fails, or a process dies.
Fault ==
  /\ faults < MaxFaults
  /\ faults' = faults + 1

StoreTypeOK ==
  /\ orders \in [Orders -> [status : Statuses \union {NoStatus},
                            rider  : Riders \union {NoRider}]]
  /\ riders \in [Riders -> RiderStatuses \union {"UNREGISTERED"}]
  /\ order_events \in [Orders -> Seq(Event)]
  /\ outbox \in [Orders -> Seq(Event)]
  /\ geo \subseteq Riders
  /\ stint \in [Riders -> Nat]
  /\ faults \in 0..MaxFaults

StoreInit ==
  /\ orders = [o \in Orders |-> [status |-> NoStatus, rider |-> NoRider]]
  /\ riders = [r \in Riders |-> "UNREGISTERED"]
  /\ order_events = [o \in Orders |-> <<>>]
  /\ outbox = [o \in Orders |-> <<>>]
  /\ geo = {}
  /\ stint = [r \in Riders |-> 0]
  /\ faults = 0

=============================================================================
