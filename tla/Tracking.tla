------------------------------ MODULE Tracking ------------------------------
(***************************************************************************)
(* How a rider's position becomes the ETA a customer sees: location-       *)
(* service publishes rider.location.updated, the replicas of eta-service   *)
(* are the members of the consumer group (KafkaConsumer), and OnLocation   *)
(* is the handler of each message: it reads the rider's active order,      *)
(* writes orders.eta_minutes and publishes eta.updated, in three calls.    *)
(*                                                                         *)
(* The rows of orders change under its feet.  They are modelled by what    *)
(* OnLocation tells apart: PLACED stands for ACCEPTED and PREPARING too,   *)
(* DELIVERED for CANCELLED too.  Every status an order-service request may *)
(* write is allowed, also the ones a request validated against an older    *)
(* row, which are recorded in history.                                     *)
(*                                                                         *)
(* A distance is not computed: an ETA is the position it was computed from *)
(* and the end it was measured to.                                         *)
(***************************************************************************)
EXTENDS KafkaConsumer

CONSTANTS
  Riders,
  NoRider,    \* rider_id is NULL
  MaxOrders,  \* bound: orders ever placed; they are numbered by created_at
  MaxChanges  \* bound: claims and status changes

ASSUME NoRiderAssumption == NoRider \notin Riders
ASSUME RowsAssumption == MaxOrders \in Nat /\ MaxChanges \in Nat

VARIABLES
  position,   \* position[m]: the rider whose position message m reports
  orders,     \* orders[o]: [status, rider]
  eta,        \* eta[o]: orders.eta_minutes, as [msg, target]; msg = 0 is NULL
  job,        \* job[c]: where OnLocation is at replica c, [step, order, target]
  announced,  \* eta.updated: [order, msg, target] of the events published
  history,    \* history[o]: [pickedAt, endedAt, stale]: the messages sent before
              \* the pickup and before the end; whether the row went back
  changes,    \* claims and status changes so far
  cut         \* messages a replica died on while it handled them

trackingVars ==
  <<vars, position, orders, eta, job, announced, history, changes, cut>>

Orders == 1..MaxOrders
NoOrder == 0
Statuses == {"PLACED", "PICKED_UP", "DELIVERED"}
Targets == {"pickup", "dropoff"}
NoJob == [step |-> "lookup", order |-> NoOrder, target |-> "pickup"]

\* No message is sent after a moment that has not come.
Never == MaxMessages + 1

\* The types of the consumer group, the rows, the handlers and the events.
TrackingTypeOK ==
  /\ TypeOK
  /\ position \in [Messages -> Riders \union {NoRider}]
  /\ orders \in [Orders -> [status : Statuses, rider : Riders \union {NoRider}]]
  /\ eta \in [Orders -> [msg : 0..MaxMessages, target : Targets]]
  /\ job \in [Members -> [step   : {"lookup", "update", "publish"},
                          order  : Orders \union {NoOrder},
                          target : Targets]]
  /\ announced \subseteq [order : Orders, msg : Messages, target : Targets]
  /\ history \in [Orders -> [pickedAt : 0..Never, endedAt : 0..Never,
                             stale : BOOLEAN]]
  /\ changes \in 0..MaxChanges
  /\ cut \subseteq Messages

TrackingInit ==
  /\ Init
  /\ position = [m \in Messages |-> NoRider]
  /\ orders = [o \in Orders |-> [status |-> "PLACED", rider |-> NoRider]]
  /\ eta = [o \in Orders |-> [msg |-> 0, target |-> "pickup"]]
  /\ job = [c \in Members |-> NoJob]
  /\ announced = {}
  /\ history = [o \in Orders |->
       [pickedAt |-> Never, endedAt |-> Never, stale |-> FALSE]]
  /\ changes = 0
  /\ cut = {}

rows == <<orders, history, changes>>
notGroup == <<position, rows, eta, job, announced, cut>>

-----------------------------------------------------------------------------
(* location-service *)

\* UpdateLocation: the session of a rider reads a position and publishes it.
\* A publish whose answer is lost is the same step; one that fails before the
\* broker has the message, and a failed GEOADD before it, leave no trace here.
UpdateLocation(r) ==
  /\ Produce
  /\ position' = [position EXCEPT ![produced + 1] = r]
  /\ UNCHANGED <<rows, eta, job, announced, cut>>

-----------------------------------------------------------------------------
(* The rows of orders, as the other services change them. *)

Change ==
  /\ changes < MaxChanges
  /\ changes' = changes + 1

\* claimRider writes rider_id, whatever the status of the order, and also
\* when the order or the rider has another one.
Claim(o, r) ==
  /\ orders[o].rider # r
  /\ Change
  /\ orders' = [orders EXCEPT ![o].rider = r]
  /\ UNCHANGED <<vars, position, eta, job, announced, history, cut>>

\* A status request.  It is stale when it leads back, as a request does that
\* read the row before another one wrote it.
UpdateStatus(o, s) ==
  /\ orders[o].status # s
  /\ Change
  /\ orders' = [orders EXCEPT ![o].status = s]
  /\ history' = [history EXCEPT ![o] =
       [pickedAt |-> IF s = "PICKED_UP" /\ @.pickedAt = Never THEN produced ELSE @.pickedAt,
        endedAt  |-> IF s = "DELIVERED" /\ @.endedAt = Never THEN produced ELSE @.endedAt,
        stale    |-> @.stale \/ s = "PLACED" \/ orders[o].status = "DELIVERED"]]
  /\ UNCHANGED <<vars, position, eta, job, announced, cut>>

-----------------------------------------------------------------------------
(* eta-service *)

\* Mutant of Active: orders that are over are not filtered out.
ActiveAny(r) == {o \in Orders : orders[o].rider = r}

Active(r) ==
  {o \in Orders : orders[o].rider = r /\ orders[o].status # "DELIVERED"}

\* activeOrderForRider: ORDER BY created_at DESC LIMIT 1.
IsActiveOrder(o, r) == o \in Active(r) /\ \A p \in Active(r) : p <= o

\* Mutant of Target: the switch is on the wrong status.
TargetSwapped(o) == IF orders[o].status = "PLACED" THEN "dropoff" ELSE "pickup"

Target(o) == IF orders[o].status = "PICKED_UP" THEN "dropoff" ELSE "pickup"

OnMessage(c, step) == members[c].pc = "handle" /\ job[c].step = step

\* Mutant of LookupNone: only an order that was picked up counts.
LookupNoneUnlessPickedUp(c) ==
  /\ OnMessage(c, "lookup")
  /\ \A o \in Active(position[members[c].msg]) : orders[o].status # "PICKED_UP"
  /\ HandlerOk(c)
  /\ UNCHANGED notGroup

\* The rider has no active order: the message is done.
LookupNone(c) ==
  /\ OnMessage(c, "lookup")
  /\ Active(position[members[c].msg]) = {}
  /\ HandlerOk(c)
  /\ UNCHANGED notGroup

Lookup(c) ==
  /\ OnMessage(c, "lookup")
  /\ \E o \in Orders :
       /\ IsActiveOrder(o, position[members[c].msg])
       /\ job' = [job EXCEPT ![c] =
            [step |-> "update", order |-> o, target |-> Target(o)]]
  /\ UNCHANGED <<vars, position, rows, eta, announced, cut>>

\* UPDATE orders SET eta_minutes: it names the id only.
UpdateEta(c) ==
  /\ OnMessage(c, "update")
  /\ eta' = [eta EXCEPT ![job[c].order] =
       [msg |-> members[c].msg, target |-> job[c].target]]
  /\ job' = [job EXCEPT ![c].step = "publish"]
  /\ UNCHANGED <<vars, position, rows, announced, cut>>

\* Mutant of Announcement: the order id is not filled in.
AnnouncementNoOrder(c) ==
  [order |-> NoOrder, msg |-> members[c].msg, target |-> job[c].target]

Announcement(c) ==
  [order |-> job[c].order, msg |-> members[c].msg, target |-> job[c].target]

PublishEta(c) ==
  /\ OnMessage(c, "publish")
  /\ announced' = announced \union {Announcement(c)}
  /\ job' = [job EXCEPT ![c] = NoJob]
  /\ HandlerOk(c)
  /\ UNCHANGED <<position, rows, eta, cut>>

\* Mutant of OnLocationError: a failed publish is logged and not returned.
OnLocationErrorSwallowed(c) ==
  /\ OnMessage(c, "publish") /\ HandlerOk(c)
  /\ job' = [job EXCEPT ![c] = NoJob]
  /\ UNCHANGED <<position, rows, eta, announced, cut>>

\* Any of the three calls fails, before or after it took effect, and
\* OnLocation returns the error.
OnLocationError(c) ==
  /\ HandlerError(c)
  /\ \/ job[c].step = "lookup" /\ UNCHANGED <<eta, announced>>
     \/ /\ job[c].step = "update"
        /\ eta' \in {eta, [eta EXCEPT ![job[c].order] =
                       [msg |-> members[c].msg, target |-> job[c].target]]}
        /\ UNCHANGED announced
     \/ /\ job[c].step = "publish"
        /\ announced' \in {announced, announced \union {Announcement(c)}}
        /\ UNCHANGED eta
  /\ job' = [job EXCEPT ![c] = NoJob]
  /\ UNCHANGED <<position, rows, cut>>

-----------------------------------------------------------------------------
(* The consumer group and the replicas. *)

\* Fetching, committing and rebalancing leave the handlers alone.
Group ==
  /\ \/ RevokePartition
     \/ \E c \in Members :
          AssignPartition(c) \/ FetchMessage(c) \/ CommitMessages(c) \/ CommitError(c)
  /\ UNCHANGED notGroup

\* A replica dies, with the handler it is in.
Die(c) ==
  /\ Restart(c)
  /\ job' = [job EXCEPT ![c] = NoJob]
  /\ cut' = IF members[c].pc = "handle" THEN cut \union {members[c].msg} ELSE cut
  /\ UNCHANGED <<position, rows, eta, announced>>

OnLocation(c) ==
  \/ LookupNone(c)
  \/ Lookup(c)
  \/ UpdateEta(c)
  \/ PublishEta(c)

TrackingNext ==
  \/ \E r \in Riders : UpdateLocation(r)
  \/ \E o \in Orders, r \in Riders : Claim(o, r)
  \/ \E o \in Orders, s \in Statuses : UpdateStatus(o, s)
  \/ Group
  \/ \E c \in Members : OnLocation(c) \/ OnLocationError(c) \/ Die(c)

TrackingSpec == TrackingInit /\ [][TrackingNext]_trackingVars

\* As for the consumer loop: it fetches, its handler's calls return, it
\* commits; and the group gives an unowned partition to some member.
TrackingFairSpec ==
  /\ TrackingSpec
  /\ WF_trackingVars(\E c \in Members : AssignPartition(c) /\ UNCHANGED notGroup)
  /\ \A c \in Members : WF_trackingVars(
       \/ OnLocation(c)
       \/ (FetchMessage(c) \/ CommitMessages(c)) /\ UNCHANGED notGroup)

-----------------------------------------------------------------------------
(* What holds, although the handler's three calls and the row interleave. *)

\* What a member, a row or an event says an ETA of order o from message m was
\* measured to.
EtaClaims ==
  announced
    \union {[order |-> o, msg |-> eta[o].msg, target |-> eta[o].target] :
              o \in {p \in Orders : eta[p].msg # 0}}

\* A position that was sent after the order was picked up is measured to the
\* dropoff, and the dropoff is never used for an order that was not picked
\* up, however late the handler runs and however often it is repeated;
\* unless a stale request moved the order back.
TargetFollowsPickup ==
  \A a \in EtaClaims : ~history[a.order].stale =>
    /\ a.msg > history[a.order].pickedAt => a.target = "dropoff"
    /\ a.target = "dropoff" => history[a.order].pickedAt # Never

\* A position that was sent after the order was over gives it no ETA, in the
\* row or in an event, unless a stale request revived the order.
NoEtaAfterEnd ==
  \A a \in EtaClaims : a.msg > history[a.order].endedAt => history[a.order].stale

\* The ETA in the row is the one its customer was told, or is about to be
\* told, unless a handler of that very position failed or died.
RowWasAnnounced ==
  \A o \in Orders : eta[o].msg # 0 =>
    \/ [order |-> o, msg |-> eta[o].msg, target |-> eta[o].target] \in announced
    \/ eta[o].msg \in failed \union cut
    \/ \E c \in Members :
         /\ OnMessage(c, "publish")
         /\ members[c].msg = eta[o].msg
         /\ job[c].order = o /\ job[c].target = eta[o].target

\* "Partition by rider_id so ETA service sees their updates in order"
\* (location/service.go): an ETA is replaced by one from an earlier position
\* only by a handler that repeats a position some handler was done with.
OlderOnlyOnRepeat ==
  [][\A o \in Orders : eta'[o].msg < eta[o].msg =>
       eta'[o].msg \in handled \union failed]_trackingVars

\* Every position of a rider who carries an order is told to a customer in
\* the end, unless a handler of the position failed or the rider's last
\* order ended in between.
EtaCatchesUp ==
  \A m \in Messages :
    /\ m <= produced
    /\ m \notin handled \union failed
    /\ Active(position[m]) # {}
    ~>
    \/ \E a \in announced : a.msg = m
    \/ m \in failed
    \/ Active(position[m]) = {}

-----------------------------------------------------------------------------
(***************************************************************************)
(* The inductive invariant the proofs use.                                 *)
(***************************************************************************)

\* The consumers and the history of the rows only know messages that exist.
OnlyProduced ==
  /\ committed <= produced
  /\ \A c \in Members : members[c].position <= produced
                       /\ members[c].msg <= produced

\* A handler under way has an order; without one there is nothing to go on.
JobsGrounded ==
  \A c \in Members :
    /\ members[c].pc # "handle" \/ job[c].step = "lookup" => job[c] = NoJob
    /\ job[c].step # "lookup" => job[c].order \in Orders

\* What the status of a row that never went back says of its past.
HistoryGrounded ==
  \A o \in Orders : ~history[o].stale =>
    /\ orders[o].status = "PICKED_UP" <=>
         history[o].pickedAt # Never /\ history[o].endedAt = Never
    /\ orders[o].status = "DELIVERED" <=> history[o].endedAt # Never

\* An ETA of order o from message m with target t is one the properties allow.
ClaimOK(o, m, t) ==
  /\ m \in 1..produced
  /\ ~history[o].stale =>
       /\ m > history[o].pickedAt => t = "dropoff"
       /\ t = "dropoff" => history[o].pickedAt # Never
  /\ m > history[o].endedAt => history[o].stale

\* Every ETA is allowed, whether it is in a handler's hands, in the row or
\* in an event.
ClaimsOK ==
  /\ \A c \in Members : job[c].step # "lookup" =>
       ClaimOK(job[c].order, members[c].msg, job[c].target)
  /\ \A o \in Orders : eta[o].msg # 0 => ClaimOK(o, eta[o].msg, eta[o].target)
  /\ \A a \in announced : ClaimOK(a.order, a.msg, a.target)

\* Everything before the position a row's ETA comes from was tried.
EtaInOrder ==
  \A o \in Orders : \A m \in 1..(eta[o].msg - 1) : Tried(m)

TrackingIInv ==
  /\ IInv
  /\ TrackingTypeOK
  /\ OnlyProduced
  /\ JobsGrounded
  /\ HistoryGrounded
  /\ ClaimsOK
  /\ RowWasAnnounced
  /\ EtaInOrder

=============================================================================
