--------------------------- MODULE DispatchProofs ---------------------------
(***************************************************************************)
(* Proofs about the dispatch core, for any sets of orders, riders, workers *)
(* and request slots and any bounds.                                       *)
(***************************************************************************)
EXTENDS Dispatch, FiniteSetTheorems, TLAPS

\* The events the code writes are events.
LEMMA EventsTyped ==
  /\ OrderPlacedEvent \in Event
  /\ NoRiderEvent \in Event
  /\ \A s \in Statuses : StatusUpdatedEvent(s) \in Event
  /\ \A r \in Riders, k \in Nat : OrderAssignedEvent(r, k) \in Event
BY DEF Event, OrderPlacedEvent, NoRiderEvent, StatusUpdatedEvent,
       OrderAssignedEvent, Statuses

\* validTransitions only leads to statuses.
LEMMA TransitionsTyped ==
  ASSUME NEW s, NEW t, ValidateTransition(s, t)
  PROVE  s \in Statuses /\ t \in Statuses
BY DEF ValidateTransition, validTransitions, Statuses

\* A row appended to a log of events leaves a log of events.
LEMMA AppendTyped ==
  ASSUME NEW log \in [Orders -> Seq(Event)], NEW o \in Orders, NEW e \in Event
  PROVE  [log EXCEPT ![o] = Append(@, e)] \in [Orders -> Seq(Event)]
OBVIOUS

\* The steps of order-service keep every type.
LEMMA OrderServiceTypes ==
  ASSUME TypeOK, OrderServiceNext, UNCHANGED <<riderRequests, assignmentVars>>
  PROVE  TypeOK'
<1> USE DEF TypeOK
<1>1. ASSUME NEW o \in Orders, Place(o) PROVE TypeOK'
  <2>1. outbox' \in [Orders -> Seq(Event)]
    BY <1>1, EventsTyped, AppendTyped DEF StoreTypeOK, Place, Write
  <2>2. order_events' \in [Orders -> Seq(Event)]
    BY <1>1, EventsTyped, AppendTyped DEF StoreTypeOK, Place, Audit
  <2>3. orders' \in [Orders -> [status : Statuses \union {NoStatus},
                                rider  : Riders \union {NoRider}]]
    BY <1>1 DEF StoreTypeOK, Place, Statuses
  <2>4. StoreTypeOK'
    BY <1>1, <2>1, <2>2, <2>3 DEF StoreTypeOK, Place
  <2> QED BY <1>1, <2>4
          DEF Place, RequestsTypeOK, RiderRequestsTypeOK, WorkersTypeOK,
              assignmentVars
<1>2. ASSUME NEW q \in Requests, NEW o \in Orders, NEW to \in Statuses,
             Transition(q, o, to)
      PROVE  TypeOK'
  <2>1. orders[o].status \in Statuses
    BY <1>2, TransitionsTyped DEF Transition
  <2>2. RequestsTypeOK'
    BY <1>2, <2>1 DEF Transition, RequestsTypeOK
  <2> QED BY <1>2, <2>2
          DEF Transition, StoreTypeOK, RiderRequestsTypeOK, WorkersTypeOK,
              assignmentVars, storeVars, tables
<1>3. ASSUME NEW q \in Requests, UpdateStatus(q) PROVE TypeOK'
  <2>1. requests[q].order \in Orders /\ requests[q].to \in Statuses
    BY <1>3 DEF UpdateStatus, NoRequest, RequestsTypeOK
  <2>2. StatusUpdatedEvent(requests[q].to) \in Event
    BY <2>1, EventsTyped
  <2>3. outbox' \in [Orders -> Seq(Event)]
    BY <1>3, <2>1, <2>2, AppendTyped DEF StoreTypeOK, UpdateStatus, Write
  <2>4. order_events' \in [Orders -> Seq(Event)]
    BY <1>3, <2>1, <2>2, AppendTyped DEF StoreTypeOK, UpdateStatus, Audit
  <2>5. orders' \in [Orders -> [status : Statuses \union {NoStatus},
                                rider  : Riders \union {NoRider}]]
    BY <1>3, <2>1 DEF StoreTypeOK, UpdateStatus
  <2>6. StoreTypeOK'
    BY <1>3, <2>3, <2>4, <2>5 DEF StoreTypeOK, UpdateStatus
  <2> QED BY <1>3, <2>6
          DEF UpdateStatus, RequestsTypeOK, RiderRequestsTypeOK,
              WorkersTypeOK, assignmentVars
<1>4. ASSUME NEW q \in Requests, AbortRequest(q) PROVE TypeOK'
  BY <1>4 DEF AbortRequest, StoreTypeOK, RequestsTypeOK, RiderRequestsTypeOK,
              WorkersTypeOK, assignmentVars, storeVars, tables
<1> QED BY <1>1, <1>2, <1>3, <1>4 DEF OrderServiceNext

\* The steps of rider-service and location-service keep every type.
LEMMA RiderPoolTypes ==
  ASSUME TypeOK, RiderPoolNext, UNCHANGED <<requests, assignmentVars>>
  PROVE  TypeOK'
<1> USE DEF TypeOK
<1>1. ASSUME NEW r \in Riders, Register(r) PROVE TypeOK'
  BY <1>1 DEF Register, StoreTypeOK, RequestsTypeOK, RiderRequestsTypeOK,
              WorkersTypeOK, assignmentVars, tables, RiderStatuses
<1>2. ASSUME NEW r \in Riders, UpdateLocation(r) PROVE TypeOK'
  BY <1>2 DEF UpdateLocation, StoreTypeOK, RequestsTypeOK,
              RiderRequestsTypeOK, WorkersTypeOK, assignmentVars, tables
<1>3. ASSUME NEW q \in RiderRequests, NEW r \in Riders,
             NEW s \in RiderStatuses, NEW coords \in CoordsGiven,
             SetStatus(q, r, s, coords)
      PROVE  TypeOK'
  <2>1. riders' \in [Riders -> RiderStatuses \union {"UNREGISTERED"}]
    BY <1>3 DEF SetStatus, StoreTypeOK
  <2>2. stint' \in [Riders -> Nat]
    <3>1. stint' = stint \/ stint' = [stint EXCEPT ![r] = stint[r] + 1]
      BY <1>3 DEF SetStatus
    <3>2. stint \in [Riders -> Nat]
      BY DEF StoreTypeOK
    <3> QED BY <3>1, <3>2
  <2>3. RiderRequestsTypeOK'
    BY <1>3 DEF SetStatus, RiderRequestsTypeOK
  <2> QED BY <1>3, <2>1, <2>2, <2>3
          DEF SetStatus, StoreTypeOK, RequestsTypeOK, WorkersTypeOK,
              assignmentVars, tables
<1>4. ASSUME NEW q \in RiderRequests, SyncGeo(q) PROVE TypeOK'
  <2>1. riderRequests[q].rider \in Riders
    BY <1>4 DEF SyncGeo, NoRiderRequest, RiderRequestsTypeOK
  <2> QED BY <1>4, <2>1
          DEF SyncGeo, StoreTypeOK, RequestsTypeOK, RiderRequestsTypeOK,
              WorkersTypeOK, assignmentVars, tables
<1>5. ASSUME NEW q \in RiderRequests, SyncGeoFail(q) PROVE TypeOK'
  BY <1>5, MaxFaultsAssumption
     DEF SyncGeoFail, Fault, StoreTypeOK, RequestsTypeOK,
         RiderRequestsTypeOK, WorkersTypeOK, assignmentVars, tables
<1> QED BY <1>1, <1>2, <1>3, <1>4, <1>5 DEF RiderPoolNext, RiderServiceNext,
     LocationServiceNext

\* What the search returns is a sequence of riders.
LEMMA CandidatesTyped ==
  ASSUME StoreTypeOK, NEW c \in nearestAvailableRiders
  PROVE  c \in Seq(Riders)
<1>1. PICK n \in 0..Limit : c \in [1..n -> geo]
  BY DEF nearestAvailableRiders
<1>2. n \in Nat
  BY LimitAssumption
<1>3. c \in [1..n -> Riders]
  BY <1>1 DEF StoreTypeOK
<1> QED BY <1>2, <1>3

\* A worker that is not idle runs an assignment; one that claims, or that
\* removes a rider from the index, has a rider at the head of its list.
LEMMA WorkerTyped ==
  ASSUME WorkersTypeOK, NEW w \in Workers, workers[w] # NoWork
  PROVE  /\ workers[w] \in Assignments
         /\ workers[w].pc \in {"claim", "zrem"} =>
              /\ Head(workers[w].todo) \in Riders
              /\ Tail(workers[w].todo) \in Seq(Riders)
<1>1. workers[w] \in Assignments
  BY DEF WorkersTypeOK
<1>2. ASSUME workers[w].pc \in {"claim", "zrem"}
      PROVE  workers[w].todo \in Seq(Riders) /\ workers[w].todo # <<>>
  BY <1>1, <1>2 DEF WorkersTypeOK, Assignments
<1> QED BY <1>1, <1>2

\* Changing one worker's record for a well-formed one keeps the type.
LEMMA WorkerUpdateTyped ==
  ASSUME WorkersTypeOK, NEW w \in Workers,
         NEW a \in {NoWork} \union Assignments,
         a.todo # <<>> <=> a.pc \in {"claim", "zrem"},
         workers' = [workers EXCEPT ![w] = a],
         deliveries' \in [Orders -> 0..MaxDeliveries]
  PROVE  WorkersTypeOK'
BY DEF WorkersTypeOK

\* Going on to the next candidate keeps the type of the workers.
LEMMA NextCandidateTyped ==
  ASSUME WorkersTypeOK, NEW w \in Workers, workers[w].pc = "claim",
         NEW errored \in SUBSET Riders, NextCandidate(w, errored),
         UNCHANGED deliveries
  PROVE  WorkersTypeOK'
<1>1. workers[w] \in Assignments /\ Tail(workers[w].todo) \in Seq(Riders)
  BY WorkerTyped DEF NoWork
<1> DEFINE todo == Tail(workers[w].todo)
           a == [workers[w] EXCEPT !.pc = Continue(todo), !.todo = todo,
                                   !.errored = errored]
<1>2. a \in Assignments
  BY <1>1 DEF Assignments, Continue
<1>3. a.todo # <<>> <=> a.pc \in {"claim", "zrem"}
  BY <1>1 DEF Assignments, Continue
<1>4. workers' = [workers EXCEPT ![w] = a]
  BY DEF NextCandidate
<1>5. deliveries' \in [Orders -> 0..MaxDeliveries]
  BY DEF WorkersTypeOK
<1> HIDE DEF a
<1> QED BY <1>2, <1>3, <1>4, <1>5, WorkerUpdateTyped

\* A worker that ends keeps the type of the workers.
LEMMA NoWorkTyped ==
  ASSUME WorkersTypeOK, NEW w \in Workers,
         workers' = [workers EXCEPT ![w] = NoWork], UNCHANGED deliveries
  PROVE  WorkersTypeOK'
<1>1. NoWork.todo = <<>> /\ NoWork.pc = "idle"
  BY DEF NoWork
<1>2. deliveries' \in [Orders -> 0..MaxDeliveries]
  BY DEF WorkersTypeOK
<1> QED BY <1>1, <1>2, WorkerUpdateTyped

\* The transaction of claimRider keeps the types of the tables it writes.
LEMMA ClaimTyped ==
  ASSUME StoreTypeOK, NEW o \in Orders, NEW r \in Riders, ClaimTx(o, r),
         faults' \in 0..MaxFaults, UNCHANGED <<geo, stint>>
  PROVE  StoreTypeOK'
<1>1. OrderAssignedEvent(r, stint[r]) \in Event
  BY EventsTyped DEF StoreTypeOK
<1>2. outbox' \in [Orders -> Seq(Event)]
  BY <1>1, AppendTyped DEF StoreTypeOK, ClaimTx, Write
<1>3. order_events' \in [Orders -> Seq(Event)]
  BY <1>1, AppendTyped DEF StoreTypeOK, ClaimTx, Audit
<1>4. orders' \in [Orders -> [status : Statuses \union {NoStatus},
                              rider  : Riders \union {NoRider}]]
  BY DEF StoreTypeOK, ClaimTx
<1>5. riders' \in [Riders -> RiderStatuses \union {"UNREGISTERED"}]
  BY DEF StoreTypeOK, ClaimTx, RiderStatuses
<1> QED BY <1>2, <1>3, <1>4, <1>5 DEF StoreTypeOK

\* The steps of assignment-service keep every type.
LEMMA AssignmentTypes ==
  ASSUME TypeOK, AssignmentNext, UNCHANGED <<requests, riderRequests>>
  PROVE  TypeOK'
<1> USE DEF TypeOK
<1>0. RequestsTypeOK' /\ RiderRequestsTypeOK'
  BY DEF RequestsTypeOK, RiderRequestsTypeOK
<1>1. ASSUME NEW w \in Workers, NEW o \in Orders,
             NEW c \in nearestAvailableRiders, Assign(w, o, c)
      PROVE  TypeOK'
  <2> DEFINE found == {c[i] : i \in DOMAIN c}
             since == [r \in Riders |-> IF r \in found THEN stint[r] ELSE 0]
             a == [pc |-> Continue(c), order |-> o, todo |-> c,
                   found |-> found, since |-> since, errored |-> {}]
  <2>1. c \in Seq(Riders)
    BY CandidatesTyped
  <2>2. found \in SUBSET Riders
    BY <2>1
  <2>3. since \in [Riders -> Nat]
    BY DEF StoreTypeOK
  <2>4. a \in Assignments
    <3> HIDE DEF found, since
    <3> QED BY <2>1, <2>2, <2>3 DEF Assignments, Continue
  <2>5. a.todo # <<>> <=> a.pc \in {"claim", "zrem"}
    BY DEF Continue
  <2>6. deliveries' \in [Orders -> 0..MaxDeliveries]
    BY <1>1, MaxDeliveriesAssumption DEF Assign, WorkersTypeOK
  <2>7. workers' = [workers EXCEPT ![w] = a]
    BY <1>1 DEF Assign
  <2>8. WorkersTypeOK'
    <3> HIDE DEF a
    <3> QED BY <2>4, <2>5, <2>6, <2>7, WorkerUpdateTyped
  <2> QED BY <1>0, <1>1, <2>8 DEF Assign, StoreTypeOK, storeVars, tables
<1>2. ASSUME NEW w \in Workers, NEW o \in Orders, AssignFail(w, o)
      PROVE  TypeOK'
  BY <1>0, <1>2, MaxDeliveriesAssumption, MaxFaultsAssumption
     DEF AssignFail, Fault, WorkersTypeOK, StoreTypeOK, tables
<1>3. ASSUME NEW w \in Workers, ClaimWon(w) PROVE TypeOK'
  <2>1. /\ workers[w] \in Assignments /\ workers[w].order \in Orders
        /\ Head(workers[w].todo) \in Riders
    BY <1>3, WorkerTyped DEF ClaimWon, NoWork, Assignments
  <2>2. StoreTypeOK'
    BY <1>3, <2>1, ClaimTyped DEF ClaimWon, StoreTypeOK
  <2>3. workers' = [workers EXCEPT ![w] = [workers[w] EXCEPT !.pc = "zrem"]]
    BY <1>3 DEF ClaimWon
  <2>4. [workers[w] EXCEPT !.pc = "zrem"] \in Assignments
    BY <2>1 DEF Assignments
  <2>5. workers[w].todo # <<>>
    BY <1>3 DEF ClaimWon, WorkersTypeOK
  <2>6. /\ [workers[w] EXCEPT !.pc = "zrem"].todo = workers[w].todo
        /\ [workers[w] EXCEPT !.pc = "zrem"].pc = "zrem"
    BY <2>1 DEF Assignments
  <2>7. deliveries' \in [Orders -> 0..MaxDeliveries]
    BY <1>3 DEF ClaimWon, WorkersTypeOK
  <2>8. WorkersTypeOK'
    BY <2>3, <2>4, <2>5, <2>6, <2>7, WorkerUpdateTyped
  <2> QED BY <1>0, <2>2, <2>8
<1>4. ASSUME NEW w \in Workers, ClaimLost(w) PROVE TypeOK'
  <2>1. workers[w].errored \in SUBSET Riders
    BY <1>4, WorkerTyped DEF ClaimLost, NoWork, Assignments
  <2>2. WorkersTypeOK'
    BY <1>4, <2>1, NextCandidateTyped DEF ClaimLost
  <2> QED BY <1>0, <1>4, <2>2 DEF ClaimLost, StoreTypeOK, storeVars, tables
<1>5. ASSUME NEW w \in Workers, ClaimError(w) PROVE TypeOK'
  <2>1. workers[w].errored \union {Head(workers[w].todo)} \in SUBSET Riders
    BY <1>5, WorkerTyped DEF ClaimError, NoWork, Assignments
  <2>2. WorkersTypeOK'
    BY <1>5, <2>1, NextCandidateTyped DEF ClaimError
  <2> QED BY <1>0, <1>5, <2>2, MaxFaultsAssumption
          DEF ClaimError, Fault, StoreTypeOK, tables
<1>6. ASSUME NEW w \in Workers, ClaimCommitLost(w) PROVE TypeOK'
  <2>1. /\ workers[w].errored \union {Head(workers[w].todo)} \in SUBSET Riders
        /\ workers[w].order \in Orders
        /\ Head(workers[w].todo) \in Riders
    BY <1>6, WorkerTyped DEF ClaimCommitLost, NoWork, Assignments
  <2>2. WorkersTypeOK'
    BY <1>6, <2>1, NextCandidateTyped DEF ClaimCommitLost
  <2>3. faults' \in 0..MaxFaults
    BY <1>6, MaxFaultsAssumption DEF ClaimCommitLost, Fault, StoreTypeOK
  <2> QED BY <1>0, <1>6, <2>1, <2>2, <2>3, ClaimTyped DEF ClaimCommitLost
<1>7. ASSUME NEW w \in Workers, RemoveFromGeo(w) PROVE TypeOK'
  BY <1>0, <1>7, NoWorkTyped DEF RemoveFromGeo, StoreTypeOK, tables
<1>8. ASSUME NEW w \in Workers, MarkCancelled(w) PROVE TypeOK'
  <2>1. workers[w].order \in Orders
    BY <1>8, WorkerTyped DEF MarkCancelled, NoWork, Assignments
  <2>2. \/ UNCHANGED <<orders, outbox>>
        \/ /\ orders' = [orders EXCEPT ![workers[w].order].status = "CANCELLED"]
           /\ Write(workers[w].order, NoRiderEvent)
    BY <1>8 DEF MarkCancelled
  <2>3. /\ outbox' \in [Orders -> Seq(Event)]
        /\ orders' \in [Orders -> [status : Statuses \union {NoStatus},
                                   rider  : Riders \union {NoRider}]]
    <3>1. CASE UNCHANGED <<orders, outbox>>
      BY <3>1 DEF StoreTypeOK
    <3>2. CASE /\ orders' = [orders EXCEPT
                               ![workers[w].order].status = "CANCELLED"]
               /\ Write(workers[w].order, NoRiderEvent)
      <4>1. outbox' \in [Orders -> Seq(Event)]
        BY <2>1, <3>2, EventsTyped, AppendTyped DEF Write, StoreTypeOK
      <4> QED BY <2>1, <3>2, <4>1 DEF StoreTypeOK, Statuses
    <3> QED BY <2>2, <3>1, <3>2
  <2>4. StoreTypeOK'
    BY <1>8, <2>3 DEF MarkCancelled, StoreTypeOK
  <2> QED BY <1>0, <1>8, <2>4, NoWorkTyped DEF MarkCancelled
<1>9. ASSUME NEW w \in Workers, GiveUp(w) PROVE TypeOK'
  <2>1. WorkersTypeOK'
    BY <1>9, NoWorkTyped DEF GiveUp
  <2>2. StoreTypeOK'
    BY <1>9, MaxFaultsAssumption DEF GiveUp, Fault, StoreTypeOK, tables
  <2> QED BY <1>0, <2>1, <2>2
<1> QED BY <1>1, <1>2, <1>3, <1>4, <1>5, <1>6, <1>7, <1>8, <1>9
        DEF AssignmentNext, AssignmentStep

\* The initial state has the right types.
LEMMA InitTypes == Init => TypeOK
BY MaxFaultsAssumption, MaxDeliveriesAssumption
   DEF Init, StoreInit, OrderServiceInit, RiderPoolInit, AssignmentInit,
       TypeOK, StoreTypeOK, RequestsTypeOK, RiderRequestsTypeOK,
       WorkersTypeOK, NoWork

\* Every step keeps the types.
LEMMA NextTypes ==
  ASSUME TypeOK, [Next]_vars
  PROVE  TypeOK'
<1>1. CASE UNCHANGED vars
  BY <1>1 DEF vars, storeVars, tables, assignmentVars, TypeOK, StoreTypeOK,
              RequestsTypeOK, RiderRequestsTypeOK, WorkersTypeOK
<1> QED BY <1>1, OrderServiceTypes, RiderPoolTypes, AssignmentTypes DEF Next

\* Every variable keeps its type, whatever the services do.
THEOREM TypeCorrect == Spec => []TypeOK
BY InitTypes, NextTypes, PTL DEF Spec

-----------------------------------------------------------------------------
(***************************************************************************)
(* What a step does to the tables the properties speak of.                 *)
(***************************************************************************)

\* rider-service sets the status of a rider, or registers one.
RiderSet ==
  /\ UNCHANGED <<orders, outbox>>
  /\ \E r \in Riders, s \in RiderStatuses :
       /\ riders' = [riders EXCEPT ![r] = s]
       /\ IF s = "AVAILABLE" /\ riders[r] # "AVAILABLE"
            THEN stint' = [stint EXCEPT ![r] = @ + 1]
            ELSE UNCHANGED stint

\* A status is written, announced, and justified by the order's history.
StatusWrite ==
  \E o \in Orders, e \in Event :
    /\ e.status \in Statuses /\ e.rider = NoRider
    /\ \/ e.topic = "order.placed"
       \/ \E j \in DOMAIN outbox[o] :
            ValidateTransition(outbox[o][j].status, e.status)
    /\ orders' = [orders EXCEPT ![o].status = e.status]
    /\ Write(o, e)
    /\ UNCHANGED <<riders, stint>>

\* A rider is claimed for an order that was placed.
Claim ==
  \E o \in Orders, r \in Riders :
    /\ Placed(o)
    /\ ClaimTx(o, r)
    /\ UNCHANGED stint

\* Nothing the properties speak of changes.
Quiet == UNCHANGED <<orders, outbox, riders, stint>>

\* The row outbox.Write appends becomes the last one of its order.
LEMMA Appended ==
  ASSUME StoreTypeOK, NEW o \in Orders, NEW e \in Event, Write(o, e)
  PROVE  /\ Len(outbox[o]) \in Nat
         /\ DOMAIN outbox[o] = 1..Len(outbox[o])
         /\ DOMAIN outbox'[o] = 1..(Len(outbox[o]) + 1)
         /\ outbox'[o][Len(outbox[o]) + 1] = e
         /\ \A i \in 1..Len(outbox[o]) : outbox'[o][i] = outbox[o][i]
         /\ \A p \in Orders \ {o} : outbox'[p] = outbox[p]
<1>1. outbox[o] \in Seq(Event) /\ outbox'[o] = Append(outbox[o], e)
  BY DEF StoreTypeOK, Write
<1>2. \A p \in Orders \ {o} : outbox'[p] = outbox[p]
  BY DEF StoreTypeOK, Write
<1> QED BY <1>1, <1>2

\* A row that reports a rider names one, and a stint.
LEMMA RiderRowTyped ==
  ASSUME StoreTypeOK
  PROVE  \A o \in Orders : \A i \in DOMAIN outbox[o] :
           ReportsRider(outbox[o][i]) =>
             outbox[o][i].rider \in Riders /\ outbox[o][i].stint \in Nat
<1> SUFFICES ASSUME NEW o \in Orders, NEW i \in DOMAIN outbox[o],
                    ReportsRider(outbox[o][i])
             PROVE  outbox[o][i].rider \in Riders /\ outbox[o][i].stint \in Nat
  OBVIOUS
<1>1. outbox[o] \in Seq(Event)
  BY DEF StoreTypeOK
<1>2. outbox[o][i] \in Event
  BY <1>1
<1> QED BY <1>2 DEF Event, ReportsRider

\* An order is in the table exactly when it has outbox rows.
LEMMA PlacedHasRows ==
  ASSUME StoreTypeOK, OutboxMirrorsOrder, NEW o \in Orders
  PROVE  Placed(o) <=> outbox[o] # <<>>
<1>1. Placed(o) => \E i : i \in DOMAIN outbox[o]
  BY DEF OutboxMirrorsOrder, StatusMirrored
<1>2. ~Placed(o) => outbox[o] = <<>>
  BY DEF OutboxMirrorsOrder, StatusMirrored
<1>3. DOMAIN (<<>>) = {}
  OBVIOUS
<1> QED BY <1>1, <1>2, <1>3

\* Every step of the specification has one of the four shapes.
LEMMA StepShape ==
  ASSUME IInv, [Next]_vars
  PROVE  Quiet \/ RiderSet \/ StatusWrite \/ Claim
<1> USE DEF IInv, TypeOK
<1>1. ASSUME NEW o \in Orders, Place(o) PROVE StatusWrite
  <2>1. /\ OrderPlacedEvent \in Event
        /\ OrderPlacedEvent.status = "PLACED"
        /\ OrderPlacedEvent.rider = NoRider
        /\ OrderPlacedEvent.topic = "order.placed"
    BY EventsTyped DEF OrderPlacedEvent
  <2> QED BY <1>1, <2>1 DEF Place, StatusWrite, Statuses
<1>2. ASSUME NEW q \in Requests, UpdateStatus(q) PROVE StatusWrite
  <2> DEFINE o == requests[q].order
             e == StatusUpdatedEvent(requests[q].to)
  <2>1. o \in Orders /\ requests[q].to \in Statuses
    BY <1>2 DEF UpdateStatus, NoRequest, RequestsTypeOK
  <2>2. /\ e \in Event
        /\ e.status = requests[q].to
        /\ e.rider = NoRider
    BY <2>1, EventsTyped DEF StatusUpdatedEvent
  <2>3. \E j \in DOMAIN outbox[o] :
          ValidateTransition(outbox[o][j].status, e.status)
    BY <1>2, <2>2 DEF UpdateStatus, RequestsGrounded
  <2>4. /\ orders' = [orders EXCEPT ![o].status = e.status]
        /\ Write(o, e)
        /\ UNCHANGED <<riders, stint>>
    BY <1>2, <2>2 DEF UpdateStatus
  <2> QED BY <2>1, <2>2, <2>3, <2>4 DEF StatusWrite
<1>3. ASSUME NEW w \in Workers, MarkCancelled(w) PROVE Quiet \/ StatusWrite
  <2> DEFINE o == workers[w].order
  <2>1. o \in Orders
    BY <1>3, WorkerTyped DEF MarkCancelled, NoWork, Assignments
  <2>2. CASE orders[o].status # "PLACED"
    BY <1>3, <2>2 DEF MarkCancelled, Quiet
  <2>3. CASE orders[o].status = "PLACED"
    <3>1. /\ NoRiderEvent \in Event
          /\ NoRiderEvent.status = "CANCELLED"
          /\ NoRiderEvent.rider = NoRider
      BY EventsTyped DEF NoRiderEvent
    <3>2. ValidateTransition("PLACED", "CANCELLED")
      BY DEF ValidateTransition, validTransitions, Statuses
    <3>3. \E j \in DOMAIN outbox[o] : outbox[o][j].status = "PLACED"
      BY <2>1, <2>3 DEF OutboxMirrorsOrder, StatusMirrored, Placed, NoStatus
    <3>4. /\ orders' = [orders EXCEPT ![o].status = "CANCELLED"]
          /\ Write(o, NoRiderEvent)
          /\ UNCHANGED <<riders, stint>>
      BY <1>3, <2>3 DEF MarkCancelled
    <3> QED BY <2>1, <3>1, <3>2, <3>3, <3>4 DEF StatusWrite, Statuses
  <2> QED BY <2>2, <2>3
<1>4. ASSUME NEW w \in Workers, ClaimWon(w) \/ ClaimCommitLost(w) PROVE Claim
  <2>1. workers[w] # NoWork /\ workers[w].pc = "claim"
    BY <1>4 DEF ClaimWon, ClaimCommitLost, NoWork
  <2>2. workers[w].order \in Orders /\ Head(workers[w].todo) \in Riders
    BY <2>1, WorkerTyped DEF Assignments
  <2>3. Placed(workers[w].order)
    BY <2>1, <2>2, PlacedHasRows DEF WorkersGrounded
  <2> QED BY <1>4, <2>2, <2>3 DEF ClaimWon, ClaimCommitLost, Claim
<1>5. ASSUME NEW r \in Riders, Register(r) PROVE RiderSet
  BY <1>5 DEF Register, RiderSet, RiderStatuses, tables
<1>6. ASSUME NEW q \in RiderRequests, NEW r \in Riders,
             NEW s \in RiderStatuses, NEW coords \in CoordsGiven,
             SetStatus(q, r, s, coords)
      PROVE  RiderSet
  BY <1>6 DEF SetStatus, RiderSet, tables
<1>7. CASE UNCHANGED vars
  BY <1>7 DEF vars, storeVars, tables, Quiet
<1>8. CASE OrderServiceNext
  BY <1>1, <1>2, <1>8
     DEF OrderServiceNext, Transition, AbortRequest, storeVars, tables, Quiet
<1>9. CASE RiderPoolNext
  BY <1>5, <1>6, <1>9
     DEF RiderPoolNext, RiderServiceNext, LocationServiceNext,
         UpdateLocation, SyncGeo, SyncGeoFail, tables, Quiet
<1>10. CASE AssignmentNext
  BY <1>3, <1>4, <1>10
     DEF AssignmentNext, AssignmentStep, Assign, AssignFail, ClaimLost,
         ClaimError, RemoveFromGeo, GiveUp, storeVars, tables, Quiet
<1> QED BY <1>7, <1>8, <1>9, <1>10 DEF Next

-----------------------------------------------------------------------------
(***************************************************************************)
(* Each part of the invariant is preserved.                                *)
(***************************************************************************)

\* The outbox keeps mirroring the orders table.
LEMMA MirrorPreserved ==
  ASSUME IInv, [Next]_vars
  PROVE  OutboxMirrorsOrder'
<1> USE DEF IInv, TypeOK
<1>1. CASE UNCHANGED <<orders, outbox>>
  BY <1>1 DEF OutboxMirrorsOrder, StatusMirrored, RiderMirrored, IsLast, Placed
<1>2. CASE StatusWrite
  <2>1. PICK o \in Orders, e \in Event :
          /\ e.status \in Statuses /\ e.rider = NoRider
          /\ orders' = [orders EXCEPT ![o].status = e.status]
          /\ Write(o, e)
    BY <1>2 DEF StatusWrite
  <2> DEFINE n == Len(outbox[o]) + 1
  <2>2. /\ orders'[o].status = e.status /\ orders'[o].status # NoStatus
        /\ orders'[o].rider = orders[o].rider
        /\ \A p \in Orders \ {o} : orders'[p] = orders[p]
    BY <2>1 DEF StoreTypeOK, Statuses, NoStatus
  <2>3. StatusMirrored(o)'
    <3>1. n \in DOMAIN outbox'[o] /\ outbox'[o][n] = e
          /\ \A j \in DOMAIN outbox'[o] : ~(j > n)
      BY <2>1, Appended
    <3> HIDE DEF n
    <3> QED BY <2>1, <2>2, <3>1
            DEF StatusMirrored, IsLast, ReportsStatus, Placed
  <2>4. RiderMirrored(o)'
    <3>1. RiderMirrored(o)
      BY DEF OutboxMirrorsOrder
    <3>2. ~ReportsRider(e)
      BY <2>1 DEF ReportsRider
    <3>3. /\ DOMAIN outbox'[o] = DOMAIN outbox[o] \union {n}
          /\ outbox'[o][n] = e
          /\ \A i \in DOMAIN outbox[o] : outbox'[o][i] = outbox[o][i]
      BY <2>1, Appended
    <3> HIDE DEF n
    <3> QED BY <2>2, <3>1, <3>2, <3>3 DEF RiderMirrored, IsLast, ReportsRider
  <2>5. ASSUME NEW p \in Orders \ {o}
        PROVE  StatusMirrored(p)' /\ RiderMirrored(p)'
    <3>1. outbox'[p] = outbox[p] /\ orders'[p] = orders[p]
      BY <2>1, <2>2, Appended
    <3> QED BY <3>1 DEF OutboxMirrorsOrder, StatusMirrored, RiderMirrored,
                        IsLast, Placed
  <2> QED BY <2>3, <2>4, <2>5 DEF OutboxMirrorsOrder
<1>3. CASE Claim
  <2>1. PICK o \in Orders, r \in Riders : Placed(o) /\ ClaimTx(o, r)
    BY <1>3 DEF Claim
  <2> DEFINE e == OrderAssignedEvent(r, stint[r])
             n == Len(outbox[o]) + 1
  <2>2. e \in Event /\ e.rider = r /\ e.status = NoStatus /\ Write(o, e)
    BY <2>1, EventsTyped DEF ClaimTx, OrderAssignedEvent, StoreTypeOK
  <2> HIDE DEF e
  <2>3. /\ orders'[o].rider = r /\ r # NoRider
        /\ orders'[o].status = orders[o].status
        /\ \A p \in Orders \ {o} : orders'[p] = orders[p]
    BY <2>1, NoRiderAssumption DEF StoreTypeOK, ClaimTx
  <2>4. RiderMirrored(o)'
    <3>1. n \in DOMAIN outbox'[o] /\ outbox'[o][n] = e
          /\ \A j \in DOMAIN outbox'[o] : ~(j > n)
      BY <2>2, Appended
    <3> HIDE DEF n
    <3> QED BY <2>2, <2>3, <3>1
            DEF RiderMirrored, IsLast, ReportsRider
  <2>5. StatusMirrored(o)'
    <3>1. StatusMirrored(o)
      BY DEF OutboxMirrorsOrder
    <3>2. ~ReportsStatus(e)
      BY <2>2 DEF ReportsStatus
    <3>3. /\ DOMAIN outbox'[o] = DOMAIN outbox[o] \union {n}
          /\ outbox'[o][n] = e
          /\ \A i \in DOMAIN outbox[o] : outbox'[o][i] = outbox[o][i]
      BY <2>2, Appended
    <3> HIDE DEF n
    <3> QED BY <2>1, <2>3, <3>1, <3>2, <3>3
            DEF StatusMirrored, IsLast, ReportsStatus, Placed
  <2>6. ASSUME NEW p \in Orders \ {o}
        PROVE  StatusMirrored(p)' /\ RiderMirrored(p)'
    <3>1. outbox'[p] = outbox[p] /\ orders'[p] = orders[p]
      BY <2>2, <2>3, Appended
    <3> QED BY <3>1 DEF OutboxMirrorsOrder, StatusMirrored, RiderMirrored,
                        IsLast, Placed
  <2> QED BY <2>4, <2>5, <2>6 DEF OutboxMirrorsOrder
<1> QED BY <1>1, <1>2, <1>3, StepShape DEF Quiet, RiderSet

\* Status updates stay justified: the appended one is, the others were.
LEMMA CausalPreserved ==
  ASSUME IInv, [Next]_vars
  PROVE  CausalHistory'
<1>0. StoreTypeOK /\ CausalHistory
  BY DEF IInv, TypeOK
<1>1. CASE UNCHANGED outbox
  BY <1>0, <1>1 DEF CausalHistory
<1>2. ASSUME NEW o \in Orders, NEW e \in Event, Write(o, e),
             \/ e.topic # "order.status.updated"
             \/ \E j \in DOMAIN outbox[o] :
                  ValidateTransition(outbox[o][j].status, e.status)
      PROVE  CausalHistory'
  <2> SUFFICES ASSUME NEW p \in Orders, NEW i \in DOMAIN outbox'[p],
                      outbox'[p][i].topic = "order.status.updated"
               PROVE  \E j \in DOMAIN outbox'[p] :
                        /\ j < i
                        /\ ValidateTransition(outbox'[p][j].status,
                                              outbox'[p][i].status)
    BY DEF CausalHistory
  <2>0. /\ Len(outbox[o]) \in Nat
        /\ DOMAIN outbox[o] = 1..Len(outbox[o])
        /\ DOMAIN outbox'[o] = 1..(Len(outbox[o]) + 1)
        /\ outbox'[o][Len(outbox[o]) + 1] = e
        /\ \A j \in 1..Len(outbox[o]) : outbox'[o][j] = outbox[o][j]
        /\ \A q \in Orders \ {o} : outbox'[q] = outbox[q]
    BY <1>0, <1>2, Appended
  <2>1. CASE p # o
    BY <1>0, <2>0, <2>1 DEF CausalHistory
  <2>2. CASE p = o /\ i \in DOMAIN outbox[o]
    <3>1. /\ outbox'[o][i] = outbox[o][i]
          /\ \A j \in DOMAIN outbox[o] : /\ j \in DOMAIN outbox'[o]
                                         /\ outbox'[o][j] = outbox[o][j]
      BY <2>0, <2>2
    <3>2. PICK j \in DOMAIN outbox[o] :
            /\ j < i
            /\ ValidateTransition(outbox[o][j].status, outbox[o][i].status)
      BY <1>0, <2>2, <3>1 DEF CausalHistory
    <3> QED BY <2>2, <3>1, <3>2
  <2>3. CASE p = o /\ i \notin DOMAIN outbox[o]
    <3>1. /\ outbox'[o][i] = e
          /\ \A j \in DOMAIN outbox[o] : /\ j < i
                                         /\ j \in DOMAIN outbox'[o]
                                         /\ outbox'[o][j] = outbox[o][j]
      BY <2>0, <2>3
    <3> QED BY <1>2, <2>3, <3>1
  <2> QED BY <2>1, <2>2, <2>3
<1>3. CASE StatusWrite
  BY <1>2, <1>3 DEF StatusWrite
<1>4. CASE Claim
  <2>1. PICK o \in Orders, r \in Riders : ClaimTx(o, r)
    BY <1>4 DEF Claim
  <2>2. /\ OrderAssignedEvent(r, stint[r]) \in Event
        /\ OrderAssignedEvent(r, stint[r]).topic = "order.assigned"
    BY <1>0, EventsTyped DEF OrderAssignedEvent, StoreTypeOK
  <2> QED BY <1>2, <2>1, <2>2 DEF ClaimTx
<1> QED BY <1>1, <1>3, <1>4, StepShape DEF Quiet, RiderSet

\* The rows of an order are never changed or removed.
LEMMA OutboxGrows ==
  ASSUME IInv, [Next]_vars, NEW o \in Orders
  PROVE  /\ DOMAIN outbox[o] \subseteq DOMAIN outbox'[o]
         /\ \A i \in DOMAIN outbox[o] : outbox'[o][i] = outbox[o][i]
<1>0. StoreTypeOK
  BY DEF IInv, TypeOK
<1>1. ASSUME NEW p \in Orders, NEW e \in Event, Write(p, e)
      PROVE  /\ DOMAIN outbox[o] \subseteq DOMAIN outbox'[o]
             /\ \A i \in DOMAIN outbox[o] : outbox'[o][i] = outbox[o][i]
  <2>1. /\ Len(outbox[p]) \in Nat
        /\ DOMAIN outbox[p] = 1..Len(outbox[p])
        /\ DOMAIN outbox'[p] = 1..(Len(outbox[p]) + 1)
        /\ \A i \in 1..Len(outbox[p]) : outbox'[p][i] = outbox[p][i]
        /\ \A q \in Orders \ {p} : outbox'[q] = outbox[q]
    BY <1>0, <1>1, Appended
  <2> QED BY <2>1
<1>2. CASE StatusWrite
  BY <1>1, <1>2 DEF StatusWrite
<1>3. CASE Claim
  <2>1. PICK p \in Orders, r \in Riders : ClaimTx(p, r)
    BY <1>3 DEF Claim
  <2>2. OrderAssignedEvent(r, stint[r]) \in Event
    BY <1>0, EventsTyped DEF StoreTypeOK
  <2> QED BY <1>1, <2>1, <2>2 DEF ClaimTx
<1> QED BY <1>2, <1>3, StepShape DEF Quiet, RiderSet

\* A claim ends the stint it belongs to, and a new stint gets a new number.
LEMMA ClaimsPreserved ==
  ASSUME IInv, [Next]_vars
  PROVE  StintLedger' /\ ClaimOncePerStint'
<1> USE DEF IInv, TypeOK
<1>1. CASE Quiet
  BY <1>1 DEF Quiet, StintLedger, ClaimOncePerStint
<1>2. CASE RiderSet
  <2>1. PICK r \in Riders, s \in RiderStatuses :
          /\ riders' = [riders EXCEPT ![r] = s]
          /\ IF s = "AVAILABLE" /\ riders[r] # "AVAILABLE"
               THEN stint' = [stint EXCEPT ![r] = @ + 1]
               ELSE UNCHANGED stint
    BY <1>2 DEF RiderSet
  <2>2. ASSUME NEW x \in Riders, NEW k \in Nat,
               k <= stint[x], riders[x] = "AVAILABLE" => k < stint[x]
        PROVE  k <= stint'[x] /\ (riders'[x] = "AVAILABLE" => k < stint'[x])
    <3>1. /\ stint \in [Riders -> Nat]
          /\ riders \in [Riders -> RiderStatuses \union {"UNREGISTERED"}]
      BY DEF StoreTypeOK
    <3> QED BY <2>1, <2>2, <3>1
  <2>3. \A o \in Orders : \A i \in DOMAIN outbox[o] :
          ReportsRider(outbox[o][i]) =>
            outbox[o][i].rider \in Riders /\ outbox[o][i].stint \in Nat
    BY RiderRowTyped
  <2>4. StintLedger'
    BY <1>2, <2>2, <2>3 DEF RiderSet, StintLedger, ReportsRider
  <2> QED BY <1>2, <2>4 DEF RiderSet, ClaimOncePerStint, ReportsRider
<1>3. CASE StatusWrite
  <2>1. PICK o \in Orders, e \in Event :
          e.rider = NoRider /\ Write(o, e) /\ UNCHANGED <<riders, stint>>
    BY <1>3 DEF StatusWrite
  <2>2. \A p \in Orders : \A i \in DOMAIN outbox'[p] :
          ReportsRider(outbox'[p][i]) =>
            i \in DOMAIN outbox[p] /\ outbox'[p][i] = outbox[p][i]
    BY <2>1, Appended DEF ReportsRider
  <2>3. StintLedger'
    BY <2>1, <2>2 DEF StintLedger
  <2>4. ClaimOncePerStint'
    BY <2>2 DEF ClaimOncePerStint, ReportsRider
  <2> QED BY <2>3, <2>4
<1>4. CASE Claim
  <2>1. PICK o \in Orders, r \in Riders : ClaimTx(o, r) /\ UNCHANGED stint
    BY <1>4 DEF Claim
  <2> DEFINE e == OrderAssignedEvent(r, stint[r])
             n == Len(outbox[o]) + 1
  <2>2. /\ e \in Event /\ e.rider = r /\ e.stint = stint[r]
        /\ Write(o, e) /\ stint[r] \in Nat
    BY <2>1, EventsTyped DEF ClaimTx, OrderAssignedEvent, StoreTypeOK
  <2> HIDE DEF e
  <2>3. /\ riders[r] = "AVAILABLE" /\ riders'[r] = "BUSY"
        /\ \A x \in Riders \ {r} : riders'[x] = riders[x]
    BY <2>1 DEF ClaimTx, StoreTypeOK
  <2>4. \A p \in Orders : \A i \in DOMAIN outbox'[p] :
          \/ p = o /\ i = n /\ outbox'[p][i] = e
          \/ i \in DOMAIN outbox[p] /\ outbox'[p][i] = outbox[p][i]
    BY <2>2, Appended
  <2> HIDE DEF n
  <2>5. \A p \in Orders : \A i \in DOMAIN outbox[p] :
          ReportsRider(outbox[p][i]) =>
            outbox[p][i].rider \in Riders /\ outbox[p][i].stint \in Nat
    BY RiderRowTyped
  <2>6. StintLedger'
    <3> SUFFICES ASSUME NEW p \in Orders, NEW i \in DOMAIN outbox'[p],
                        ReportsRider(outbox'[p][i])
                 PROVE  LET x == outbox'[p][i]
                        IN  /\ x.stint <= stint'[x.rider]
                            /\ riders'[x.rider] = "AVAILABLE" =>
                                 x.stint < stint'[x.rider]
      BY DEF StintLedger, ReportsRider
    <3>1. CASE p = o /\ i = n /\ outbox'[p][i] = e
      BY <2>1, <2>2, <2>3, <3>1
    <3>2. CASE i \in DOMAIN outbox[p] /\ outbox'[p][i] = outbox[p][i]
      BY <2>1, <2>3, <2>5, <3>2 DEF StintLedger, ReportsRider
    <3> QED BY <2>4, <3>1, <3>2
  <2>7. \* No earlier row names this rider and this stint.
        \A p \in Orders : \A i \in DOMAIN outbox[p] :
          ReportsRider(outbox[p][i]) =>
            ~(outbox[p][i].rider = r /\ outbox[p][i].stint = stint[r])
    BY <2>2, <2>3, <2>5 DEF StintLedger
  <2>8. r # NoRider
    BY NoRiderAssumption
  <2>9. ClaimOncePerStint'
    BY <2>2, <2>4, <2>7, <2>8 DEF ClaimOncePerStint, ReportsRider
  <2> QED BY <2>6, <2>9
<1> QED BY <1>1, <1>2, <1>3, <1>4, StepShape

\* What requests and workers remember stays in the outbox.
LEMMA GroundedPreserved ==
  ASSUME IInv, [Next]_vars
  PROVE  RequestsGrounded' /\ WorkersGrounded'
<1> USE DEF IInv, TypeOK
<1>1. ASSUME NEW q \in Requests, requests'[q].pc = "write"
      PROVE  /\ ValidateTransition(requests'[q].from, requests'[q].to)
             /\ \E i \in DOMAIN outbox'[requests'[q].order] :
                  outbox'[requests'[q].order][i].status = requests'[q].from
  <2>1. CASE requests'[q] = requests[q]
    <3>1. requests[q].order \in Orders
      BY <1>1, <2>1 DEF RequestsTypeOK, NoRequest
    <3> QED BY <1>1, <2>1, <3>1, OutboxGrows DEF RequestsGrounded
  <2>2. CASE requests'[q] # requests[q]
    <3>1. PICK o \in Orders, to \in Statuses : Transition(q, o, to)
      <4>1. OrderServiceNext
        BY <2>2 DEF Next, vars
      <4>2. requests'[q] # NoRequest
        BY <1>1 DEF NoRequest
      <4>3. ASSUME NEW o \in Orders, Place(o) PROVE FALSE
        BY <2>2, <4>3 DEF Place
      <4>4. ASSUME NEW p \in Requests, UpdateStatus(p) \/ AbortRequest(p)
            PROVE  FALSE
        BY <2>2, <4>2, <4>4 DEF UpdateStatus, AbortRequest, RequestsTypeOK
      <4>5. ASSUME NEW p \in Requests, NEW o \in Orders, NEW to \in Statuses,
                   Transition(p, o, to)
            PROVE  p = q
        BY <2>2, <4>5 DEF Transition, RequestsTypeOK
      <4> QED BY <4>1, <4>3, <4>4, <4>5 DEF OrderServiceNext
    <3>2. /\ requests'[q].order = o /\ requests'[q].to = to
          /\ requests'[q].from = orders[o].status
          /\ outbox' = outbox
      BY <3>1 DEF Transition, RequestsTypeOK, storeVars, tables
    <3>3. ValidateTransition(orders[o].status, to) /\ Placed(o)
      BY <3>1 DEF Transition
    <3>4. \E i \in DOMAIN outbox[o] : outbox[o][i].status = orders[o].status
      BY <3>3 DEF OutboxMirrorsOrder, StatusMirrored
    <3> QED BY <3>2, <3>3, <3>4
  <2> QED BY <2>1, <2>2
<1>2. ASSUME NEW w \in Workers, workers'[w] # NoWork
      PROVE  outbox'[workers'[w].order] # <<>>
  <2>1. ASSUME NEW o \in Orders, outbox[o] # <<>> PROVE outbox'[o] # <<>>
    <3>1. outbox[o] \in Seq(Event)
      BY DEF StoreTypeOK
    <3>2. 1 \in DOMAIN outbox[o]
      BY <2>1, <3>1
    <3>3. 1 \in DOMAIN outbox'[o]
      BY <3>2, OutboxGrows
    <3> QED BY <3>3
  <2>2. CASE workers[w] # NoWork /\ workers'[w].order = workers[w].order
    <3>1. workers[w].order \in Orders
      BY <2>2, WorkerTyped DEF Assignments
    <3> QED BY <2>1, <2>2, <3>1 DEF WorkersGrounded
  <2>3. CASE \E o \in Orders : workers'[w].order = o /\ outbox[o] # <<>>
    BY <2>1, <2>3
  <2>4. \/ workers[w] # NoWork /\ workers'[w].order = workers[w].order
        \/ \E o \in Orders : workers'[w].order = o /\ outbox[o] # <<>>
    <3>1. CASE workers' = workers
      BY <1>2, <3>1
    <3>2. ASSUME NEW v \in Workers, NEW o \in Orders,
                 NEW c \in nearestAvailableRiders, Assign(v, o, c)
          PROVE  \/ workers'[w] = workers[w]
                 \/ workers'[w].order = o /\ outbox[o] # <<>>
      BY <3>2 DEF Assign, WorkersTypeOK
    <3>3. ASSUME NEW v \in Workers, NEW errored, workers[v].pc = "claim",
                 NextCandidate(v, errored)
          PROVE  workers'[w].order = workers[w].order /\ workers[w] # NoWork
      <4>1. workers[v] # NoWork
        BY <3>3 DEF NoWork
      <4>2. workers[v] \in Assignments
        BY <4>1, WorkerTyped
      <4>3. workers'[w].order = workers[w].order
        BY <3>3, <4>2 DEF NextCandidate, WorkersTypeOK, Assignments
      <4> QED BY <1>2, <3>3, <4>1, <4>3 DEF NextCandidate, WorkersTypeOK
    <3>4. ASSUME NEW v \in Workers, ClaimWon(v)
          PROVE  workers'[w].order = workers[w].order /\ workers[w] # NoWork
      <4>1. workers[v] # NoWork
        BY <3>4 DEF ClaimWon, NoWork
      <4>2. workers[v] \in Assignments
        BY <4>1, WorkerTyped
      <4> QED BY <1>2, <3>4, <4>1, <4>2
              DEF ClaimWon, WorkersTypeOK, Assignments
    <3>5. ASSUME NEW v \in Workers, workers' = [workers EXCEPT ![v] = NoWork]
          PROVE  workers'[w] = workers[w]
      BY <1>2, <3>5 DEF WorkersTypeOK
    <3>6. CASE AssignmentNext
      BY <1>2, <3>1, <3>2, <3>3, <3>4, <3>5, <3>6
         DEF AssignmentNext, AssignmentStep, AssignFail, ClaimLost,
             ClaimError, ClaimCommitLost, RemoveFromGeo, MarkCancelled, GiveUp
    <3>7. CASE UNCHANGED assignmentVars
      BY <3>1, <3>7 DEF assignmentVars
    <3> QED BY <3>6, <3>7 DEF Next, vars
  <2> QED BY <2>2, <2>3, <2>4
<1> QED BY <1>1, <1>2 DEF RequestsGrounded, WorkersGrounded

\* A worker that is to take a rider out of the index has just claimed that
\* rider, and the row that says so stays.
LEMMA RemovalsPreserved ==
  ASSUME IInv, [Next]_vars
  PROVE  RemovalsGrounded'
<1> USE DEF IInv, TypeOK
<1> SUFFICES ASSUME NEW w \in Workers, workers'[w].pc = "zrem"
             PROVE  \E o \in Orders : \E i \in DOMAIN outbox'[o] :
                      outbox'[o][i].rider = Head(workers'[w].todo)
  BY DEF RemovalsGrounded
<1>1. CASE workers'[w] = workers[w]
  <2>1. PICK o \in Orders :
          \E i \in DOMAIN outbox[o] :
            outbox[o][i].rider = Head(workers[w].todo)
    BY <1>1 DEF RemovalsGrounded
  <2>2. PICK i \in DOMAIN outbox[o] :
          outbox[o][i].rider = Head(workers[w].todo)
    BY <2>1
  <2>3. i \in DOMAIN outbox'[o] /\ outbox'[o][i] = outbox[o][i]
    BY OutboxGrows
  <2> QED BY <1>1, <2>2, <2>3
<1>2. CASE workers'[w] # workers[w]
  <2>1. ClaimWon(w)
    <3>1. AssignmentNext
      BY <1>2 DEF Next, vars, assignmentVars
    <3>2. ASSUME NEW v \in Workers, NEW o \in Orders,
                 NEW c \in nearestAvailableRiders, Assign(v, o, c)
          PROVE  FALSE
      <4>1. workers'[w].pc = Continue(c)
        BY <1>2, <3>2 DEF Assign, WorkersTypeOK
      <4> QED BY <4>1 DEF Continue
    <3>3. ASSUME NEW v \in Workers, NEW errored, workers[v].pc = "claim",
                 NextCandidate(v, errored)
          PROVE  FALSE
      <4>1. workers[v] # NoWork
        BY <3>3 DEF NoWork
      <4>2. workers[v] \in Assignments
        BY <4>1, WorkerTyped
      <4>3. workers'[w].pc \in {"claim", "cancel"}
        BY <1>2, <3>3, <4>2
           DEF NextCandidate, WorkersTypeOK, Assignments, Continue
      <4> QED BY <4>3
    <3>4. ASSUME NEW v \in Workers, workers' = [workers EXCEPT ![v] = NoWork]
          PROVE  FALSE
      BY <1>2, <3>4 DEF WorkersTypeOK, NoWork
    <3>5. ASSUME NEW v \in Workers, ClaimWon(v) PROVE v = w
      BY <1>2, <3>5 DEF ClaimWon, WorkersTypeOK
    <3> QED BY <1>2, <3>1, <3>2, <3>3, <3>4, <3>5
            DEF AssignmentNext, AssignmentStep, AssignFail, ClaimLost,
                ClaimError, ClaimCommitLost, RemoveFromGeo, MarkCancelled,
                GiveUp
  <2> DEFINE o == workers[w].order
             r == Head(workers[w].todo)
             e == OrderAssignedEvent(r, stint[r])
  <2>2. workers[w].pc = "claim" /\ workers[w] # NoWork
    BY <2>1 DEF ClaimWon, NoWork
  <2>3. workers[w] \in Assignments /\ o \in Orders /\ r \in Riders
    BY <2>2, WorkerTyped DEF Assignments
  <2>4. e \in Event /\ e.rider = r
    BY <2>3, EventsTyped DEF StoreTypeOK, OrderAssignedEvent
  <2>5. Write(o, e)
    BY <2>1 DEF ClaimWon, ClaimTx
  <2>6. Head(workers'[w].todo) = r
    BY <2>1, <2>3 DEF ClaimWon, WorkersTypeOK, Assignments
  <2> HIDE DEF e
  <2>7. \E i \in DOMAIN outbox'[o] : outbox'[o][i] = e
    BY <2>3, <2>4, <2>5, Appended
  <2> QED BY <2>3, <2>4, <2>6, <2>7
<1> QED BY <1>1, <1>2

\* A change is recorded in both logs.
BothWritten ==
  \E o \in Orders, e \in Event :
    Audited(e) /\ Audit(o, e) /\ Write(o, e)

\* A cancellation of markCancelled is recorded in the outbox only.
RowWritten ==
  \E o \in Orders : Write(o, NoRiderEvent) /\ UNCHANGED order_events

\* A step leaves both logs alone, appends one row without a reason to both,
\* or appends the row of markCancelled to the outbox.
LEMMA LogShape ==
  ASSUME IInv, [Next]_vars
  PROVE  \/ UNCHANGED <<order_events, outbox>>
         \/ BothWritten
         \/ RowWritten
<1> USE DEF IInv, TypeOK
<1>1. ASSUME NEW o \in Orders, Place(o) PROVE BothWritten
  BY <1>1, EventsTyped DEF Place, OrderPlacedEvent, Audited,
                             BothWritten
<1>2. ASSUME NEW q \in Requests, UpdateStatus(q) PROVE BothWritten
  <2>1. requests[q].order \in Orders /\ requests[q].to \in Statuses
    BY <1>2 DEF UpdateStatus, NoRequest, RequestsTypeOK
  <2>2. Audited(StatusUpdatedEvent(requests[q].to))
    BY DEF StatusUpdatedEvent, Audited
  <2> QED BY <1>2, <2>1, <2>2, EventsTyped DEF UpdateStatus, BothWritten
<1>3. ASSUME NEW w \in Workers, ClaimWon(w) \/ ClaimCommitLost(w) PROVE BothWritten
  <2>1. workers[w] # NoWork /\ workers[w].pc = "claim"
    BY <1>3 DEF ClaimWon, ClaimCommitLost, NoWork
  <2>2. workers[w].order \in Orders /\ Head(workers[w].todo) \in Riders
    BY <2>1, WorkerTyped DEF Assignments
  <2> DEFINE e == OrderAssignedEvent(Head(workers[w].todo),
                                     stint[Head(workers[w].todo)])
  <2>3. e \in Event /\ Audited(e)
    BY <2>2, EventsTyped DEF StoreTypeOK, OrderAssignedEvent, Audited
  <2>4. Audit(workers[w].order, e) /\ Write(workers[w].order, e)
    BY <1>3 DEF ClaimWon, ClaimCommitLost, ClaimTx
  <2> QED BY <2>2, <2>3, <2>4 DEF BothWritten
<1>4. ASSUME NEW w \in Workers, MarkCancelled(w)
      PROVE  \/ UNCHANGED <<order_events, outbox>>
             \/ RowWritten
  <2>1. workers[w].order \in Orders
    BY <1>4, WorkerTyped DEF MarkCancelled, NoWork, Assignments
  <2> QED BY <1>4, <2>1 DEF MarkCancelled, RowWritten
<1>5. CASE UNCHANGED vars
  BY <1>5 DEF vars, storeVars, tables
<1>6. CASE OrderServiceNext
  BY <1>1, <1>2, <1>6
     DEF OrderServiceNext, Transition, AbortRequest, storeVars, tables
<1>7. CASE RiderPoolNext
  BY <1>7
     DEF RiderPoolNext, RiderServiceNext, LocationServiceNext, Register,
         SetStatus, UpdateLocation, SyncGeo, SyncGeoFail, tables
<1>8. CASE AssignmentNext
  BY <1>3, <1>4, <1>8
     DEF AssignmentNext, AssignmentStep, Assign, AssignFail, ClaimLost,
         ClaimError, RemoveFromGeo, GiveUp, storeVars, tables
<1> QED BY <1>5, <1>6, <1>7, <1>8 DEF Next

\* What Append makes of a log.
LEMMA LogAppended ==
  ASSUME NEW log \in Seq(Event), NEW e \in Event
  PROVE  /\ Len(log) \in Nat
         /\ DOMAIN log = 1..Len(log)
         /\ DOMAIN Append(log, e) = 1..(Len(log) + 1)
         /\ Append(log, e)[Len(log) + 1] = e
         /\ \A i \in 1..Len(log) : Append(log, e)[i] = log[i]
OBVIOUS

\* R is the log of n rows `rows` with one more row, e.
Extends(R, rows, n, e) ==
  /\ DOMAIN rows = 1..n
  /\ DOMAIN R = 1..(n + 1)
  /\ R[n + 1] = e
  /\ \A i \in 1..n : R[i] = rows[i]

\* An audit log of m rows and an outbox of n rows report the same changes.
InStep(audit, m, rows, n) ==
  \E pos \in [1..m -> 1..n] : SameChanges(audit, rows, pos)

\* A row the two logs share keeps them in step.
LEMMA BothAppended ==
  ASSUME NEW n \in Nat, NEW m \in Nat, NEW rows, NEW audit, NEW R, NEW A,
         NEW e, Audited(e),
         Extends(R, rows, n, e), Extends(A, audit, m, e),
         InStep(audit, m, rows, n)
  PROVE  InStep(A, m + 1, R, n + 1)
<1>0. PICK pos \in [1..m -> 1..n] : SameChanges(audit, rows, pos)
  BY DEF InStep
<1> DEFINE f == [k \in 1..(m + 1) |-> IF k = m + 1 THEN n + 1 ELSE pos[k]]
<1>1. /\ DOMAIN rows = 1..n
      /\ DOMAIN R = 1..(n + 1)
      /\ R[n + 1] = e
      /\ \A i \in 1..n : R[i] = rows[i]
  BY DEF Extends
<1>2. /\ DOMAIN audit = 1..m
      /\ DOMAIN A = 1..(m + 1)
      /\ A[m + 1] = e
      /\ \A k \in 1..m : A[k] = audit[k]
  BY DEF Extends
<1>3. \A k \in 1..m : pos[k] \in 1..n
  OBVIOUS
<1>4. /\ DOMAIN f = 1..(m + 1)
      /\ f[m + 1] = n + 1
      /\ \A k \in 1..m : f[k] = pos[k]
  BY <1>2
<1>5. f \in [1..(m + 1) -> 1..(n + 1)]
  BY <1>3
<1> HIDE DEF f
<1>6. ASSUME NEW k \in 1..(m + 1), NEW l \in 1..(m + 1), k < l
      PROVE  f[k] < f[l]
  <2>1. k \in 1..m
    BY <1>2, <1>6
  <2>2. CASE l = m + 1
    BY <1>1, <1>3, <1>4, <2>1, <2>2
  <2>3. CASE l # m + 1
    <3>1. l \in 1..m
      BY <1>2, <2>3
    <3>2. pos[k] < pos[l]
      BY <1>0, <1>2, <1>6, <2>1, <3>1 DEF SameChanges
    <3> QED BY <1>4, <2>1, <3>1, <3>2
  <2> QED BY <2>2, <2>3
<1>7. ASSUME NEW k \in 1..(m + 1)
      PROVE  A[k] = R[f[k]]
  <2>1. CASE k = m + 1
    BY <1>1, <1>2, <1>4, <2>1
  <2>2. CASE k # m + 1
    <3>1. k \in 1..m
      BY <1>2, <2>2
    <3>2. audit[k] = rows[pos[k]]
      BY <1>0, <1>2, <3>1 DEF SameChanges
    <3> QED BY <1>1, <1>2, <1>3, <1>4, <3>1, <3>2
  <2> QED BY <2>1, <2>2
<1>8. ASSUME NEW i \in 1..(n + 1)
      PROVE  Audited(R[i]) <=> \E k \in 1..(m + 1) : f[k] = i
  <2>1. CASE i = n + 1
    <3>1. m + 1 \in 1..(m + 1)
      BY <1>2
    <3> QED BY <1>1, <1>4, <2>1, <3>1
  <2>2. CASE i # n + 1
    <3>1. i \in 1..n
      BY <1>1, <2>2
    <3>2. Audited(rows[i]) <=> \E k \in 1..m : pos[k] = i
      BY <1>0, <1>1, <1>2, <3>1 DEF SameChanges
    <3>3. \A k \in 1..(m + 1) : k = m + 1 \/ k \in 1..m
      BY <1>2
    <3>4. 1..m \subseteq 1..(m + 1)
      BY <1>2
    <3>5. (\E k \in 1..(m + 1) : f[k] = i) <=> (\E k \in 1..m : pos[k] = i)
      BY <1>4, <2>2, <3>3, <3>4
    <3> QED BY <1>1, <3>1, <3>2, <3>5
  <2> QED BY <2>1, <2>2
<1>9. SameChanges(A, R, f)
  BY <1>1, <1>2, <1>6, <1>7, <1>8 DEF SameChanges
<1> QED BY <1>5, <1>9 DEF InStep

\* A row with a reason that only the outbox has keeps the logs in step.
LEMMA RowAppended ==
  ASSUME NEW n \in Nat, NEW m \in Nat, NEW rows, NEW audit, NEW R,
         NEW e, ~Audited(e),
         Extends(R, rows, n, e), DOMAIN audit = 1..m,
         NEW pos \in [1..m -> 1..n], SameChanges(audit, rows, pos)
  PROVE  /\ pos \in [1..m -> 1..(n + 1)]
         /\ SameChanges(audit, R, pos)
<1>1. /\ DOMAIN rows = 1..n
      /\ DOMAIN R = 1..(n + 1)
      /\ R[n + 1] = e
      /\ \A i \in 1..n : R[i] = rows[i]
  BY DEF Extends
<1>2. \A k \in 1..m : pos[k] \in 1..n
  OBVIOUS
<1>3. pos \in [1..m -> 1..(n + 1)]
  OBVIOUS
<1>4. \A k \in 1..m : audit[k] = R[pos[k]]
  BY <1>1, <1>2 DEF SameChanges
<1>5. ASSUME NEW i \in 1..(n + 1)
      PROVE  Audited(R[i]) <=> \E k \in 1..m : pos[k] = i
  <2>1. CASE i = n + 1
    <3>1. \A k \in 1..m : pos[k] # n + 1
      BY <1>2
    <3> QED BY <1>1, <2>1, <3>1
  <2>2. CASE i # n + 1
    <3>1. i \in 1..n
      BY <2>2
    <3> QED BY <1>1, <3>1 DEF SameChanges
  <2> QED BY <2>1, <2>2
<1>6. SameChanges(audit, R, pos)
  BY <1>1, <1>4, <1>5 DEF SameChanges
<1> QED BY <1>3, <1>6

\* The audit log stays the outbox without the rows of markCancelled.
LEMMA AuditPreserved ==
  ASSUME IInv, [Next]_vars
  PROVE  AuditTrail'
<1> USE DEF IInv, TypeOK
<1> SUFFICES ASSUME NEW o \in Orders
             PROVE  \E pos \in [DOMAIN order_events'[o] -> DOMAIN outbox'[o]] :
                      SameChanges(order_events'[o], outbox'[o], pos)
  BY DEF AuditTrail
<1>1. PICK pos \in [DOMAIN order_events[o] -> DOMAIN outbox[o]] :
        SameChanges(order_events[o], outbox[o], pos)
  BY DEF AuditTrail
<1>2. order_events[o] \in Seq(Event) /\ outbox[o] \in Seq(Event)
  BY DEF StoreTypeOK
<1>3. CASE order_events'[o] = order_events[o] /\ outbox'[o] = outbox[o]
  BY <1>1, <1>3
<1> DEFINE m == Len(order_events[o])
           n == Len(outbox[o])
<1>4. /\ m \in Nat /\ DOMAIN order_events[o] = 1..m
      /\ n \in Nat /\ DOMAIN outbox[o] = 1..n
  BY <1>2
<1>5. \A e \in Event : /\ Extends(Append(order_events[o], e), order_events[o], m, e)
                      /\ Extends(Append(outbox[o], e), outbox[o], n, e)
  BY <1>2, LogAppended DEF Extends
<1> HIDE DEF m, n
<1>6. pos \in [1..m -> 1..n]
  BY <1>1, <1>4
<1>7. CASE BothWritten
  <2>1. PICK p \in Orders, e \in Event :
          Audited(e) /\ Audit(p, e) /\ Write(p, e)
    BY <1>7 DEF BothWritten
  <2>2. CASE p = o
    <3>1. /\ order_events'[o] = Append(order_events[o], e)
          /\ outbox'[o] = Append(outbox[o], e)
      BY <2>1, <2>2 DEF StoreTypeOK, Audit, Write
    <3>2. /\ Extends(order_events'[o], order_events[o], m, e)
          /\ Extends(outbox'[o], outbox[o], n, e)
      BY <1>5, <3>1
    <3>3. InStep(order_events[o], m, outbox[o], n)
      BY <1>1, <1>6 DEF InStep
    <3>4. InStep(order_events'[o], m + 1, outbox'[o], n + 1)
      BY <1>4, <2>1, <3>2, <3>3, BothAppended
    <3> QED BY <3>2, <3>4 DEF Extends, InStep
  <2>3. CASE p # o
    BY <1>3, <2>1, <2>3 DEF StoreTypeOK, Audit, Write
  <2> QED BY <2>2, <2>3
<1>8. CASE RowWritten
  <2>1. PICK p \in Orders : Write(p, NoRiderEvent) /\ UNCHANGED order_events
    BY <1>8 DEF RowWritten
  <2>2. CASE p = o
    <3>1. /\ order_events'[o] = order_events[o]
          /\ outbox'[o] = Append(outbox[o], NoRiderEvent)
      BY <2>1, <2>2 DEF StoreTypeOK, Write
    <3>2. NoRiderEvent \in Event /\ ~Audited(NoRiderEvent)
      BY EventsTyped DEF NoRiderEvent, Audited
    <3>3. Extends(outbox'[o], outbox[o], n, NoRiderEvent)
      BY <1>5, <3>1, <3>2
    <3>4. /\ pos \in [1..m -> 1..(n + 1)]
          /\ SameChanges(order_events[o], outbox'[o], pos)
      BY <1>1, <1>4, <1>6, <3>2, <3>3, RowAppended
    <3> QED BY <1>4, <3>1, <3>3, <3>4 DEF Extends
  <2>3. CASE p # o
    BY <1>3, <2>1, <2>3 DEF StoreTypeOK, Write
  <2> QED BY <2>2, <2>3
<1> QED BY <1>3, <1>7, <1>8, LogShape

\* An element of a list that is not its head is an element of its tail.
LEMMA InTail ==
  ASSUME NEW s \in Seq(Riders), NEW i \in DOMAIN s, i # 1
  PROVE  i - 1 \in DOMAIN Tail(s) /\ Tail(s)[i - 1] = s[i]
<1>1. Len(s) \in Nat /\ i \in 1..Len(s)
  OBVIOUS
<1>2. s # <<>>
  BY <1>1
<1>3. Len(Tail(s)) = Len(s) - 1 /\ Tail(s) \in Seq(Riders)
  BY <1>2
<1> QED BY <1>1, <1>2, <1>3

\* Each candidate stays accounted for: the one a worker moves past was not
\* AVAILABLE or had an error, and one that becomes AVAILABLE later does so
\* in a new stint.
LEMMA CandidatesPreserved ==
  ASSUME IInv, [Next]_vars
  PROVE  CandidatesAccounted'
<1> USE DEF IInv, TypeOK
<1> DEFINE Accounted(a, r, status, k) ==
             /\ k >= a.since[r]
             /\ \/ r \in a.errored
                \/ \E i \in DOMAIN a.todo : a.todo[i] = r
                \/ status = "AVAILABLE" => k > a.since[r]
<1> SUFFICES ASSUME NEW w \in Workers, workers'[w].pc \in {"claim", "cancel"},
                    NEW r \in workers'[w].found
             PROVE  Accounted(workers'[w], r, riders'[r], stint'[r])
  BY DEF CandidatesAccounted
<1>1. \* A rider known to a worker keeps its account when riders change.
      ASSUME NEW a \in Assignments, NEW x \in Riders,
             Accounted(a, x, riders[x], stint[x])
      PROVE  Accounted(a, x, riders'[x], stint'[x])
  <2>1. a.since[x] \in Nat /\ stint[x] \in Nat
    BY DEF Assignments, StoreTypeOK
  <2>2. \/ stint'[x] = stint[x] /\ riders'[x] = riders[x]
        \/ stint'[x] = stint[x] + 1
        \/ /\ stint'[x] = stint[x]
           /\ riders[x] = "AVAILABLE" \/ riders'[x] # "AVAILABLE"
    <3>1. CASE Quiet \/ StatusWrite
      BY <3>1 DEF Quiet, StatusWrite
    <3>2. CASE RiderSet
      BY <3>2 DEF RiderSet, StoreTypeOK
    <3>3. CASE Claim
      BY <3>3 DEF Claim, ClaimTx, StoreTypeOK
    <3> QED BY <3>1, <3>2, <3>3, StepShape
  <2> QED BY <1>1, <2>1, <2>2
<1>2. ASSUME NEW a \in Assignments, a.pc \in {"claim", "cancel"},
             workers[w] = a, r \in a.found
      PROVE  r \in Riders /\ Accounted(a, r, riders[r], stint[r])
  BY <1>2 DEF CandidatesAccounted, Assignments
<1>3. CASE workers'[w] = workers[w]
  <2>1. workers[w] \in Assignments
    BY <1>3, WorkerTyped DEF NoWork
  <2> QED BY <1>1, <1>2, <1>3, <2>1
<1>4. ASSUME NEW o \in Orders, NEW c \in nearestAvailableRiders,
             Assign(w, o, c)
      PROVE  Accounted(workers'[w], r, riders'[r], stint'[r])
  <2>1. /\ workers'[w].todo = c
        /\ workers'[w].found = {c[i] : i \in DOMAIN c}
        /\ workers'[w].since =
             [x \in Riders |-> IF x \in {c[i] : i \in DOMAIN c}
                                 THEN stint[x] ELSE 0]
        /\ stint' = stint
    BY <1>4 DEF Assign, WorkersTypeOK, storeVars
  <2>2. c \in Seq(Riders)
    BY CandidatesTyped
  <2>3. r \in Riders /\ \E i \in DOMAIN c : c[i] = r
    BY <2>1, <2>2
  <2>4. workers'[w].since[r] = stint[r] /\ stint[r] \in Nat
    BY <2>1, <2>3 DEF StoreTypeOK
  <2> QED BY <2>1, <2>3, <2>4
<1>5. ASSUME NEW errored \in SUBSET Riders, workers[w].pc = "claim",
             NextCandidate(w, errored), workers[w].errored \subseteq errored,
             \/ Head(workers[w].todo) \in errored
             \/ riders[Head(workers[w].todo)] # "AVAILABLE" /\ riders' = riders
      PROVE  Accounted(workers'[w], r, riders'[r], stint'[r])
  <2> DEFINE a == workers[w]
             b == workers'[w]
  <2>1. a \in Assignments /\ a.todo \in Seq(Riders) /\ a.todo # <<>>
    BY <1>5, WorkerTyped DEF NoWork, Assignments, WorkersTypeOK
  <2>2. /\ b.todo = Tail(a.todo) /\ b.errored = errored
        /\ b.since = a.since /\ b.found = a.found
    BY <1>5, <2>1 DEF NextCandidate, WorkersTypeOK, Assignments
  <2>3. r \in Riders /\ Accounted(a, r, riders[r], stint[r])
    BY <1>2, <1>5, <2>1, <2>2
  <2>4. Accounted(a, r, riders'[r], stint'[r])
    BY <1>1, <2>1, <2>3
  <2>5. ASSUME NEW i \in DOMAIN a.todo, a.todo[i] = r
        PROVE  r = Head(a.todo) \/ \E j \in DOMAIN b.todo : b.todo[j] = r
    <3>1. CASE i = 1
      BY <2>1, <2>5, <3>1
    <3>2. CASE i # 1
      <4>1. i - 1 \in DOMAIN Tail(a.todo) /\ Tail(a.todo)[i - 1] = a.todo[i]
        BY <2>1, <2>5, <3>2, InTail
      <4> QED BY <2>2, <2>5, <4>1
    <3> QED BY <3>1, <3>2
  <2> QED BY <1>5, <2>2, <2>4, <2>5
<1>6. CASE AssignmentNext
  <2>1. workers'[w] # NoWork /\ workers'[w].pc # "zrem"
    BY DEF NoWork
  <2>2. ASSUME NEW v \in Workers, v # w,
               \/ \E errored : NextCandidate(v, errored)
               \/ \E o \in Orders, c \in nearestAvailableRiders : Assign(v, o, c)
               \/ ClaimWon(v)
        PROVE  workers'[w] = workers[w]
    BY <2>2 DEF NextCandidate, Assign, ClaimWon, WorkersTypeOK
  <2>3. ASSUME NEW v \in Workers, workers' = [workers EXCEPT ![v] = NoWork]
        PROVE  workers'[w] = workers[w]
    BY <2>1, <2>3 DEF WorkersTypeOK
  <2>4. ~ClaimWon(w)
    <3>1. ASSUME ClaimWon(w) PROVE FALSE
      <4>1. workers[w] \in Assignments
        BY <3>1, WorkerTyped DEF ClaimWon, NoWork
      <4> QED BY <2>1, <3>1, <4>1 DEF ClaimWon, WorkersTypeOK, Assignments
    <3> QED BY <3>1
  <2>5. ASSUME ClaimLost(w) \/ ClaimError(w) \/ ClaimCommitLost(w)
        PROVE  Accounted(workers'[w], r, riders'[r], stint'[r])
    <3>1. workers[w].pc = "claim"
      BY <2>5 DEF ClaimLost, ClaimError, ClaimCommitLost
    <3>2. workers[w].errored \in SUBSET Riders /\ Head(workers[w].todo) \in Riders
      BY <3>1, WorkerTyped DEF NoWork, Assignments
    <3>3. CASE ClaimLost(w)
      BY <1>5, <3>1, <3>2, <3>3 DEF ClaimLost, storeVars
    <3>4. CASE ClaimError(w) \/ ClaimCommitLost(w)
      BY <1>5, <3>1, <3>2, <3>4 DEF ClaimError, ClaimCommitLost
    <3> QED BY <2>5, <3>3, <3>4
  <2>6. CASE \E v \in Workers, o \in Orders :
               \/ \E c \in nearestAvailableRiders : Assign(v, o, c)
               \/ AssignFail(v, o)
    BY <1>3, <1>4, <2>2, <2>6 DEF AssignFail
  <2>7. CASE \E v \in Workers : ClaimLost(v) \/ ClaimError(v) \/ ClaimCommitLost(v)
    BY <1>3, <2>2, <2>5, <2>7 DEF ClaimLost, ClaimError, ClaimCommitLost
  <2>8. CASE \E v \in Workers :
               ClaimWon(v) \/ RemoveFromGeo(v) \/ MarkCancelled(v) \/ GiveUp(v)
    BY <1>3, <2>2, <2>3, <2>4, <2>8 DEF RemoveFromGeo, MarkCancelled, GiveUp
  <2> QED BY <1>6, <2>6, <2>7, <2>8 DEF AssignmentNext, AssignmentStep
<1>7. CASE UNCHANGED assignmentVars
  BY <1>3, <1>7 DEF assignmentVars
<1> QED BY <1>6, <1>7 DEF Next, vars

-----------------------------------------------------------------------------

\* The invariant holds initially.
LEMMA InitIInv == Init => IInv
<1> SUFFICES ASSUME Init PROVE IInv
  OBVIOUS
<1>1. TypeOK
  BY InitTypes
<1>2. \A o \in Orders : outbox[o] = <<>> /\ DOMAIN outbox[o] = {}
  BY DEF Init, StoreInit
<1>3. OutboxMirrorsOrder
  BY <1>2 DEF Init, StoreInit, OutboxMirrorsOrder, StatusMirrored,
              RiderMirrored, Placed
<1>4. CausalHistory /\ ClaimOncePerStint /\ StintLedger
  BY <1>2 DEF CausalHistory, ClaimOncePerStint, StintLedger
<1>5. RequestsGrounded
  BY DEF Init, OrderServiceInit, NoRequest, RequestsGrounded
<1>6. WorkersGrounded /\ RemovalsGrounded /\ CandidatesAccounted
  BY DEF Init, AssignmentInit, NoWork, WorkersGrounded, RemovalsGrounded,
         CandidatesAccounted
<1>7. AuditTrail
  <2> SUFFICES ASSUME NEW o \in Orders
               PROVE  \E pos \in [DOMAIN order_events[o] -> DOMAIN outbox[o]] :
                        SameChanges(order_events[o], outbox[o], pos)
    BY DEF AuditTrail
  <2>1. DOMAIN order_events[o] = {} /\ DOMAIN outbox[o] = {}
    BY <1>2 DEF Init, StoreInit
  <2>2. [k \in {} |-> k] \in [DOMAIN order_events[o] -> DOMAIN outbox[o]]
    BY <2>1
  <2>3. \A pos : SameChanges(order_events[o], outbox[o], pos)
    BY <2>1 DEF SameChanges
  <2> QED BY <2>2, <2>3
<1> QED BY <1>1, <1>3, <1>4, <1>5, <1>6, <1>7 DEF IInv

\* Every step preserves the invariant.
LEMMA NextIInv ==
  ASSUME IInv, [Next]_vars
  PROVE  IInv'
<1>1. TypeOK'
  BY NextTypes DEF IInv
<1> QED BY <1>1, MirrorPreserved, CausalPreserved, ClaimsPreserved,
           GroundedPreserved, RemovalsPreserved, AuditPreserved,
           CandidatesPreserved DEF IInv

\* The inductive invariant holds throughout.
THEOREM Invariance == Spec => []IInv
BY InitIInv, NextIInv, PTL DEF Spec

\* The last events of every order in the outbox carry the status and the
\* rider the orders table holds, for any number of services and requests.
THEOREM OutboxMirrors == Spec => []OutboxMirrorsOrder
<1>1. IInv => OutboxMirrorsOrder
  BY DEF IInv
<1> QED BY <1>1, Invariance, PTL

\* Every status update follows, by validTransitions, from a status the order
\* has had, although UpdateStatus does not look at the current one.
THEOREM HistoryIsCausal == Spec => []CausalHistory
<1>1. IInv => CausalHistory
  BY DEF IInv
<1> QED BY <1>1, Invariance, PTL

\* The status guard in claimRider is enough: no period of availability of a
\* rider is ever given to two orders, or twice to one.
THEOREM ClaimIsExclusive == Spec => []ClaimOncePerStint
<1>1. IInv => ClaimOncePerStint
  BY DEF IInv
<1> QED BY <1>1, Invariance, PTL

\* Assign gives an order up only when each candidate it found was not to be
\* had at some time since the search, or its claim had an error.
THEOREM NobodyOverlooked == Spec => []NoRiderOverlooked
<1>1. IInv => NoRiderOverlooked
  <2> SUFFICES ASSUME IInv, NEW w \in Workers, workers[w].pc = "cancel",
                      NEW r \in workers[w].found \ workers[w].errored,
                      riders[r] = "AVAILABLE"
               PROVE  stint[r] > workers[w].since[r]
    BY DEF NoRiderOverlooked
  <2>1. workers[w].todo = <<>>
    BY DEF IInv, TypeOK, WorkersTypeOK
  <2>2. DOMAIN workers[w].todo = {}
    BY <2>1
  <2> QED BY <2>2 DEF IInv, CandidatesAccounted
<1> QED BY <1>1, Invariance, PTL

\* order_events and the outbox report the same changes in the same order,
\* except for the cancellations of markCancelled, which order_events misses.
THEOREM AuditIsFaithful == Spec => []AuditTrail
<1>1. IInv => AuditTrail
  BY DEF IInv
<1> QED BY <1>1, Invariance, PTL

\* A rider who is AVAILABLE and in the index, with no status request under
\* way, leaves it only if a claim of theirs from an earlier stint was announced.
THEOREM DropOutWasClaimed == Spec => OnlyClaimedRidersDropOut
<1> DEFINE P == \A r \in geo \ geo' :
                  /\ riders[r] = "AVAILABLE"
                  /\ \A q \in RiderRequests : riderRequests[q].rider # r
                  => \E o \in Orders : \E i \in DOMAIN outbox[o] :
                       outbox[o][i].rider = r /\ outbox[o][i].stint < stint[r]
<1>1. IInv /\ [Next]_vars => [P]_vars
  <2> SUFFICES ASSUME IInv, Next, NEW r \in geo \ geo',
                      riders[r] = "AVAILABLE",
                      \A q \in RiderRequests : riderRequests[q].rider # r
               PROVE  \E o \in Orders : \E i \in DOMAIN outbox[o] :
                        outbox[o][i].rider = r /\ outbox[o][i].stint < stint[r]
    OBVIOUS
  <2> USE DEF IInv, TypeOK
  <2>1. PICK w \in Workers : RemoveFromGeo(w) /\ Head(workers[w].todo) = r
    <3>1. CASE OrderServiceNext
      BY <3>1 DEF OrderServiceNext, Place, Transition, UpdateStatus,
                  AbortRequest, storeVars
    <3>2. CASE RiderPoolNext
      BY <3>2 DEF RiderPoolNext, RiderServiceNext, LocationServiceNext,
                  Register, SetStatus, UpdateLocation, SyncGeo, SyncGeoFail
    <3>3. CASE AssignmentNext
      BY <3>3 DEF AssignmentNext, AssignmentStep, Assign, AssignFail,
                  ClaimWon, ClaimLost, ClaimError, ClaimCommitLost,
                  RemoveFromGeo, MarkCancelled, GiveUp, storeVars
    <3> QED BY <3>1, <3>2, <3>3 DEF Next
  <2>2. PICK o \in Orders : \E i \in DOMAIN outbox[o] : outbox[o][i].rider = r
    BY <2>1 DEF RemoveFromGeo, RemovalsGrounded
  <2>3. PICK i \in DOMAIN outbox[o] : outbox[o][i].rider = r
    BY <2>2
  <2>4. r \in Riders
    BY DEF StoreTypeOK
  <2>5. ReportsRider(outbox[o][i])
    BY <2>3, <2>4, NoRiderAssumption DEF ReportsRider
  <2> QED BY <2>3, <2>5 DEF StintLedger
<1> QED BY <1>1, Invariance, PTL DEF Spec, OnlyClaimedRidersDropOut

-----------------------------------------------------------------------------
(***************************************************************************)
(* A delivery takes at most one rider.                                     *)
(***************************************************************************)

\* The announced claims of an order are finitely many.
LEMMA ClaimsFinite ==
  ASSUME StoreTypeOK, NEW o \in Orders
  PROVE  IsFiniteSet(Claims(o)) /\ Cardinality(Claims(o)) \in Nat
<1>1. outbox[o] \in Seq(Event)
  BY DEF StoreTypeOK
<1>2. Len(outbox[o]) \in Nat /\ Claims(o) \in SUBSET (1..Len(outbox[o]))
  BY <1>1 DEF Claims
<1>3. IsFiniteSet(1..Len(outbox[o]))
  BY <1>2, FS_Interval
<1>4. IsFiniteSet(Claims(o))
  BY <1>2, <1>3, FS_Subset
<1> QED BY <1>4, FS_CardinalityType

\* A row that names a rider is one more claim of its order; any other row
\* changes no claim.
LEMMA ClaimsWritten ==
  ASSUME StoreTypeOK, NEW o \in Orders, NEW e \in Event, Write(o, e)
  PROVE  /\ \A p \in Orders \ {o} : Claims(p)' = Claims(p)
         /\ ~ReportsRider(e) => Claims(o)' = Claims(o)
         /\ ReportsRider(e) => Cardinality(Claims(o)') = Cardinality(Claims(o)) + 1
<1> DEFINE n == Len(outbox[o])
<1>1. /\ n \in Nat
      /\ DOMAIN outbox[o] = 1..n
      /\ DOMAIN outbox'[o] = 1..(n + 1)
      /\ outbox'[o][n + 1] = e
      /\ \A i \in 1..n : outbox'[o][i] = outbox[o][i]
      /\ \A p \in Orders \ {o} : outbox'[p] = outbox[p]
  BY Appended
<1>2. \A p \in Orders \ {o} : Claims(p)' = Claims(p)
  BY <1>1 DEF Claims
<1>3. 1..(n + 1) = 1..n \union {n + 1} /\ n + 1 \notin 1..n
  BY <1>1
<1> HIDE DEF n
<1>4. ASSUME ~ReportsRider(e) PROVE Claims(o)' = Claims(o)
  BY <1>1, <1>3, <1>4 DEF Claims, ReportsRider
<1>5. ASSUME ReportsRider(e)
      PROVE  Cardinality(Claims(o)') = Cardinality(Claims(o)) + 1
  <2>1. Claims(o)' = Claims(o) \union {n + 1}
    BY <1>1, <1>3, <1>5 DEF Claims, ReportsRider
  <2>2. n + 1 \notin Claims(o)
    BY <1>1, <1>3 DEF Claims
  <2> QED BY <2>1, <2>2, ClaimsFinite, FS_AddElement
<1> QED BY <1>2, <1>4, <1>5

\* The account of one order.
Accounted(o) ==
  /\ IsFiniteSet(Claiming(o))
  /\ Cardinality(Claims(o)) + Cardinality(Claiming(o)) <= deliveries[o] + faults

\* A step that neither claims nor lets a worker begin keeps the account.
LEMMA AccountKept ==
  ASSUME TypeOK, TypeOK', NEW o \in Orders, Accounted(o),
         Claims(o)' = Claims(o), Claiming(o)' \subseteq Claiming(o),
         deliveries'[o] >= deliveries[o], faults' >= faults
  PROVE  Accounted(o)'
<1>1. /\ IsFiniteSet(Claiming(o)')
      /\ Cardinality(Claiming(o)') <= Cardinality(Claiming(o))
  BY FS_Subset DEF Accounted
<1>2. Cardinality(Claiming(o)') \in Nat /\ Cardinality(Claiming(o)) \in Nat
  BY <1>1, FS_CardinalityType DEF Accounted
<1>3. Cardinality(Claims(o)) \in Nat
  BY ClaimsFinite DEF TypeOK
<1>4. /\ deliveries[o] \in Nat /\ deliveries'[o] \in Nat
      /\ faults \in Nat /\ faults' \in Nat
  BY MaxDeliveriesAssumption, MaxFaultsAssumption
     DEF TypeOK, WorkersTypeOK, StoreTypeOK
<1> QED BY <1>1, <1>2, <1>3, <1>4 DEF Accounted

\* A claim is paid for: by its worker, who claims no more, or by a failure.
LEMMA ClaimPaid ==
  ASSUME TypeOK, TypeOK', NEW o \in Orders, Accounted(o),
         NEW w \in Claiming(o),
         Cardinality(Claims(o)') = Cardinality(Claims(o)) + 1,
         deliveries' = deliveries,
         \/ Claiming(o)' = Claiming(o) \ {w} /\ faults' = faults
         \/ Claiming(o)' \subseteq Claiming(o) /\ faults' = faults + 1
  PROVE  Accounted(o)'
<1>1. Cardinality(Claims(o)) \in Nat /\ Cardinality(Claiming(o)) \in Nat
  BY ClaimsFinite, FS_CardinalityType DEF TypeOK, Accounted
<1>2. deliveries[o] \in Nat /\ faults \in Nat
  BY MaxDeliveriesAssumption, MaxFaultsAssumption
     DEF TypeOK, WorkersTypeOK, StoreTypeOK
<1>3. CASE Claiming(o)' = Claiming(o) \ {w} /\ faults' = faults
  <2>1. /\ IsFiniteSet(Claiming(o)')
        /\ Cardinality(Claiming(o)') = Cardinality(Claiming(o)) - 1
    BY <1>3, FS_RemoveElement DEF Accounted
  <2> QED BY <1>1, <1>2, <1>3, <2>1 DEF Accounted
<1>4. CASE Claiming(o)' \subseteq Claiming(o) /\ faults' = faults + 1
  <2>1. /\ IsFiniteSet(Claiming(o)')
        /\ Cardinality(Claiming(o)') <= Cardinality(Claiming(o))
    BY <1>4, FS_Subset DEF Accounted
  <2>2. Cardinality(Claiming(o)') \in Nat
    BY <2>1, FS_CardinalityType
  <2> QED BY <1>1, <1>2, <1>4, <2>1, <2>2 DEF Accounted
<1> QED BY <1>3, <1>4

\* A delivery pays for the worker it starts.
LEMMA DeliveryPays ==
  ASSUME TypeOK, NEW o \in Orders, Accounted(o), NEW w,
         Claims(o)' = Claims(o), Claiming(o)' \subseteq Claiming(o) \union {w},
         deliveries'[o] = deliveries[o] + 1, faults' = faults
  PROVE  Accounted(o)'
<1>1. Cardinality(Claims(o)) \in Nat /\ Cardinality(Claiming(o)) \in Nat
  BY ClaimsFinite, FS_CardinalityType DEF TypeOK, Accounted
<1>2. deliveries[o] \in Nat /\ faults \in Nat
  BY MaxDeliveriesAssumption, MaxFaultsAssumption
     DEF TypeOK, WorkersTypeOK, StoreTypeOK
<1>3. /\ IsFiniteSet(Claiming(o) \union {w})
      /\ Cardinality(Claiming(o) \union {w}) <= Cardinality(Claiming(o)) + 1
  BY <1>1, FS_AddElement DEF Accounted
<1>4. /\ IsFiniteSet(Claiming(o)')
      /\ Cardinality(Claiming(o)') <= Cardinality(Claiming(o) \union {w})
  BY <1>3, FS_Subset
<1>5. /\ Cardinality(Claiming(o)') \in Nat
      /\ Cardinality(Claiming(o) \union {w}) \in Nat
  BY <1>3, <1>4, FS_CardinalityType
<1> QED BY <1>1, <1>2, <1>3, <1>4, <1>5 DEF Accounted

\* A worker's step changes no other worker's part in an account.
LEMMA ClaimingOf ==
  ASSUME TypeOK, NEW w \in Workers, NEW a, NEW o \in Orders,
         workers' = [workers EXCEPT ![w] = a]
  PROVE  /\ Claiming(o)' \subseteq Claiming(o) \union {w}
         /\ a.pc # "claim" => Claiming(o)' = Claiming(o) \ {w}
         /\ a.order # o => Claiming(o)' = Claiming(o) \ {w}
         /\ a.order = workers[w].order /\ workers[w].pc = "claim"
              => Claiming(o)' \subseteq Claiming(o)
<1>1. workers'[w] = a /\ \A v \in Workers \ {w} : workers'[v] = workers[v]
  BY DEF TypeOK, WorkersTypeOK
<1> QED BY <1>1 DEF Claiming

\* The steps of the other services keep every account.
LEMMA AccountsElsewhere ==
  ASSUME IInv, TypeOK', NEW o \in Orders, Accounted(o),
         OrderServiceNext \/ RiderPoolNext, UNCHANGED assignmentVars
  PROVE  Accounted(o)'
<1>0. TypeOK /\ StoreTypeOK
  BY DEF IInv, TypeOK
<1>1. /\ Claiming(o)' = Claiming(o)
      /\ deliveries' = deliveries
      /\ deliveries[o] \in Nat /\ faults \in Nat
  BY <1>0, MaxDeliveriesAssumption, MaxFaultsAssumption
     DEF assignmentVars, Claiming, TypeOK, WorkersTypeOK, StoreTypeOK
<1>2. ASSUME NEW p \in Orders, NEW e \in Event, Write(p, e), e.rider = NoRider
      PROVE  Claims(o)' = Claims(o)
  BY <1>0, <1>2, ClaimsWritten DEF ReportsRider
<1>3. ASSUME outbox' = outbox PROVE Claims(o)' = Claims(o)
  BY <1>3 DEF Claims
<1>4. CASE OrderServiceNext
  <2>1. ASSUME NEW p \in Orders, Place(p) PROVE Claims(o)' = Claims(o)
    BY <1>2, <2>1, EventsTyped DEF Place, OrderPlacedEvent
  <2>2. ASSUME NEW q \in Requests, UpdateStatus(q) PROVE Claims(o)' = Claims(o)
    <3>1. requests[q].order \in Orders /\ requests[q].to \in Statuses
      BY <1>0, <2>2 DEF UpdateStatus, NoRequest, TypeOK, RequestsTypeOK
    <3>2. /\ StatusUpdatedEvent(requests[q].to) \in Event
          /\ StatusUpdatedEvent(requests[q].to).rider = NoRider
      BY <3>1, EventsTyped DEF StatusUpdatedEvent
    <3>3. Write(requests[q].order, StatusUpdatedEvent(requests[q].to))
      BY <2>2 DEF UpdateStatus
    <3> QED BY <1>2, <3>1, <3>2, <3>3
  <2>3. Claims(o)' = Claims(o)
    BY <1>3, <1>4, <2>1, <2>2
       DEF OrderServiceNext, Transition, AbortRequest, storeVars, tables
  <2>4. faults' = faults
    BY <1>4 DEF OrderServiceNext, Place, UpdateStatus, Transition,
                AbortRequest, storeVars
  <2> QED BY <1>0, <1>1, <2>3, <2>4, AccountKept
<1>5. CASE RiderPoolNext
  <2>1. outbox' = outbox /\ (faults' = faults \/ faults' = faults + 1)
    BY <1>5 DEF RiderPoolNext, RiderServiceNext, LocationServiceNext, Register,
                SetStatus, UpdateLocation, SyncGeo, SyncGeoFail, Fault, tables
  <2> QED BY <1>0, <1>1, <1>3, <2>1, AccountKept
<1> QED BY <1>4, <1>5

\* The steps of assignment-service keep every account.
LEMMA AccountsOfWorkers ==
  ASSUME IInv, TypeOK', NEW o \in Orders, Accounted(o), AssignmentNext
  PROVE  Accounted(o)'
<1>0. TypeOK /\ StoreTypeOK /\ WorkersTypeOK
  BY DEF IInv, TypeOK
<1>1. deliveries[o] \in Nat /\ faults \in Nat
  BY <1>0, MaxDeliveriesAssumption, MaxFaultsAssumption
     DEF WorkersTypeOK, StoreTypeOK
<1>2. ASSUME outbox' = outbox PROVE Claims(o)' = Claims(o)
  BY <1>2 DEF Claims
<1>3. ASSUME NEW w \in Workers, NEW p \in Orders,
             NEW c \in nearestAvailableRiders, Assign(w, p, c)
      PROVE  Accounted(o)'
  <2>1. outbox' = outbox /\ faults' = faults
    BY <1>3 DEF Assign, storeVars, tables
  <2>2. deliveries' = [deliveries EXCEPT ![p] = @ + 1]
    BY <1>3 DEF Assign
  <2> DEFINE found == {c[i] : i \in DOMAIN c}
             a == [pc |-> Continue(c), order |-> p, todo |-> c, found |-> found,
                   since |-> [r \in Riders |-> IF r \in found THEN stint[r] ELSE 0],
                   errored |-> {}]
  <2>3. workers' = [workers EXCEPT ![w] = a] /\ a.order = p
    BY <1>3 DEF Assign
  <2> HIDE DEF a
  <2>4. CASE p = o
    <3>1. deliveries'[o] = deliveries[o] + 1
      BY <1>0, <2>2, <2>4 DEF WorkersTypeOK
    <3>2. Claiming(o)' \subseteq Claiming(o) \union {w}
      BY <1>0, <2>3, ClaimingOf
    <3> QED BY <1>0, <1>2, <2>1, <3>1, <3>2, DeliveryPays
  <2>5. CASE p # o
    <3>1. deliveries'[o] = deliveries[o]
      BY <1>0, <2>2, <2>5 DEF WorkersTypeOK
    <3>2. Claiming(o)' = Claiming(o) \ {w}
      BY <1>0, <2>3, <2>5, ClaimingOf
    <3>3. Claiming(o)' \subseteq Claiming(o)
      BY <3>2
    <3> QED BY <1>0, <1>1, <1>2, <2>1, <3>1, <3>3, AccountKept
  <2> QED BY <2>4, <2>5
<1>4. ASSUME NEW w \in Workers, NEW p \in Orders, AssignFail(w, p)
      PROVE  Accounted(o)'
  <2>1. outbox' = outbox /\ workers' = workers /\ faults' = faults + 1
    BY <1>4 DEF AssignFail, Fault, tables
  <2>2. deliveries'[o] >= deliveries[o]
    BY <1>0, <1>1, <1>4 DEF AssignFail, WorkersTypeOK
  <2>3. Claiming(o)' = Claiming(o)
    BY <2>1 DEF Claiming
  <2> QED BY <1>0, <1>1, <1>2, <2>1, <2>2, <2>3, AccountKept
<1>5. ASSUME NEW w \in Workers, ClaimWon(w) \/ ClaimCommitLost(w)
      PROVE  Accounted(o)'
  <2> DEFINE p == workers[w].order
             r == Head(workers[w].todo)
             e == OrderAssignedEvent(r, stint[r])
  <2>1. workers[w].pc = "claim" /\ ClaimTx(p, r) /\ deliveries' = deliveries
    BY <1>5 DEF ClaimWon, ClaimCommitLost
  <2>2. workers[w] \in Assignments /\ p \in Orders /\ r \in Riders
    BY <1>0, <2>1, WorkerTyped DEF NoWork, Assignments
  <2>3. e \in Event /\ e.rider = r
    BY <1>0, <2>2, EventsTyped DEF StoreTypeOK, OrderAssignedEvent
  <2>4. Write(p, e) /\ ReportsRider(e)
    BY <2>1, <2>2, <2>3, NoRiderAssumption DEF ClaimTx, ReportsRider
  <2>5. \/ /\ workers' = [workers EXCEPT ![w] = [workers[w] EXCEPT !.pc = "zrem"]]
           /\ faults' = faults
        \/ /\ \E x, y, z : workers' = [workers EXCEPT ![w] =
                [workers[w] EXCEPT !.pc = x, !.todo = y, !.errored = z]]
           /\ faults' = faults + 1
    BY <1>5 DEF ClaimWon, ClaimCommitLost, NextCandidate, Fault
  <2>6. \/ Claiming(o)' = Claiming(o) \ {w} /\ faults' = faults
        \/ Claiming(o)' \subseteq Claiming(o) /\ faults' = faults + 1
    <3>1. CASE /\ workers' = [workers EXCEPT ![w] =
                    [workers[w] EXCEPT !.pc = "zrem"]]
               /\ faults' = faults
      <4> DEFINE a == [workers[w] EXCEPT !.pc = "zrem"]
      <4>1. a.pc # "claim" /\ workers' = [workers EXCEPT ![w] = a]
        BY <2>2, <3>1 DEF Assignments
      <4> HIDE DEF a
      <4>2. Claiming(o)' = Claiming(o) \ {w}
        BY <1>0, <4>1, ClaimingOf
      <4> QED BY <3>1, <4>2
    <3>2. CASE /\ \E x, y, z : workers' = [workers EXCEPT ![w] =
                    [workers[w] EXCEPT !.pc = x, !.todo = y, !.errored = z]]
               /\ faults' = faults + 1
      <4>1. PICK x, y, z : workers' = [workers EXCEPT ![w] =
              [workers[w] EXCEPT !.pc = x, !.todo = y, !.errored = z]]
        BY <3>2
      <4> DEFINE a == [workers[w] EXCEPT !.pc = x, !.todo = y, !.errored = z]
      <4>2. a.order = workers[w].order
        BY <2>2 DEF Assignments
      <4>3. workers' = [workers EXCEPT ![w] = a]
        BY <4>1
      <4> HIDE DEF a
      <4>4. Claiming(o)' \subseteq Claiming(o)
        BY <1>0, <2>1, <4>2, <4>3, ClaimingOf
      <4> QED BY <3>2, <4>4
    <3> QED BY <2>5, <3>1, <3>2
  <2> HIDE DEF p, r, e
  <2>7. CASE p = o
    <3>1. Cardinality(Claims(o)') = Cardinality(Claims(o)) + 1
      BY <1>0, <2>2, <2>3, <2>4, <2>7, ClaimsWritten
    <3>2. w \in Claiming(o)
      BY <2>1, <2>7 DEF Claiming, p
    <3> QED BY <1>0, <2>1, <2>6, <3>1, <3>2, ClaimPaid
  <2>8. CASE p # o
    <3>1. Claims(o)' = Claims(o)
      BY <1>0, <2>2, <2>3, <2>4, <2>8, ClaimsWritten
    <3>2. /\ Claiming(o)' \subseteq Claiming(o)
          /\ faults' >= faults /\ deliveries'[o] >= deliveries[o]
      BY <1>1, <2>1, <2>6
    <3> QED BY <1>0, <3>1, <3>2, AccountKept
  <2> QED BY <2>7, <2>8
<1>6. ASSUME NEW w \in Workers, ClaimLost(w) \/ ClaimError(w)
      PROVE  Accounted(o)'
  <2>1. /\ workers[w].pc = "claim" /\ deliveries' = deliveries
        /\ outbox' = outbox /\ (faults' = faults \/ faults' = faults + 1)
    BY <1>6 DEF ClaimLost, ClaimError, Fault, storeVars, tables
  <2>2. PICK x, y, z : workers' = [workers EXCEPT ![w] =
          [workers[w] EXCEPT !.pc = x, !.todo = y, !.errored = z]]
    BY <1>6 DEF ClaimLost, ClaimError, NextCandidate
  <2> DEFINE a == [workers[w] EXCEPT !.pc = x, !.todo = y, !.errored = z]
  <2>3. a.order = workers[w].order
    BY <1>0, <2>1, WorkerTyped DEF NoWork, Assignments
  <2>4. workers' = [workers EXCEPT ![w] = a]
    BY <2>2
  <2> HIDE DEF a
  <2>5. Claiming(o)' \subseteq Claiming(o)
    BY <1>0, <2>1, <2>3, <2>4, ClaimingOf
  <2> QED BY <1>0, <1>1, <1>2, <2>1, <2>5, AccountKept
<1>7. ASSUME NEW w \in Workers,
             RemoveFromGeo(w) \/ MarkCancelled(w) \/ GiveUp(w)
      PROVE  Accounted(o)'
  <2>1. /\ workers' = [workers EXCEPT ![w] = NoWork] /\ deliveries' = deliveries
        /\ faults' = faults \/ faults' = faults + 1
    BY <1>7 DEF RemoveFromGeo, MarkCancelled, GiveUp, Fault
  <2>2. NoWork.pc # "claim"
    BY DEF NoWork
  <2>3. Claiming(o)' = Claiming(o) \ {w}
    BY <1>0, <2>1, <2>2, ClaimingOf
  <2>4. Claims(o)' = Claims(o)
    <3>1. CASE outbox' = outbox
      BY <1>2, <3>1
    <3>2. CASE outbox' # outbox
      <4>1. /\ MarkCancelled(w)
            /\ Write(workers[w].order, NoRiderEvent)
        BY <1>7, <3>2 DEF RemoveFromGeo, MarkCancelled, GiveUp, tables
      <4>2. workers[w].order \in Orders
        BY <1>0, <4>1, WorkerTyped DEF MarkCancelled, NoWork, Assignments
      <4>3. NoRiderEvent \in Event /\ ~ReportsRider(NoRiderEvent)
        BY EventsTyped DEF NoRiderEvent, ReportsRider
      <4> QED BY <1>0, <4>1, <4>2, <4>3, ClaimsWritten
    <3> QED BY <3>1, <3>2
  <2> QED BY <1>0, <1>1, <2>1, <2>3, <2>4, AccountKept
<1> QED BY <1>3, <1>4, <1>5, <1>6, <1>7 DEF AssignmentNext, AssignmentStep

\* However often order.placed is delivered and whoever handles it, an order
\* takes no more riders than it had deliveries and failures.
THEOREM DeliveryTakesOneRider == Spec => []ClaimsPerDelivery
<1>1. Init => DeliveriesAccounted
  <2> SUFFICES ASSUME Init, NEW o \in Orders PROVE Accounted(o)
    BY DEF DeliveriesAccounted, Accounted
  <2>1. Claims(o) = {}
    BY DEF Init, StoreInit, Claims
  <2>2. Claiming(o) = {}
    BY DEF Init, AssignmentInit, NoWork, Claiming
  <2>3. deliveries[o] = 0 /\ faults = 0
    BY DEF Init, AssignmentInit, StoreInit
  <2> QED BY <2>1, <2>2, <2>3, FS_EmptySet DEF Accounted
<1>2. IInv /\ DeliveriesAccounted /\ [Next]_vars => DeliveriesAccounted'
  <2> SUFFICES ASSUME IInv, DeliveriesAccounted, [Next]_vars, NEW o \in Orders
               PROVE  Accounted(o)'
    BY DEF DeliveriesAccounted, Accounted
  <2>1. Accounted(o) /\ TypeOK'
    BY NextTypes DEF DeliveriesAccounted, Accounted, IInv
  <2>2. CASE UNCHANGED vars
    BY <2>1, <2>2 DEF vars, storeVars, tables, assignmentVars, Accounted, Claims,
                      Claiming
  <2> QED BY <2>1, <2>2, AccountsElsewhere, AccountsOfWorkers DEF Next
<1>3. IInv /\ DeliveriesAccounted => ClaimsPerDelivery
  <2> SUFFICES ASSUME IInv, DeliveriesAccounted, NEW o \in Orders
               PROVE  Cardinality(Claims(o)) <= deliveries[o] + faults
    BY DEF ClaimsPerDelivery
  <2>1. Cardinality(Claims(o)) \in Nat /\ Cardinality(Claiming(o)) \in Nat
    BY ClaimsFinite, FS_CardinalityType DEF IInv, TypeOK, DeliveriesAccounted
  <2>2. deliveries[o] \in Nat /\ faults \in Nat
    BY MaxDeliveriesAssumption, MaxFaultsAssumption
       DEF IInv, TypeOK, WorkersTypeOK, StoreTypeOK
  <2> QED BY <2>1, <2>2 DEF DeliveriesAccounted
<1> QED BY <1>1, <1>2, <1>3, Invariance, PTL DEF Spec

=============================================================================
