------------------------------ MODULE Dispatch ------------------------------
(***************************************************************************)
(* The dispatch core: order-service, rider-service, location-service and   *)
(* assignment-service over one database and one geo index, with every      *)
(* interleaving of their steps.                                            *)
(***************************************************************************)
EXTENDS FiniteSets, OrderService, RiderPool, AssignmentService

vars == <<storeVars, requests, riderRequests, assignmentVars>>

Init ==
  /\ StoreInit
  /\ OrderServiceInit
  /\ RiderPoolInit
  /\ AssignmentInit

Next ==
  \/ OrderServiceNext /\ UNCHANGED <<riderRequests, assignmentVars>>
  \/ RiderPoolNext /\ UNCHANGED <<requests, assignmentVars>>
  \/ AssignmentNext /\ UNCHANGED <<requests, riderRequests>>

Spec == Init /\ [][Next]_vars

(***************************************************************************)
(* Fairness.  A running handler makes its next call (its context has no    *)
(* deadline of its own), and a consumer that has not yet had an order's    *)
(* order.placed message gets it: the topic is a log that is read in order. *)
(* Nothing obliges a customer, a rider or a failure to act.                *)
(***************************************************************************)
Fairness ==
  /\ \A w \in Workers :
       WF_vars(AssignmentStep(w) /\ UNCHANGED <<requests, riderRequests>>)
  /\ \A o \in Orders :
       WF_vars(/\ \E w \in Workers, c \in nearestAvailableRiders :
                    Assign(w, o, c)
               /\ UNCHANGED <<requests, riderRequests>>)

FairSpec == Spec /\ Fairness

-----------------------------------------------------------------------------

\* Every variable has the type its table, index or slot gives it.
TypeOK ==
  /\ StoreTypeOK
  /\ RequestsTypeOK
  /\ RiderRequestsTypeOK
  /\ WorkersTypeOK

\* i is the last event of order o that satisfies Reports.
IsLast(o, i, Reports(_)) ==
  /\ i \in DOMAIN outbox[o]
  /\ Reports(outbox[o][i])
  /\ \A j \in DOMAIN outbox[o] : j > i => ~Reports(outbox[o][j])

StatusMirrored(o) ==
  IF Placed(o)
    THEN \E i \in DOMAIN outbox[o] :
           /\ IsLast(o, i, ReportsStatus)
           /\ outbox[o][i].status = orders[o].status
    ELSE outbox[o] = <<>>

RiderMirrored(o) ==
  IF orders[o].rider # NoRider
    THEN \E i \in DOMAIN outbox[o] :
           /\ IsLast(o, i, ReportsRider)
           /\ outbox[o][i].rider = orders[o].rider
    ELSE \A i \in DOMAIN outbox[o] : ~ReportsRider(outbox[o][i])

\* The outbox never disagrees with the table it announces: whatever handlers
\* of different services interleave, the last status event of an order
\* carries the status of its row, and the last order.assigned event carries
\* its rider_id (the dual write the outbox is there to rule out).
OutboxMirrorsOrder ==
  \A o \in Orders : StatusMirrored(o) /\ RiderMirrored(o)

\* Every status update is justified by an earlier status of the order: a
\* request may write late, on top of a status it never saw, but what it
\* writes always follows, in the table of validTransitions, from a status
\* the order has had.  No step is ever skipped altogether.
CausalHistory ==
  \A o \in Orders : \A i \in DOMAIN outbox[o] :
    outbox[o][i].topic = "order.status.updated" =>
      \E j \in DOMAIN outbox[o] :
        /\ j < i
        /\ ValidateTransition(outbox[o][j].status, outbox[o][i].status)

\* The race the comment on Assign names: however many workers, redeliveries,
\* lost commits and status changes there are, one period of availability of
\* a rider is used up by at most one order, and announced at most once.
ClaimOncePerStint ==
  \A o, p \in Orders : \A i \in DOMAIN outbox[o], j \in DOMAIN outbox[p] :
    /\ ReportsRider(outbox[o][i])
    /\ outbox[o][i].rider = outbox[p][j].rider
    /\ outbox[o][i].stint = outbox[p][j].stint
    => o = p /\ i = j

\* An order is given up only after every candidate really was unavailable: a
\* worker about to run markCancelled has, for each rider its search found
\* and whose claim did not fail with an error, met a moment since the search
\* at which that rider could not be claimed.
NoRiderOverlooked ==
  \A w \in Workers :
    workers[w].pc = "cancel" =>
      \A r \in workers[w].found \ workers[w].errored :
        riders[r] = "AVAILABLE" => stint[r] > workers[w].since[r]

\* The changes order_events records: all but those with a reason.
Audited(e) == e.reason = ""

\* pos[k] is the place, among the outbox rows, of the change the k-th audit
\* row records.
SameChanges(audit, rows, pos) ==
  /\ \A k, l \in DOMAIN audit : k < l => pos[k] < pos[l]
  /\ \A k \in DOMAIN audit : audit[k] = rows[pos[k]]
  /\ \A i \in DOMAIN rows :
       Audited(rows[i]) <=> \E k \in DOMAIN audit : pos[k] = i

\* README.md of the repository calls order_events a "log of every state
\* transition".  It is not: markCancelled (assignment/service.go) writes no
\* row there.  What holds instead is that the audit log is the outbox without
\* those cancellations: they are the only changes it misses, and the two logs
\* agree on the order of all the others.
AuditTrail ==
  \A o \in Orders :
    \E pos \in [DOMAIN order_events[o] -> DOMAIN outbox[o]] :
      SameChanges(order_events[o], outbox[o], pos)

\* statemachine.go: "Any state -> CANCELLED is allowed unless already
\* DELIVERED or CANCELLED": an order that is DELIVERED or CANCELLED never
\* gets another status.  Transition checks this on a row it read before its
\* transaction, so two requests can break it.
TerminalIsFinal ==
  \A o \in Orders : \A i, j \in DOMAIN outbox[o] :
    i < j /\ outbox[o][i].status \in {"DELIVERED", "CANCELLED"} =>
      ~ReportsStatus(outbox[o][j])

\* outbox.go: "Consumers must be idempotent.  In this codebase that's
\* already true: the rider-claim UPDATE is status-guarded": handling
\* order.placed again does not assign the order again.  The guard is on the
\* rider, not on the order.
AssignedOnce ==
  \A o \in Orders : \A i, j \in DOMAIN outbox[o] :
    ReportsRider(outbox[o][i]) /\ ReportsRider(outbox[o][j]) => i = j

\* The rows that announce a rider of order o.
Claims(o) == {i \in DOMAIN outbox[o] : ReportsRider(outbox[o][i])}

\* What is true of it: a delivery of order.placed takes at most one rider for
\* the order, whichever workers handle the deliveries and in what order they
\* claim; only a failure (a COMMIT whose answer is lost) adds another.
ClaimsPerDelivery ==
  \A o \in Orders : Cardinality(Claims(o)) <= deliveries[o] + faults

\* SetStatus "keeps Redis geo in sync" (rider/service.go), with one hole: a
\* rider who is AVAILABLE and in the index, with no status request of their
\* own under way, can lose that place (to a ZREM that came after their next
\* GEOADD) only if an assignment of theirs from an earlier stint has been
\* announced; the formula does not ask that it is this worker's.  A rider
\* nobody has claimed is never dropped, however searches, claims that lose
\* and redeliveries interleave.
OnlyClaimedRidersDropOut ==
  [][\A r \in geo \ geo' :
       /\ riders[r] = "AVAILABLE"
       /\ \A q \in RiderRequests : riderRequests[q].rider # r
       => \E o \in Orders : \E i \in DOMAIN outbox[o] :
            outbox[o][i].rider = r /\ outbox[o][i].stint < stint[r]]_vars

Resolved(o) == orders[o].status # "PLACED" \/ orders[o].rider # NoRider

\* "the order is always resolved ... instead of hanging in PLACED"
\* (assignment/service.go): as long as no call fails and no process dies,
\* each order that is placed gets a rider or leaves PLACED.
PlacedIsResolved ==
  \A o \in Orders : Placed(o) ~> (Resolved(o) \/ faults > 0)

-----------------------------------------------------------------------------
(***************************************************************************)
(* The inductive invariant the proofs use: the properties above and what   *)
(* the processes in flight remember about the tables.                      *)
(***************************************************************************)

\* A request in flight holds a status the order has had, and a transition
\* from it that the table allows.
RequestsGrounded ==
  \A q \in Requests :
    requests[q].pc = "write" =>
      /\ ValidateTransition(requests[q].from, requests[q].to)
      /\ \E i \in DOMAIN outbox[requests[q].order] :
           outbox[requests[q].order][i].status = requests[q].from

\* A worker only handles an order that was placed.
WorkersGrounded ==
  \A w \in Workers : workers[w] # NoWork => outbox[workers[w].order] # <<>>

\* A worker about to take a rider out of the index has claimed that rider.
RemovalsGrounded ==
  \A w \in Workers :
    workers[w].pc = "zrem" =>
      \E o \in Orders : \E i \in DOMAIN outbox[o] :
        outbox[o][i].rider = Head(workers[w].todo)

\* A recorded claim belongs to a stint that has begun and, if the rider is
\* AVAILABLE now, to an earlier one.
StintLedger ==
  \A o \in Orders : \A i \in DOMAIN outbox[o] :
    LET e == outbox[o][i]
    IN  ReportsRider(e) =>
          /\ e.stint <= stint[e.rider]
          /\ riders[e.rider] = "AVAILABLE" => e.stint < stint[e.rider]

\* Each candidate of a worker is still to be tried, had an error, or has
\* been unavailable since the search.
CandidatesAccounted ==
  \A w \in Workers :
    workers[w].pc \in {"claim", "cancel"} =>
      \A r \in workers[w].found :
        /\ stint[r] >= workers[w].since[r]
        /\ \/ r \in workers[w].errored
           \/ \E i \in DOMAIN workers[w].todo : workers[w].todo[i] = r
           \/ riders[r] = "AVAILABLE" => stint[r] > workers[w].since[r]

\* The workers that may still claim a rider for order o.
Claiming(o) == {w \in Workers : workers[w].pc = "claim" /\ workers[w].order = o}

\* Each delivery is used up by a claim, or by a worker that may still claim.
DeliveriesAccounted ==
  \A o \in Orders :
    /\ IsFiniteSet(Claiming(o))
    /\ Cardinality(Claims(o)) + Cardinality(Claiming(o)) <= deliveries[o] + faults

IInv ==
  /\ TypeOK
  /\ OutboxMirrorsOrder
  /\ CausalHistory
  /\ ClaimOncePerStint
  /\ AuditTrail
  /\ RequestsGrounded
  /\ WorkersGrounded
  /\ RemovalsGrounded
  /\ StintLedger
  /\ CandidatesAccounted

=============================================================================
