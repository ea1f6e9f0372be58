-------------------------- MODULE AssignmentService --------------------------
(***************************************************************************)
(* assignment-service: the handler of order.placed                         *)
(* (internal/assignment/consumer.go and service.go).                       *)
(*                                                                         *)
(* Delivery is at least once: the relay may publish a row again, and a     *)
(* consumer that dies or loses its partition before it commits is followed *)
(* by one that gets the same message.  Several workers run at a time, each *)
(* going through its candidate list with one transaction per candidate.    *)
(***************************************************************************)
EXTENDS Store

CONSTANTS
  Workers,       \* goroutines that run the handler, over all replicas
  Limit,         \* GEOSEARCH COUNT (10 in the code)
  MaxDeliveries  \* bound: how often one order.placed message is delivered

ASSUME LimitAssumption == Limit \in Nat
ASSUME MaxDeliveriesAssumption == MaxDeliveries \in Nat

VARIABLES
  workers,    \* workers[w]: the progress of Assign, see WorkersTypeOK
  deliveries  \* deliveries[o]: how often o's order.placed was delivered

assignmentVars == <<workers, deliveries>>

NoWork == [pc |-> "idle", order |-> NoStatus, todo |-> <<>>, found |-> {},
           since |-> [r \in Riders |-> 0], errored |-> {}]

(***************************************************************************)
(* todo: the candidates not tried yet; when pc is "zrem", its head is the  *)
(* rider just claimed.  History fields: found, the candidates the search   *)
(* returned; since[r], stint[r] at that time for a rider found; errored,   *)
(* the candidates whose claim returned an error.                           *)
(***************************************************************************)
Assignments ==
  [pc      : {"claim", "zrem", "cancel"},
   order   : Orders,
   todo    : Seq(Riders),
   found   : SUBSET Riders,
   since   : [Riders -> Nat],
   errored : SUBSET Riders]

WorkersTypeOK ==
  /\ workers \in [Workers -> {NoWork} \union Assignments]
  /\ \A w \in Workers :
       workers[w].todo # <<>> <=> workers[w].pc \in {"claim", "zrem"}
  /\ deliveries \in [Orders -> 0..MaxDeliveries]

AssignmentInit ==
  /\ workers = [w \in Workers |-> NoWork]
  /\ deliveries = [o \in Orders |-> 0]

\* GEOSEARCH: some members of the index, nearest first, at most Limit of
\* them.  Which ones are in range and in what order depends on coordinates
\* the model leaves out.  The rider's status is not looked at.
nearestAvailableRiders ==
  {c \in UNION {[1..n -> geo] : n \in 0..Limit} :
     \A i, j \in DOMAIN c : c[i] = c[j] => i = j}

\* Where Assign goes with the candidates it has left.
Continue(todo) == IF todo = <<>> THEN "cancel" ELSE "claim"

\* Mutant of Assign: an empty search result ends the handler.
AssignShortCircuit(w, o, c) ==
  /\ workers[w] = NoWork
  /\ outbox[o] # <<>>
  /\ deliveries[o] < MaxDeliveries
  /\ deliveries' = [deliveries EXCEPT ![o] = @ + 1]
  /\ workers' = [workers EXCEPT ![w] =
       IF c = <<>>
         THEN NoWork
         ELSE [pc |-> "claim", order |-> o, todo |-> c,
               found |-> {c[i] : i \in DOMAIN c}, since |-> stint,
               errored |-> {}]]
  /\ UNCHANGED storeVars

\* The consumer gets order.placed of order o; Assign searches.
Assign(w, o, c) ==
  /\ workers[w] = NoWork
  /\ outbox[o] # <<>>
  /\ deliveries[o] < MaxDeliveries
  /\ deliveries' = [deliveries EXCEPT ![o] = @ + 1]
  /\ LET found == {c[i] : i \in DOMAIN c}
     IN  workers' = [workers EXCEPT ![w] =
           [pc |-> Continue(c), order |-> o, todo |-> c, found |-> found,
            since |-> [r \in Riders |-> IF r \in found THEN stint[r] ELSE 0],
            errored |-> {}]]
  /\ UNCHANGED storeVars

\* The search fails: Assign returns the error before it touches the order.
AssignFail(w, o) ==
  /\ workers[w] = NoWork
  /\ outbox[o] # <<>>
  /\ deliveries[o] < MaxDeliveries
  /\ deliveries' = [deliveries EXCEPT ![o] = @ + 1]
  /\ Fault
  /\ UNCHANGED <<tables, riders, geo, stint, workers>>

\* Mutants of ClaimTx: the UPDATE of the rider has no status guard; the
\* UPDATE of the order is left out.
ClaimTxUnguarded(o, r) ==
  LET e == OrderAssignedEvent(r, stint[r])
  IN  /\ riders[r] # "UNREGISTERED"
      /\ riders' = [riders EXCEPT ![r] = "BUSY"]
      /\ orders' = [orders EXCEPT ![o].rider = r]
      /\ Audit(o, e)
      /\ Write(o, e)

ClaimTxNoOrder(o, r) ==
  LET e == OrderAssignedEvent(r, stint[r])
  IN  /\ riders[r] = "AVAILABLE"
      /\ riders' = [riders EXCEPT ![r] = "BUSY"]
      /\ Audit(o, e)
      /\ Write(o, e)
      /\ UNCHANGED orders

\* The transaction of claimRider, which finds the rider AVAILABLE.  The
\* UPDATE of the order looks neither at its status nor at its rider.
ClaimTx(o, r) ==
  LET e == OrderAssignedEvent(r, stint[r])
  IN  /\ riders[r] = "AVAILABLE"
      /\ riders' = [riders EXCEPT ![r] = "BUSY"]
      /\ orders' = [orders EXCEPT ![o].rider = r]
      /\ Audit(o, e)
      /\ Write(o, e)

\* Mutant of NextCandidate: the loop breaks instead of continuing.
NextCandidateBreak(w, errored) ==
  workers' = [workers EXCEPT ![w] =
    [@ EXCEPT !.pc = "cancel", !.todo = <<>>, !.errored = errored]]

\* Go on to the next candidate, or to markCancelled when there is none.
NextCandidate(w, errored) ==
  LET todo == Tail(workers[w].todo)
  IN  workers' = [workers EXCEPT ![w] =
        [@ EXCEPT !.pc = Continue(todo), !.todo = todo, !.errored = errored]]

\* Mutant of ClaimWon: the loop over the candidates is not left.
ClaimWonGoesOn(w) ==
  /\ workers[w].pc = "claim"
  /\ ClaimTx(workers[w].order, Head(workers[w].todo))
  /\ NextCandidate(w, workers[w].errored)
  /\ UNCHANGED <<geo, stint, faults, deliveries>>

\* claimRider returns (true, nil).
ClaimWon(w) ==
  /\ workers[w].pc = "claim"
  /\ ClaimTx(workers[w].order, Head(workers[w].todo))
  /\ workers' = [workers EXCEPT ![w].pc = "zrem"]
  /\ UNCHANGED <<geo, stint, faults, deliveries>>

\* Mutant of ClaimLost: the result of claimRider is not looked at.
ClaimLostUnnoticed(w) ==
  /\ workers[w].pc = "claim"
  /\ riders[Head(workers[w].todo)] # "AVAILABLE"
  /\ workers' = [workers EXCEPT ![w].pc = "zrem"]
  /\ UNCHANGED <<storeVars, deliveries>>

\* claimRider returns (false, nil): no row was AVAILABLE.
ClaimLost(w) ==
  /\ workers[w].pc = "claim"
  /\ riders[Head(workers[w].todo)] # "AVAILABLE"
  /\ NextCandidate(w, workers[w].errored)
  /\ UNCHANGED <<storeVars, deliveries>>

\* claimRider returns an error and the transaction was rolled back.
ClaimError(w) ==
  /\ workers[w].pc = "claim"
  /\ Fault
  /\ NextCandidate(w, workers[w].errored \union {Head(workers[w].todo)})
  /\ UNCHANGED <<tables, riders, geo, stint, deliveries>>

\* claimRider returns an error although the transaction was committed: the
\* answer to COMMIT was lost.  Assign goes on to the next candidate.
ClaimCommitLost(w) ==
  /\ workers[w].pc = "claim"
  /\ Fault
  /\ ClaimTx(workers[w].order, Head(workers[w].todo))
  /\ NextCandidate(w, workers[w].errored \union {Head(workers[w].todo)})
  /\ UNCHANGED <<geo, stint, deliveries>>

\* ZREM of the claimed rider; Assign returns nil.
RemoveFromGeo(w) ==
  /\ workers[w].pc = "zrem"
  /\ geo' = geo \ {Head(workers[w].todo)}
  /\ workers' = [workers EXCEPT ![w] = NoWork]
  /\ UNCHANGED <<tables, riders, stint, faults, deliveries>>

\* markCancelled: only an order that is still PLACED is cancelled; its
\* transaction writes an outbox row and no audit event.  Either way the
\* handler swallows ErrNoRiderAvailable.
MarkCancelled(w) ==
  LET o == workers[w].order
  IN  /\ workers[w].pc = "cancel"
      /\ IF orders[o].status = "PLACED"
           THEN /\ orders' = [orders EXCEPT ![o].status = "CANCELLED"]
                /\ Write(o, NoRiderEvent)
           ELSE UNCHANGED <<orders, outbox>>
      /\ workers' = [workers EXCEPT ![w] = NoWork]
      /\ UNCHANGED <<order_events, riders, geo, stint, faults, deliveries>>

\* The worker ends early: ZREM fails (logged only), markCancelled fails and
\* its error is returned, or the process dies.
GiveUp(w) ==
  /\ workers[w] # NoWork
  /\ Fault
  /\ workers' = [workers EXCEPT ![w] = NoWork]
  /\ UNCHANGED <<tables, riders, geo, stint, deliveries>>

AssignmentStep(w) ==
  \/ ClaimWon(w)
  \/ ClaimLost(w)
  \/ RemoveFromGeo(w)
  \/ MarkCancelled(w)

AssignmentNext ==
  \/ \E w \in Workers, o \in Orders :
       \/ \E c \in nearestAvailableRiders : Assign(w, o, c)
       \/ AssignFail(w, o)
  \/ \E w \in Workers :
       \/ AssignmentStep(w)
       \/ ClaimError(w)
       \/ ClaimCommitLost(w)
       \/ GiveUp(w)

=============================================================================
