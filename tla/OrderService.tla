---------------------------- MODULE OrderService ----------------------------
(***************************************************************************)
(* order-service: placing an order and moving it through its lifecycle     *)
(* (internal/order/service.go, repository.go, handler.go).                 *)
(*                                                                         *)
(* Transition reads the order, validates, and only then opens the          *)
(* transaction that writes; the HTTP handlers of every replica run         *)
(* concurrently.  A request in flight is therefore a slot that holds what  *)
(* it read until it writes.                                                *)
(***************************************************************************)
EXTENDS Store

CONSTANTS
  Requests,  \* slots for concurrent status requests
  MaxRows    \* bound: an order with this many outbox rows takes no request

VARIABLE requests  \* requests[q]: [pc, order, from, to]

NoRequest == [pc |-> "idle", order |-> NoStatus, from |-> NoStatus,
              to |-> NoStatus]

RequestsTypeOK ==
  requests \in [Requests ->
    {NoRequest} \union
    [pc : {"write"}, order : Orders, from : Statuses, to : Statuses]]

OrderServiceInit == requests = [q \in Requests |-> NoRequest]

\* POST /orders.  The order row, its audit event and its outbox row commit
\* together; a request validatePlace refuses, or a failed transaction, leaves
\* nothing behind.
Place(o) ==
  /\ ~Placed(o)
  /\ orders' = [orders EXCEPT ![o].status = "PLACED"]
  /\ Audit(o, OrderPlacedEvent)
  /\ Write(o, OrderPlacedEvent)
  /\ UNCHANGED <<riders, geo, stint, faults, requests>>

\* Mutants of Transition: no ValidateTransition; the status read is lost.
TransitionUnchecked(q, o, to) ==
  /\ requests[q] = NoRequest
  /\ Placed(o)
  /\ Len(outbox[o]) < MaxRows
  /\ requests' = [requests EXCEPT ![q] =
       [pc |-> "write", order |-> o, from |-> orders[o].status, to |-> to]]
  /\ UNCHANGED storeVars

TransitionForgetful(q, o, to) ==
  /\ requests[q] = NoRequest
  /\ Placed(o)
  /\ ValidateTransition(orders[o].status, to)
  /\ Len(outbox[o]) < MaxRows
  /\ requests' = [requests EXCEPT ![q] =
       [pc |-> "write", order |-> o, from |-> NoStatus, to |-> to]]
  /\ UNCHANGED storeVars

\* PATCH /orders/:id/status and PATCH /orders/:id/cancel, the first half of
\* Transition: GetByID and ValidateTransition.  An order that does not exist
\* and a transition the table refuses are answered with an error.
Transition(q, o, to) ==
  /\ requests[q] = NoRequest
  /\ Placed(o)
  /\ ValidateTransition(orders[o].status, to)
  /\ Len(outbox[o]) < MaxRows
  /\ requests' = [requests EXCEPT ![q] =
       [pc |-> "write", order |-> o, from |-> orders[o].status, to |-> to]]
  /\ UNCHANGED storeVars

\* Mutant of UpdateStatus: the outbox row is left out.
UpdateStatusSilent(q) ==
  LET o == requests[q].order
  IN  /\ requests[q].pc = "write"
      /\ Len(outbox[o]) < MaxRows
      /\ orders' = [orders EXCEPT ![o].status = requests[q].to]
      /\ Audit(o, StatusUpdatedEvent(requests[q].to))
      /\ requests' = [requests EXCEPT ![q] = NoRequest]
      /\ UNCHANGED <<outbox, riders, geo, stint, faults>>

\* The second half: repository.UpdateStatus.  Its UPDATE names the id only,
\* so it overwrites whatever status the order has by now.
UpdateStatus(q) ==
  LET o == requests[q].order
      e == StatusUpdatedEvent(requests[q].to)
  IN  /\ requests[q].pc = "write"
      /\ Len(outbox[o]) < MaxRows
      /\ orders' = [orders EXCEPT ![o].status = requests[q].to]
      /\ Audit(o, e)
      /\ Write(o, e)
      /\ requests' = [requests EXCEPT ![q] = NoRequest]
      /\ UNCHANGED <<riders, geo, stint, faults>>

\* UpdateStatus fails and rolls back, the client goes away, or the process
\* dies: the request is over and nothing was written.
AbortRequest(q) ==
  /\ requests[q].pc = "write"
  /\ requests' = [requests EXCEPT ![q] = NoRequest]
  /\ UNCHANGED storeVars

OrderServiceNext ==
  \/ \E o \in Orders : Place(o)
  \/ \E q \in Requests, o \in Orders, to \in Statuses : Transition(q, o, to)
  \/ \E q \in Requests : UpdateStatus(q) \/ AbortRequest(q)

=============================================================================
