------------------------- MODULE OrderStateMachine -------------------------
(***************************************************************************)
(* The order lifecycle: internal/order/statemachine.go and the statuses of *)
(* internal/order/model.go.  Pure operators, no state.                     *)
(***************************************************************************)

Statuses ==
  {"PLACED", "ACCEPTED", "PREPARING", "PICKED_UP", "DELIVERED", "CANCELLED"}

\* A status that is never stored: what a row that carries no status holds.
NoStatus == "-"

validTransitions ==
  [s \in Statuses |->
     CASE s = "PLACED"    -> {"ACCEPTED", "CANCELLED"}
       [] s = "ACCEPTED"  -> {"PREPARING", "CANCELLED"}
       [] s = "PREPARING" -> {"PICKED_UP", "CANCELLED"}
       [] s = "PICKED_UP" -> {"DELIVERED", "CANCELLED"}
       [] OTHER           -> {}]

\* A `from` outside the table, and a `to` outside its row, are both errors.
ValidateTransition(from, to) ==
  /\ from \in Statuses
  /\ to \in validTransitions[from]

=============================================================================
