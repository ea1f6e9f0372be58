---------------------------- MODULE MCOutboxRelay ----------------------------
(* The runs of OutboxRelay. *)
EXTENDS OutboxRelay, TLC

=============================================================================
