----------------------------- MODULE MCTracking -----------------------------
(* The runs of Tracking and of the consumer loop it is built on. *)
EXTENDS Tracking, TLC

=============================================================================
