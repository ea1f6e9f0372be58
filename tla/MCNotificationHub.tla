-------------------------- MODULE MCNotificationHub --------------------------
(* The runs of NotificationHub. *)
EXTENDS NotificationHub, TLC

=============================================================================
