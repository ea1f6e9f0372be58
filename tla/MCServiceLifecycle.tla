------------------------- MODULE MCServiceLifecycle -------------------------
(* The run of ServiceLifecycle. *)
EXTENDS ServiceLifecycle, TLC

=============================================================================
