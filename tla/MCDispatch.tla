----------------------------- MODULE MCDispatch -----------------------------
(* Model values and symmetry for the runs of Dispatch. *)
EXTENDS Dispatch, TLC

Symmetry ==
  Permutations(Orders) \union Permutations(Riders) \union
  Permutations(Workers) \union Permutations(Requests) \union
  Permutations(RiderRequests)

=============================================================================
