--------------------------- MODULE MCRateLimiter ---------------------------
(* The run of RateLimiter: requests are interchangeable. *)
EXTENDS RateLimiter, TLC

Symmetry == Permutations(Requests)

=============================================================================
