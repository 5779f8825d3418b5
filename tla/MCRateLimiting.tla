--------------------------- MODULE MCRateLimiting ---------------------------
(* Small instances of RateLimiting for TLC. *)
EXTENDS RateLimiting, TLC

\* Requests are interchangeable.
Symmetry == Permutations(Request)
=============================================================================
