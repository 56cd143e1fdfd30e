--------------------------- MODULE MCRateLimiter ---------------------------
(***************************************************************************)
(* A small instance of RateLimiter for TLC.                                *)
(***************************************************************************)
EXTENDS RateLimiter, TLC

CONSTANTS r1, r2, r3, k1, k2, k3

Symmetry == Permutations({r1, r2, r3}) \cup Permutations({k1, k2, k3})

=============================================================================
