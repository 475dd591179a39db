----------------------------- MODULE MCRateLimiter -----------------------------
(* Instances of RateLimiter for TLC. *)
EXTENDS RateLimiter, TLC

CONSTANTS c1, c2, c3, c4, c5, ip1, ip2

Symmetry == Permutations({c1, c2, c3, c4, c5}) \cup Permutations({ip1, ip2})
=============================================================================
