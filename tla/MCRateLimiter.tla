--------------------------- MODULE MCRateLimiter ---------------------------
(* RateLimiter on small instances.                                         *)
EXTENDS RateLimiter, TLC

Interchangeable == Permutations(IPs)
=============================================================================
