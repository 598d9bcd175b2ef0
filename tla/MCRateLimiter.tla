--------------------------- MODULE MCRateLimiter ---------------------------
(* Model-checking instance of RateLimiter. *)
EXTENDS RateLimiter

CONSTANTS c1, c2, client1
=============================================================================
