---------------------------- MODULE MCRateLimiter -----------------------------
(* Small worlds for RateLimiter. *)
EXTENDS RateLimiter

CONSTANTS i1, i2, r1, r2

TwoReplicas == [r \in Requests |-> IF r = r1 THEN i1 ELSE i2]
===============================================================================
