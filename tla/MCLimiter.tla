------------------------------ MODULE MCLimiter -----------------------------
(* Small instances of RateLimiter: one limit that refuses, one that slows.  *)
EXTENDS RateLimiter, TLC

CONSTANTS r1, r2, r3

SmallLimits == {[max |-> 1, window |-> 2, progressive |-> p] : p \in BOOLEAN}
=============================================================================
