---------------------------- MODULE TokenBucket ----------------------------
(***************************************************************************)
(* What the crawler's rate limiter promises: a bucket that fills with      *)
(* every tick of the clock up to Capacity, and from which a request takes  *)
(* TokenTicks.  In w ticks no more than Burst + w / TokenTicks requests    *)
(* are let through, whoever makes them.                                    *)
(***************************************************************************)
EXTENDS Integers

CONSTANTS
  Burst,           \* max_requests
  TokenTicks       \* ticks in which one token flows in: per_seconds / max_requests

Capacity == Burst * TokenTicks
Least(m, n) == IF m <= n THEN m ELSE n

VARIABLE level     \* in ticks of refill

BucketInit == level = Capacity
Fill == level' = Least(Capacity, level + 1)
Take == level >= TokenTicks /\ level' = level - TokenTicks
BucketSpec == BucketInit /\ [][Fill \/ Take]_level
=============================================================================
