---------------------------- MODULE RateLimiter ----------------------------
(***************************************************************************)
(* The token bucket the crawler's workers share (crawler/rate_limiter.py). *)
(* Nothing refills it: whoever asks adds what has flowed in since the last *)
(* one asked, takes a token if there is a whole one, and otherwise sleeps  *)
(* until one should be there, and a random while longer.                   *)
(*                                                                         *)
(* The clock is kept relative: ticks since the last refill, counted up to  *)
(* what fills the bucket, and the rest of each sleep.  Fractions of tokens *)
(* are ticks of refill.                                                    *)
(***************************************************************************)
EXTENDS Integers

CONSTANTS
  Worker,
  Burst,
  TokenTicks,
  MaxJitter,       \* 0.5 s, in ticks
  Requests         \* bound: tokens one worker asks for

ASSUME LimiterAssumption ==
  /\ Burst \in Nat \ {0} /\ TokenTicks \in Nat \ {0}
  /\ MaxJitter \in Nat /\ Requests \in Nat

Capacity == Burst * TokenTicks
Least(m, n) == IF m <= n THEN m ELSE n

VARIABLES
  tokens,          \* _tokens, in ticks of refill
  elapsed,         \* ticks since _last_refill
  nap,             \* of each worker, what is left of its sleep
  demand           \* tokens each worker still has to ask for

limiterVars == <<tokens, elapsed, nap, demand>>

LimiterInit ==
  /\ tokens = Capacity
  /\ elapsed = 0
  /\ nap = [w \in Worker |-> 0]
  /\ demand = [w \in Worker |-> Requests]

(* Time passes for the bucket and for every sleeper; a worker that is due  *)
(* may be late.                                                            *)
Tick ==
  /\ elapsed' = Least(Capacity, elapsed + 1)
  /\ nap' = [w \in Worker |-> IF nap[w] > 0 THEN nap[w] - 1 ELSE 0]
  /\ UNCHANGED <<tokens, demand>>

Refilled == Least(Capacity, tokens + elapsed)

(* A mutant: the fraction is dropped.                                      *)
KeptNothing == 0

(* What is kept when there is no whole token: the fraction.                *)
Kept == Refilled

(* A mutant: what has flowed in is counted again next time.                *)
GrantedUncounted(w) ==
  /\ demand[w] > 0 /\ nap[w] = 0
  /\ Refilled >= TokenTicks
  /\ tokens' = Refilled - TokenTicks
  /\ demand' = [demand EXCEPT ![w] = @ - 1]
  /\ UNCHANGED <<elapsed, nap>>

(* One turn of acquire's loop, under the lock.                             *)
Granted(w) ==
  /\ demand[w] > 0 /\ nap[w] = 0
  /\ Refilled >= TokenTicks
  /\ tokens' = Refilled - TokenTicks
  /\ elapsed' = 0
  /\ demand' = [demand EXCEPT ![w] = @ - 1]
  /\ UNCHANGED nap

Sleeps(w) ==
  /\ demand[w] > 0 /\ nap[w] = 0
  /\ Refilled < TokenTicks
  /\ tokens' = Kept
  /\ elapsed' = 0
  /\ \E jitter \in 0..MaxJitter :
       nap' = [nap EXCEPT ![w] = TokenTicks - Refilled + jitter]
  /\ UNCHANGED demand

Acquire(w) == Granted(w) \/ Sleeps(w)

LimiterNext == Tick \/ \E w \in Worker : Acquire(w)

LimiterSpec == LimiterInit /\ [][LimiterNext]_limiterVars

(* The clock goes on, and a worker that is due gets its turn.              *)
LimiterFairSpec == LimiterSpec /\ WF_limiterVars(Tick) /\ \A w \in Worker : WF_limiterVars(Acquire(w))

-----------------------------------------------------------------------------
LimiterTypeOK ==
  /\ tokens \in 0..Capacity
  /\ elapsed \in 0..Capacity
  /\ nap \in [Worker -> 0..(TokenTicks + MaxJitter)]
  /\ demand \in [Worker -> 0..Requests]

Bucket == INSTANCE TokenBucket WITH level <- Refilled

(* Together the workers never get more than one bucket that fills by the   *)
(* clock gives: refilling only when asked, by whoever asks, in any order,  *)
(* neither makes nor loses a token.                                        *)
NeverAboveRate == Bucket!BucketSpec

(* Workers that wait do not starve each other: every request made is       *)
(* granted in the end (acquire's docstring on keeping fractions).          *)
AllServed == <>(\A w \in Worker : demand[w] = 0)
=============================================================================
