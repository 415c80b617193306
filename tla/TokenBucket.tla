---------------------------- MODULE TokenBucket ----------------------------
(***************************************************************************)
(* The token bucket behind max_rps (src/pool/rate_limit.rs), as operators  *)
(* on one bucket.  Tokens are counted in units of 1/TicksPerSecond token,  *)
(* so that a tick refills exactly `rps' units and the arithmetic of the    *)
(* code's f64 seconds stays in the integers.                               *)
(***************************************************************************)
EXTENDS Integers

CONSTANT TicksPerSecond

ASSUME TokenBucketAssumption == TicksPerSecond \in Nat \ {0}

Bucket == [tokens: Nat, lastRefill: Nat]

\* One whole token.
Token == TicksPerSecond

\* Mutant: an rps of 0 is taken literally.
RateUnclamped(rps) == rps

\* "A zero rps is clamped to 1 to avoid a permanently-closed bucket."
Rate(rps) == IF rps = 0 THEN 1 ELSE rps

Capacity(rps) == Rate(rps) * Token

\* RateLimiter::per_second
FullBucket(rps, now) == [tokens |-> Capacity(rps), lastRefill |-> now]

\* Mutant: the refilled bucket is not cut down to its capacity.
RefillUncapped(b, rps, now) ==
    IF now > b.lastRefill
    THEN [tokens |-> b.tokens + (now - b.lastRefill) * Rate(rps), lastRefill |-> now]
    ELSE b

\* Mutant: last_refill is set to a "now" that lies before it.
RefillBackdated(b, rps, now) ==
    LET full   == b.tokens + (IF now > b.lastRefill THEN now - b.lastRefill ELSE 0) * Rate(rps)
        capped == IF full < Capacity(rps) THEN full ELSE Capacity(rps)
    IN  [tokens |-> capped, lastRefill |-> now]

(***************************************************************************)
(* The first half of try_acquire_at.  A "now" read before another thread's *)
(* later refill counts as no time elapsed and leaves the bucket alone.     *)
(***************************************************************************)
Refill(b, rps, now) ==
    LET full   == b.tokens + (now - b.lastRefill) * Rate(rps)
        capped == IF full < Capacity(rps) THEN full ELSE Capacity(rps)
    IN  IF now > b.lastRefill THEN [tokens |-> capped, lastRefill |-> now] ELSE b

\* The second half: is there a token, and what is left once it is taken.
HasToken(b) == b.tokens >= Token
Take(b) == [b EXCEPT !.tokens = @ - Token]
=============================================================================
