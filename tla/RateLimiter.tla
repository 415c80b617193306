---------------------------- MODULE RateLimiter ----------------------------
(***************************************************************************)
(* One endpoint's RateLimiter shared by the calls of several threads       *)
(* (src/pool/rate_limit.rs:24-61).  try_acquire reads Instant::now()       *)
(* before it takes the mutex, so by the time a thread gets the lock its    *)
(* "now" may be older than the bucket's last refill.                       *)
(***************************************************************************)
EXTENDS TokenBucket

CONSTANTS
    Threads,
    Rps,       \* max_rps of the endpoint
    MaxTime    \* bound: the clock stops here

ASSUME RateLimiterAssumption == Rps \in Nat /\ MaxTime \in Nat

VARIABLES
    clock,
    bucket,   \* RateLimiter.inner
    now,      \* per thread: the time it has read and not used yet, or Unread
    window    \* auxiliary observer: [from, granted]

vars == <<clock, bucket, now, window>>

Unread == -1

Init ==
    /\ clock = 0
    /\ bucket = FullBucket(Rps, 0)
    /\ now = [t \in Threads |-> Unread]
    /\ window = [from |-> 0, granted |-> 0]

\* try_acquire evaluates its argument Instant::now()
ReadClock(t) ==
    /\ now[t] = Unread
    /\ now' = [now EXCEPT ![t] = clock]
    /\ UNCHANGED <<clock, bucket, window>>

\* try_acquire_at finds a token
Grant(t) ==
    LET b == Refill(bucket, Rps, now[t])
    IN  /\ now[t] # Unread
        /\ HasToken(b)
        /\ bucket' = Take(b)
        /\ window' = [window EXCEPT !.granted = @ + 1]
        /\ now' = [now EXCEPT ![t] = Unread]
        /\ UNCHANGED clock

\* try_acquire_at finds none; the refill is kept
Deny(t) ==
    LET b == Refill(bucket, Rps, now[t])
    IN  /\ now[t] # Unread
        /\ ~HasToken(b)
        /\ bucket' = b
        /\ now' = [now EXCEPT ![t] = Unread]
        /\ UNCHANGED <<clock, window>>

Tick ==
    /\ clock < MaxTime
    /\ clock' = clock + 1
    /\ UNCHANGED <<bucket, now, window>>

\* Auxiliary: start counting grants afresh, at any moment.
OpenWindow ==
    /\ window' = [from |-> bucket.lastRefill, granted |-> 0]
    /\ UNCHANGED <<clock, bucket, now>>

Next ==
    \/ \E t \in Threads : ReadClock(t) \/ Grant(t) \/ Deny(t)
    \/ Tick
    \/ OpenWindow

Spec == Init /\ [][Next]_vars

-----------------------------------------------------------------------------
\* Type invariant: the bucket never holds more than its burst.
TypeOK ==
    /\ clock \in Nat
    /\ bucket \in [tokens: 0 .. Capacity(Rps), lastRefill: Nat]
    /\ now \in [Threads -> Nat \cup {Unread}]
    /\ window \in [from: Nat, granted: Nat]

(***************************************************************************)
(* max_rps is kept (rate_limit.rs:44-60): over every span of the bucket's  *)
(* time that starts anywhere, the grants are at most one burst plus the    *)
(* rate times the span, although threads arrive with clock readings out of *)
(* order.                                                                  *)
(***************************************************************************)
WindowWithinRate ==
    window.granted * Token <= Capacity(Rps) + Rate(Rps) * (bucket.lastRefill - window.from)

(***************************************************************************)
(* The throttle reads the real clock: the bucket's time is never ahead of  *)
(* it, so the bound above holds for real time too, and a thread that asks  *)
(* a second after the last refill is granted a token whatever other        *)
(* threads did before (rate_limit.rs:26: never permanently closed).        *)
(***************************************************************************)
NeverClosedForGood ==
    /\ bucket.lastRefill <= clock
    /\ clock - bucket.lastRefill >= TicksPerSecond => HasToken(Refill(bucket, Rps, clock))
=============================================================================
