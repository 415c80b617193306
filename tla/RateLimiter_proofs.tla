------------------------- MODULE RateLimiter_proofs -------------------------
(***************************************************************************)
(* For any number of threads, any rate and any clock resolution, the       *)
(* limiter keeps its rate although threads use clock readings that are     *)
(* older than the bucket's last refill.                                    *)
(***************************************************************************)
EXTENDS RateLimiter, ComponentTheorems

(***************************************************************************)
(* The inductive invariant.  What makes the rate hold is a balance: the    *)
(* tokens granted since the window opened, plus the ones still in the      *)
(* bucket, are covered by one burst plus the refills since then.           *)
(***************************************************************************)
Balance ==
    window.granted * Token + bucket.tokens
        <= Capacity(Rps) + (Rate(Rps) * bucket.lastRefill - Rate(Rps) * window.from)

TimesInOrder ==
    /\ bucket.lastRefill <= clock
    /\ window.from <= bucket.lastRefill
    /\ \A t \in Threads : now[t] # Unread => now[t] <= clock

IInv == TypeOK /\ TimesInOrder /\ Balance

-----------------------------------------------------------------------------
LEMMA InitIInv == Init => IInv
<1>. SUFFICES ASSUME Init PROVE IInv
  OBVIOUS
<1>1. Rate(Rps) \in Nat /\ Capacity(Rps) \in Nat /\ Token \in Nat
  BY RateType, RateLimiterAssumption
<1>2. bucket = [tokens |-> Capacity(Rps), lastRefill |-> 0]
  BY DEF Init, FullBucket
<1>3. TypeOK
  BY <1>1, <1>2 DEF Init, TypeOK
<1>4. TimesInOrder
  BY <1>2 DEF Init, TimesInOrder
<1>5. Balance
  <2>1. 0 * Token = 0 /\ Rate(Rps) * 0 = 0
    BY <1>1
  <2>. QED
    BY <1>1, <1>2, <2>1 DEF Init, Balance
<1>. QED
  BY <1>3, <1>4, <1>5 DEF IInv

\* What a thread that uses its clock reading finds in the bucket.
LEMMA RefilledBalance ==
    ASSUME IInv, NEW t \in Threads, now[t] # Unread
    PROVE  LET b == Refill(bucket, Rps, now[t])
           IN  /\ b \in [tokens: 0 .. Capacity(Rps), lastRefill: Nat]
               /\ bucket.lastRefill <= b.lastRefill /\ b.lastRefill <= clock
               /\ window.granted * Token + b.tokens
                    <= Capacity(Rps) + (Rate(Rps) * b.lastRefill - Rate(Rps) * window.from)
<1>. DEFINE b == Refill(bucket, Rps, now[t])
<1>1. now[t] \in Nat /\ now[t] <= clock
  BY DEF IInv, TypeOK, TimesInOrder, Unread
<1>2. /\ b \in [tokens: 0 .. Capacity(Rps), lastRefill: Nat]
      /\ b.lastRefill >= bucket.lastRefill
      /\ b.lastRefill = bucket.lastRefill \/ b.lastRefill = now[t]
      /\ b.tokens <= bucket.tokens + (Rate(Rps) * b.lastRefill - Rate(Rps) * bucket.lastRefill)
  BY <1>1, RefillBounds, RateLimiterAssumption DEF IInv, TypeOK
<1>3. /\ Rate(Rps) * b.lastRefill \in Int
      /\ Rate(Rps) * bucket.lastRefill \in Int
      /\ Rate(Rps) * window.from \in Int
      /\ window.granted * Token \in Int
      /\ Capacity(Rps) \in Int
  BY <1>2, RateType, RateLimiterAssumption DEF IInv, TypeOK
<1>4. b.lastRefill <= clock
  BY <1>1, <1>2 DEF IInv, TimesInOrder
<1>5. window.granted * Token + b.tokens
        <= Capacity(Rps) + (Rate(Rps) * b.lastRefill - Rate(Rps) * window.from)
  BY <1>2, <1>3 DEF IInv, TypeOK, Balance
<1>. QED
  BY <1>2, <1>4, <1>5

LEMMA NextIInv == IInv /\ [Next]_vars => IInv'
<1>. SUFFICES ASSUME IInv, [Next]_vars PROVE IInv'
  OBVIOUS
<1>. USE DEF IInv
<1>1. ASSUME NEW t \in Threads, ReadClock(t) PROVE IInv'
  <2>1. TypeOK'
    BY <1>1 DEF ReadClock, TypeOK
  <2>2. TimesInOrder' /\ Balance'
    BY <1>1 DEF ReadClock, TypeOK, TimesInOrder, Balance
  <2>. QED
    BY <2>1, <2>2
<1>2. ASSUME NEW t \in Threads, Grant(t) PROVE IInv'
  <2>. DEFINE b == Refill(bucket, Rps, now[t])
  <2>1. now[t] # Unread /\ HasToken(b) /\ bucket' = Take(b) /\ clock' = clock
        /\ window' = [window EXCEPT !.granted = @ + 1]
        /\ now' = [now EXCEPT ![t] = Unread]
    BY <1>2 DEF Grant
  <2>2. /\ b \in [tokens: 0 .. Capacity(Rps), lastRefill: Nat]
        /\ bucket.lastRefill <= b.lastRefill /\ b.lastRefill <= clock
        /\ window.granted * Token + b.tokens
             <= Capacity(Rps) + (Rate(Rps) * b.lastRefill - Rate(Rps) * window.from)
    BY <2>1, RefilledBalance
  <2>3. /\ bucket' \in [tokens: 0 .. Capacity(Rps), lastRefill: Nat]
        /\ bucket'.tokens = b.tokens - Token
        /\ bucket'.lastRefill = b.lastRefill
    BY <2>1, <2>2, TakeBounds, RateLimiterAssumption
  <2>4. /\ window'.from = window.from
        /\ window'.granted = window.granted + 1
        /\ window' \in [from: Nat, granted: Nat]
    BY <2>1 DEF TypeOK
  <2>5. TypeOK'
    BY <2>1, <2>3, <2>4 DEF TypeOK
  <2>6. TimesInOrder'
    BY <2>1, <2>2, <2>3, <2>4 DEF TimesInOrder, TypeOK
  <2>7. Balance'
    <3>1. Token \in Nat /\ window.granted \in Nat
      BY RateType, RateLimiterAssumption DEF TypeOK
    <3>2. window'.granted * Token = window.granted * Token + Token
      BY <2>4, <3>1
    <3>. QED
      BY <2>2, <2>3, <2>4, <3>1, <3>2, RateType, RateLimiterAssumption DEF Balance, TypeOK
  <2>. QED
    BY <2>5, <2>6, <2>7
<1>3. ASSUME NEW t \in Threads, Deny(t) PROVE IInv'
  <2>1. now[t] # Unread /\ bucket' = Refill(bucket, Rps, now[t]) /\ clock' = clock
        /\ window' = window /\ now' = [now EXCEPT ![t] = Unread]
    BY <1>3 DEF Deny
  <2>2. TypeOK'
    BY <2>1, RefilledBalance DEF TypeOK
  <2>3. TimesInOrder' /\ Balance'
    BY <2>1, RefilledBalance DEF TypeOK, TimesInOrder, Balance
  <2>. QED
    BY <2>2, <2>3
<1>4. CASE Tick
  BY <1>4 DEF Tick, TypeOK, TimesInOrder, Balance
<1>5. CASE OpenWindow
  <2>1. TypeOK' /\ TimesInOrder'
    BY <1>5 DEF OpenWindow, TypeOK, TimesInOrder
  <2>2. Balance'
    <3>1. window'.granted = 0 /\ window'.from = bucket.lastRefill /\ bucket' = bucket
      BY <1>5 DEF OpenWindow
    <3>2. 0 * Token = 0 /\ Rate(Rps) * bucket.lastRefill - Rate(Rps) * bucket.lastRefill = 0
      BY RateType, RateLimiterAssumption DEF TypeOK
    <3>. QED
      BY <3>1, <3>2, RateType, RateLimiterAssumption DEF Balance, TypeOK
  <2>. QED
    BY <2>1, <2>2
<1>6. CASE UNCHANGED vars
  BY <1>6 DEF vars, TypeOK, TimesInOrder, Balance
<1>. QED
  BY <1>1, <1>2, <1>3, <1>4, <1>5, <1>6 DEF Next

LEMMA Invariance == Spec => []IInv
  BY InitIInv, NextIInv, PTL DEF Spec

-----------------------------------------------------------------------------
(***************************************************************************)
(* The bucket never goes below zero nor above one burst, for every rate    *)
(* and any number of threads (rate_limit.rs:44-60).                        *)
(***************************************************************************)
THEOREM TypeCorrect == Spec => []TypeOK
  BY Invariance, PTL DEF IInv

(***************************************************************************)
(* max_rps is kept over every span of time that starts anywhere, for every *)
(* rate and any number of threads (rate_limit.rs:39-60).                   *)
(***************************************************************************)
THEOREM RateKept == Spec => []WindowWithinRate
<1>1. IInv => WindowWithinRate
  <2>. SUFFICES ASSUME IInv PROVE WindowWithinRate
    OBVIOUS
  <2>1. /\ window.from <= bucket.lastRefill
        /\ window.from \in Nat /\ bucket.lastRefill \in Nat /\ Rate(Rps) \in Nat
    BY RateType, RateLimiterAssumption DEF IInv, TypeOK, TimesInOrder
  <2>2. Rate(Rps) * (bucket.lastRefill - window.from)
          = Rate(Rps) * bucket.lastRefill - Rate(Rps) * window.from
    BY <2>1
  <2>. QED
    BY <2>2, RateType, RateLimiterAssumption DEF IInv, TypeOK, Balance, WindowWithinRate
<1>. QED
  BY <1>1, Invariance, PTL

(***************************************************************************)
(* No order of calls closes the bucket for good: a second after the last   *)
(* refill a token is there, whatever max_rps is (rate_limit.rs:26).        *)
(***************************************************************************)
THEOREM AlwaysReopens == Spec => []NeverClosedForGood
<1>1. IInv => NeverClosedForGood
  <2>. SUFFICES ASSUME IInv, clock - bucket.lastRefill >= TicksPerSecond
       PROVE  HasToken(Refill(bucket, Rps, clock))
    BY DEF IInv, TimesInOrder, NeverClosedForGood
  <2>. DEFINE elapsed == clock - bucket.lastRefill
  <2>1. /\ elapsed \in Nat /\ elapsed >= Token /\ Token \in Nat \ {0}
        /\ Rate(Rps) \in Nat \ {0} /\ Capacity(Rps) >= Token /\ Capacity(Rps) \in Nat
    BY RateType, RateLimiterAssumption, TokenBucketAssumption DEF IInv, TypeOK, TimesInOrder, Token
  <2>2. elapsed * Rate(Rps) \in Nat /\ elapsed * Rate(Rps) >= elapsed
    BY <2>1
  <2>3. clock > bucket.lastRefill /\ bucket.tokens \in Nat
    BY <2>1 DEF IInv, TypeOK
  <2>. QED
    BY <2>1, <2>2, <2>3 DEF Refill, HasToken
<1>. QED
  BY <1>1, Invariance, PTL
=============================================================================
