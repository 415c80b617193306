------------------------- MODULE ComponentTheorems -------------------------
(***************************************************************************)
(* Facts about what a pool is composed of: the two records of an endpoint  *)
(* that are kept under a lock, its health and its token bucket, and the    *)
(* order of the candidates.                                                *)
(***************************************************************************)
EXTENDS Backoff, TokenBucket, Routing, Induction

\* The powers of two are what they are called.
LEMMA PowersOfTwo ==
    /\ Pow2[0] = 1
    /\ \A k \in Nat : Pow2[k] \in Nat /\ Pow2[k] > 0 /\ Pow2[k + 1] = 2 * Pow2[k]
<1>1. Pow2 = [n \in Nat |-> IF n = 0 THEN 1 ELSE 2 * Pow2[n - 1]]
  <2>. DEFINE step == [p \in Nat \X Nat |-> 2 * p[2]]
  <2>1. 1 \in Nat /\ step \in Steps(Nat) /\ \A n, x \in Nat : step[<<n, x>>] = 2 * x
    BY DEF Steps
  <2>. HIDE DEF step
  <2>2. PICK f : IsRecursive(f, Nat, 1, step)
    BY <2>1, Recursion
  <2>3. ASSUME NEW n \in Nat
        PROVE  f[n] = IF n = 0 THEN 1 ELSE 2 * f[n - 1]
    <3>1. CASE n = 0
      BY <2>2, <3>1 DEF IsRecursive
    <3>2. CASE n # 0
      <4>1. n - 1 \in Nat /\ (n - 1) + 1 = n
        BY <3>2
      <4>2. f[(n - 1) + 1] = step[<<n - 1, f[n - 1]>>]
        BY <2>2, <4>1 DEF IsRecursive
      <4>3. f[n - 1] \in Nat
        BY <2>2, <4>1 DEF IsRecursive
      <4>4. step[<<n - 1, f[n - 1]>>] = 2 * f[n - 1]
        BY <2>1, <4>1, <4>3
      <4>. QED
        BY <3>2, <4>1, <4>2, <4>4
    <3>. QED
      BY <3>1, <3>2
  <2>4. f = [n \in Nat |-> IF n = 0 THEN 1 ELSE 2 * f[n - 1]]
    BY <2>2, <2>3 DEF IsRecursive
  <2>. QED
    BY <2>4 DEF Pow2
<1>2. Pow2[0] = 1 /\ \A k \in Nat : Pow2[k + 1] = 2 * Pow2[k]
  BY <1>1
<1>. DEFINE Positive == {k \in Nat : Pow2[k] \in Nat /\ Pow2[k] > 0}
<1>3. 0 \in Positive /\ \A k \in Nat : k \in Positive => k + 1 \in Positive
  BY <1>2
<1>4. Nat \subseteq Positive
  <2>. HIDE DEF Positive
  <2>. QED
    BY <1>3, InductiveSet
<1>. QED
  BY <1>2, <1>4

LEMMA MaxWordType == MaxWord \in Nat
  BY PowersOfTwo, BackoffAssumption DEF MaxWord

\* A cooldown is a number of ticks, and never more than MaxDelay
\* (health.rs:47-60).
LEMMA DelayBounded ==
    ASSUME NEW n \in Nat
    PROVE  DelayFor(n) \in Int /\ DelayFor(n) <= MaxDelay
<1>1. OverThreshold(n) \in Nat
  BY BackoffAssumption DEF OverThreshold
<1>2. BackoffFactor(n) \in Int
  BY <1>1, PowersOfTwo, MaxWordType DEF BackoffFactor
<1>3. BaseDelay * BackoffFactor(n) \in Int
  BY <1>2, BackoffAssumption
<1>. QED
  BY <1>3, BackoffAssumption DEF DelayFor

\* Recording an outcome leaves a well-formed record (health.rs:126-145).
LEMMA RecordType ==
    ASSUME NEW h \in Health, NEW now \in Nat
    PROVE  /\ RecordSuccess(h) \in Health
           /\ RecordFailure(h, now) \in Health
           /\ RecordFailure(h, now).lastFailure = now
<1>3. PICK counted \in Nat : counted = IF h.fails < MaxWord THEN h.fails + 1 ELSE h.fails
  BY MaxWordType DEF Health
<1>4. PICK failures \in Nat : failures = h.failures + 1
  BY DEF Health
<1>5. PICK successes \in Nat, none \in Nat : successes = h.successes + 1 /\ none = 0
  BY DEF Health
<1>6. RecordFailure(h, now) =
          [h EXCEPT !.fails = counted, !.lastFailure = now, !.failures = failures]
  BY <1>3, <1>4 DEF RecordFailure
<1>7. RecordSuccess(h) = [h EXCEPT !.fails = none, !.successes = successes]
  BY <1>5 DEF RecordSuccess
<1>8. RecordFailure(h, now) \in Health
  BY <1>6 DEF Health
<1>9. RecordSuccess(h) \in Health
  BY <1>7 DEF Health
<1>10. RecordFailure(h, now).lastFailure = now
  BY <1>6 DEF Health
<1>. QED
  BY <1>8, <1>9, <1>10

\* A report counts once, on its own side of the books (health.rs:126-145).
LEMMA RecordCounts ==
    ASSUME NEW h \in Health, NEW now \in Nat
    PROVE  /\ RecordSuccess(h).successes = h.successes + 1
           /\ RecordSuccess(h).failures = h.failures
           /\ RecordFailure(h, now).successes = h.successes
           /\ RecordFailure(h, now).failures = h.failures + 1
  BY DEF RecordSuccess, RecordFailure, Health

\* An endpoint that just succeeded is eligible whatever the clock says
\* (health.rs:108-112, 126-134).
LEMMA SuccessRestores ==
    ASSUME NEW h \in Health, NEW now \in Nat
    PROVE  IsAvailableAt(RecordSuccess(h), now)
  BY BackoffAssumption DEF RecordSuccess, IsAvailableAt, Health

\* Eligibility is never lost by waiting alone (health.rs:108-118).
LEMMA AvailabilityMonotone ==
    ASSUME NEW h \in Health, NEW now \in Nat, NEW later \in Nat,
           now <= later, IsAvailableAt(h, now)
    PROVE  IsAvailableAt(h, later)
<1>1. DelayFor(h.fails) \in Int
  BY DelayBounded DEF Health
<1>. QED
  BY <1>1 DEF IsAvailableAt, Health

\* Once MaxDelay has passed since the last failure, the endpoint is eligible
\* however often it has failed in a row (health.rs:47-60, 108-118).
LEMMA RestIsBounded ==
    ASSUME NEW h \in Health, NEW now \in Nat, now >= h.lastFailure + MaxDelay
    PROVE  IsAvailableAt(h, now)
<1>1. DelayFor(h.fails) \in Int /\ DelayFor(h.fails) <= MaxDelay
  BY DelayBounded DEF Health
<1>. QED
  BY <1>1, BackoffAssumption DEF IsAvailableAt, Health, Never

-----------------------------------------------------------------------------
LEMMA FactorGrows ==
    ASSUME NEW n \in Nat
    PROVE  /\ BackoffFactor(n) \in Int /\ BackoffFactor(n + 1) \in Int
           /\ 0 <= BackoffFactor(n) /\ BackoffFactor(n) <= BackoffFactor(n + 1)
<1>1. PICK k \in Nat : k = OverThreshold(n)
  <2>1. OverThreshold(n) \in Nat
    BY BackoffAssumption DEF OverThreshold
  <2>. QED
    BY <2>1
<1>2. OverThreshold(n + 1) = k \/ OverThreshold(n + 1) = k + 1
  BY <1>1, BackoffAssumption DEF OverThreshold
<1>3. Pow2[k] \in Int /\ Pow2[k] > 0 /\ Pow2[k + 1] \in Int /\ Pow2[k + 1] = 2 * Pow2[k]
  BY PowersOfTwo
<1>4. MaxWord \in Int /\ MaxWord >= 0 /\ (k + 1 = WordBits => MaxWord >= Pow2[k])
  BY <1>3, PowersOfTwo, BackoffAssumption DEF MaxWord
<1>5. BackoffFactor(n) = IF k < WordBits THEN Pow2[k] ELSE MaxWord
  BY <1>1 DEF BackoffFactor
<1>6. CASE OverThreshold(n + 1) = k
  BY <1>3, <1>4, <1>5, <1>6 DEF BackoffFactor
<1>7. CASE OverThreshold(n + 1) = k + 1
  <2>1. BackoffFactor(n + 1) = IF k + 1 < WordBits THEN Pow2[k + 1] ELSE MaxWord
    BY <1>7 DEF BackoffFactor
  <2>2. k + 1 < WordBits \/ k + 1 = WordBits \/ ~(k < WordBits)
    BY BackoffAssumption
  <2>. QED
    BY <1>3, <1>4, <1>5, <2>1, <2>2, BackoffAssumption
<1>. QED
  BY <1>2, <1>6, <1>7

\* One failure more never shortens the cooldown, neither where the shift runs
\* out of its word nor where the cap is reached (health.rs:47-60).
LEMMA DelayGrows ==
    ASSUME NEW n \in Nat, n > 0
    PROVE  DelayFor(n) <= DelayFor(n + 1)
<1>1. /\ BackoffFactor(n) \in Nat /\ BackoffFactor(n + 1) \in Nat
      /\ BackoffFactor(n) <= BackoffFactor(n + 1)
  BY FactorGrows
<1>2. \A a, b, c \in Nat : b <= c => a * b <= a * c
  OBVIOUS
<1>3. PICK p \in Int, q \in Int : /\ p = BaseDelay * BackoffFactor(n)
                                  /\ q = BaseDelay * BackoffFactor(n + 1)
  BY <1>1, BackoffAssumption
<1>4. p <= q
  BY <1>1, <1>2, <1>3, BackoffAssumption
<1>5. /\ DelayFor(n) = IF p < MaxDelay THEN p ELSE MaxDelay
      /\ DelayFor(n + 1) = IF q < MaxDelay THEN q ELSE MaxDelay
  BY <1>3 DEF DelayFor
<1>. QED
  BY <1>4, <1>5, BackoffAssumption

\* Past the threshold, a cooldown is twice the base delay at least, for words
\* of two bits or more (health.rs:47-60).
LEMMA DelayAtLeastTwice ==
    ASSUME WordBits > 1, NEW n \in Nat, n > DemotionThreshold
    PROVE  DelayFor(n) >= IF 2 * BaseDelay < MaxDelay THEN 2 * BaseDelay ELSE MaxDelay
<1>1. PICK k \in Nat : k + 1 = OverThreshold(n)
  <2>1. n - DemotionThreshold - 1 \in Nat /\ OverThreshold(n) = n - DemotionThreshold
    BY BackoffAssumption DEF OverThreshold
  <2>. QED
    BY <2>1, BackoffAssumption
<1>2. Pow2[k] \in Nat /\ Pow2[k] > 0 /\ Pow2[k + 1] = 2 * Pow2[k]
  BY PowersOfTwo
<1>3. Pow2[k + 1] \in Int /\ Pow2[k + 1] >= 2
  BY <1>2
<1>4. MaxWord \in Int /\ MaxWord >= 2
  <2>1. PICK w \in Nat : w + 2 = WordBits
    <3>1. WordBits - 2 \in Nat
      BY BackoffAssumption
    <3>. QED
      BY <3>1, BackoffAssumption
  <2>2. Pow2[w] > 0 /\ Pow2[w + 1] = 2 * Pow2[w] /\ Pow2[w] \in Int /\ Pow2[w + 1] \in Int
    BY PowersOfTwo
  <2>3. (w + 1) + 1 = WordBits
    BY <2>1, BackoffAssumption
  <2>4. Pow2[(w + 1) + 1] = 2 * Pow2[w + 1]
    BY PowersOfTwo
  <2>5. Pow2[WordBits] = 2 * Pow2[w + 1]
    BY <2>3, <2>4
  <2>. QED
    BY <2>2, <2>5 DEF MaxWord
<1>5. BackoffFactor(n) \in Nat /\ BackoffFactor(n) >= 2
  BY <1>1, <1>3, <1>4 DEF BackoffFactor
<1>6. \A a, b, c \in Nat : b <= c => a * b <= a * c
  OBVIOUS
<1>7. PICK p \in Int : p = BaseDelay * BackoffFactor(n)
  BY <1>5, BackoffAssumption
<1>8. BaseDelay * 2 <= p
  BY <1>5, <1>6, <1>7, BackoffAssumption
<1>9. n # 0
  BY BackoffAssumption
<1>10. DelayFor(n) = IF p < MaxDelay THEN p ELSE MaxDelay
  BY <1>7, <1>9 DEF DelayFor
<1>. QED
  BY <1>8, <1>10, BackoffAssumption

-----------------------------------------------------------------------------
\* The clamped rate and what is made of it are natural numbers.
LEMMA RateType ==
    ASSUME NEW rps \in Nat
    PROVE  /\ Rate(rps) \in Nat \ {0}
           /\ Token \in Nat \ {0}
           /\ Capacity(rps) \in Nat
           /\ Capacity(rps) >= Token
<1>1. Rate(rps) \in Nat \ {0} /\ Token \in Nat \ {0}
  BY TokenBucketAssumption DEF Rate, Token
<1>2. \A r, t \in Nat \ {0} : r * t \in Nat /\ r * t >= t
  OBVIOUS
<1>. QED
  BY <1>1, <1>2 DEF Capacity

\* A credit for elapsed time is a natural number, and adds up.
LEMMA CreditType ==
    ASSUME NEW r \in Nat, NEW from \in Nat, NEW to \in Nat, to >= from
    PROVE  /\ (to - from) * r \in Nat
           /\ (to - from) * r = r * to - r * from
  OBVIOUS

(***************************************************************************)
(* A refill never lets the bucket's time go back nor overflow it, and adds *)
(* at most the rate times the time it moves on (rate_limit.rs:45-53).      *)
(***************************************************************************)
LEMMA RefillBounds ==
    ASSUME NEW rps \in Nat, NEW now \in Nat,
           NEW b \in [tokens: 0 .. Capacity(rps), lastRefill: Nat]
    PROVE  LET r == Refill(b, rps, now)
           IN  /\ r \in [tokens: 0 .. Capacity(rps), lastRefill: Nat]
               /\ r.lastRefill >= b.lastRefill
               /\ r.lastRefill = b.lastRefill \/ r.lastRefill = now
               /\ r.tokens <= b.tokens
                    + (Rate(rps) * r.lastRefill - Rate(rps) * b.lastRefill)
<1>. DEFINE full == b.tokens + (now - b.lastRefill) * Rate(rps)
<1>1. Rate(rps) \in Nat /\ Capacity(rps) \in Nat
  BY RateType
<1>2. CASE now > b.lastRefill
  <2>1. /\ (now - b.lastRefill) * Rate(rps) \in Nat
        /\ (now - b.lastRefill) * Rate(rps) = Rate(rps) * now - Rate(rps) * b.lastRefill
    BY <1>1, <1>2, CreditType
  <2>2. full \in Nat
    BY <2>1
  <2>3. Refill(b, rps, now) =
            [tokens |-> IF full < Capacity(rps) THEN full ELSE Capacity(rps), lastRefill |-> now]
    BY <1>2 DEF Refill
  <2>. QED
    BY <1>1, <1>2, <2>1, <2>2, <2>3
<1>3. CASE ~(now > b.lastRefill)
  <2>1. Refill(b, rps, now) = b
    BY <1>3 DEF Refill
  <2>2. Rate(rps) * b.lastRefill - Rate(rps) * b.lastRefill = 0
    BY <1>1
  <2>. QED
    BY <2>1, <2>2, <1>1
<1>. QED
  BY <1>2, <1>3

\* Taking the token that was found leaves a bucket within its bounds.
LEMMA TakeBounds ==
    ASSUME NEW rps \in Nat,
           NEW b \in [tokens: 0 .. Capacity(rps), lastRefill: Nat], HasToken(b)
    PROVE  /\ Take(b) \in [tokens: 0 .. Capacity(rps), lastRefill: Nat]
           /\ Take(b).tokens = b.tokens - Token
           /\ Take(b).lastRefill = b.lastRefill
  BY RateType DEF Take, HasToken

-----------------------------------------------------------------------------
\* The cursor stands inside the part of the list it has reached.
CursorOK(s) == s.at >= 2 /\ s.hole \in 2 .. s.at

\* Every candidate of t is one of s.
SameCandidates(s, t) ==
    /\ Len(t.order) = Len(s.order)
    /\ \A j \in 1 .. Len(t.order) : \E i \in 1 .. Len(s.order) : t.order[j] = s.order[i]

LEMMA KeyType ==
    ASSUME NEW e \in Endpoints, NEW load \in Nat
    PROVE  Key(e, load) \in Keys
  BY RoutingAssumption DEF Key, Keys

LEMMA StartCursorType ==
    ASSUME NEW candidates \in Seq(Endpoints)
    PROVE  StartCursor(candidates) \in Cursors /\ CursorOK(StartCursor(candidates))
  BY DEF StartCursor, Cursors, CursorOK

\* Reading a key moves nothing.
LEMMA ReadLeftKeeps ==
    ASSUME NEW s \in Cursors, CursorOK(s), Sorting(s), NEW load \in [Endpoints -> Nat]
    PROVE  /\ ReadLeft(s, load) \in Cursors
           /\ CursorOK(ReadLeft(s, load))
           /\ Sorting(ReadLeft(s, load))
           /\ ReadLeft(s, load).order = s.order
<1>1. s.hole \in 1 .. Len(s.order)
  BY DEF CursorOK, Sorting, Cursors
<1>2. s.order[s.hole] \in Endpoints
  BY <1>1 DEF Cursors
<1>3. Key(s.order[s.hole], load[s.order[s.hole]]) \in Keys
  BY <1>2, KeyType
<1>. QED
  BY <1>3 DEF ReadLeft, Cursors, CursorOK, Sorting

LEMMA ShiftKeeps ==
    ASSUME NEW order \in Seq(Endpoints), NEW hole \in 2 .. Len(order)
    PROVE  /\ Shift(order, hole) \in Seq(Endpoints)
           /\ Len(Shift(order, hole)) = Len(order)
           /\ \A j \in 1 .. Len(order) : \E i \in 1 .. Len(order) :
                 Shift(order, hole)[j] = order[i]
  BY DEF Shift

LEMMA NextElementKeeps ==
    ASSUME NEW s \in Cursors, s.at >= 2
    PROVE  /\ NextElement(s) \in Cursors
           /\ CursorOK(NextElement(s))
           /\ NextElement(s).order = s.order
<1>1. PICK k \in Nat : k = s.at + 1
  BY DEF Cursors
<1>2. NextElement(s) = [s EXCEPT !.at = k, !.hole = k, !.left = NoKey]
  BY <1>1 DEF NextElement
<1>3. k >= 2
  BY <1>1 DEF Cursors
<1>4. NextElement(s) \in Cursors
  BY <1>2 DEF Cursors
<1>5. /\ NextElement(s).order = s.order
      /\ NextElement(s).at = k
      /\ NextElement(s).hole = k
  BY <1>2 DEF Cursors
<1>. QED
  BY <1>3, <1>4, <1>5 DEF CursorOK

\* A comparison neither loses a candidate nor makes one up, and keeps the
\* cursor inside the list (slice::sort_by_key, mod.rs:253-263).
LEMMA CompareKeeps ==
    ASSUME NEW s \in Cursors, CursorOK(s), Sorting(s), NEW load
    PROVE  /\ Compare(s, load) \in Cursors
           /\ CursorOK(Compare(s, load))
           /\ SameCandidates(s, Compare(s, load))
<1>. DEFINE moved == [s EXCEPT !.order = Shift(@, s.hole), !.hole = @ - 1, !.left = NoKey]
<1>1. s.order \in Seq(Endpoints) /\ s.hole \in 2 .. Len(s.order) /\ s.hole <= s.at
  BY DEF Cursors, CursorOK, Sorting
<1>2. /\ Shift(s.order, s.hole) \in Seq(Endpoints)
      /\ Len(Shift(s.order, s.hole)) = Len(s.order)
      /\ \A j \in 1 .. Len(s.order) : \E i \in 1 .. Len(s.order) :
            Shift(s.order, s.hole)[j] = s.order[i]
  BY <1>1, ShiftKeeps
<1>3. CASE ~LeftIsLess(s, load)
  <2>1. Compare(s, load) = NextElement(s)
    BY <1>3 DEF Compare
  <2>. QED
    BY <2>1, <1>1, NextElementKeeps DEF SameCandidates, CursorOK
<1>4. PICK k \in Nat : k = s.hole - 1
  BY <1>1
<1>5. moved = [s EXCEPT !.order = Shift(s.order, s.hole), !.hole = k, !.left = NoKey]
  BY <1>4
<1>6. /\ moved \in Cursors
      /\ moved.order = Shift(s.order, s.hole)
      /\ moved.at = s.at
      /\ moved.hole = s.hole - 1
  BY <1>2, <1>4, <1>5 DEF Cursors
<1>. HIDE DEF moved
<1>7. CASE LeftIsLess(s, load) /\ s.hole = 2
  <2>1. Compare(s, load) = NextElement(moved)
    BY <1>7 DEF Compare, moved
  <2>2. moved.at >= 2
    BY <1>6 DEF CursorOK
  <2>3. /\ NextElement(moved) \in Cursors
        /\ CursorOK(NextElement(moved))
        /\ NextElement(moved).order = Shift(s.order, s.hole)
    BY <2>2, <1>6, NextElementKeeps
  <2>. QED
    BY <2>1, <2>3, <1>2 DEF SameCandidates
<1>8. CASE LeftIsLess(s, load) /\ s.hole # 2
  <2>1. Compare(s, load) = moved
    BY <1>8 DEF Compare, moved
  <2>2. CursorOK(moved)
    BY <1>1, <1>6, <1>8 DEF CursorOK, Cursors
  <2>. QED
    BY <2>1, <2>2, <1>6, <1>2 DEF SameCandidates
<1>. QED
  BY <1>3, <1>7, <1>8
-----------------------------------------------------------------------------
\* The candidates on a list, none of them listed twice.
Elements(q) == {q[i] : i \in 1 .. Len(q)}
Distinct(q) == \A i, j \in 1 .. Len(q) : q[i] = q[j] => i = j

\* The swap of the hole and its left neighbour, place by place.
LEMMA ShiftAt ==
    ASSUME NEW order \in Seq(Endpoints), NEW hole \in 2 .. Len(order)
    PROVE  /\ Shift(order, hole) \in Seq(Endpoints)
           /\ Len(Shift(order, hole)) = Len(order)
           /\ Shift(order, hole)[hole - 1] = order[hole]
           /\ Shift(order, hole)[hole] = order[hole - 1]
           /\ \A j \in 1 .. Len(order) \ {hole - 1, hole} : Shift(order, hole)[j] = order[j]
  BY DEF Shift

\* A move of the sort permutes the list (slice::sort_by_key, mod.rs:253-263).
LEMMA ShiftPermutes ==
    ASSUME NEW order \in Seq(Endpoints), NEW hole \in 2 .. Len(order)
    PROVE  /\ Elements(Shift(order, hole)) = Elements(order)
           /\ Distinct(order) => Distinct(Shift(order, hole))
<1>. DEFINE moved == Shift(order, hole)
<1>1. /\ Len(moved) = Len(order) /\ Len(order) \in Nat
      /\ moved[hole - 1] = order[hole] /\ moved[hole] = order[hole - 1]
      /\ \A j \in 1 .. Len(order) \ {hole - 1, hole} : moved[j] = order[j]
  BY ShiftAt
<1>. HIDE DEF moved
<1>2. hole \in 1 .. Len(order) /\ hole - 1 \in 1 .. Len(order) /\ hole # hole - 1
  OBVIOUS
<1>3. \A j \in 1 .. Len(order) : \E i \in 1 .. Len(order) : moved[j] = order[i]
  BY <1>1, <1>2
<1>4. \A j \in 1 .. Len(order) : \E i \in 1 .. Len(order) : order[j] = moved[i]
  BY <1>1, <1>2
<1>5. Elements(moved) = Elements(order)
  <2>1. Elements(moved) = {moved[i] : i \in 1 .. Len(order)}
    BY <1>1 DEF Elements
  <2>2. Elements(order) = {order[i] : i \in 1 .. Len(order)}
    BY DEF Elements
  <2>3. \A x : x \in Elements(moved) => x \in Elements(order)
    BY <1>3, <2>1, <2>2, Zenon
  <2>4. \A x : x \in Elements(order) => x \in Elements(moved)
    BY <1>4, <2>1, <2>2, Zenon
  <2>. QED
    BY <2>3, <2>4, Zenon
<1>6. ASSUME Distinct(order), NEW i \in 1 .. Len(moved), NEW j \in 1 .. Len(moved),
             moved[i] = moved[j]
      PROVE  i = j
  BY <1>1, <1>2, <1>6 DEF Distinct
<1>. QED
  BY <1>5, <1>6 DEF Distinct, moved

(***************************************************************************)
(* What one comparison does to the cursor: either the element at the hole  *)
(* stays and the next one's turn comes, or it moves one place to the left, *)
(* its key to be read again unless it has reached the front.               *)
(***************************************************************************)
LEMMA CompareStep ==
    ASSUME NEW s \in Cursors, CursorOK(s), Sorting(s), NEW load
    PROVE  /\ s.hole \in 2 .. Len(s.order) /\ s.hole <= s.at /\ s.at \in 2 .. Len(s.order)
           /\ Compare(s, load).left = NoKey
           /\ ~LeftIsLess(s, load) =>
                 /\ Compare(s, load).order = s.order
                 /\ Compare(s, load).at = s.at + 1
                 /\ Compare(s, load).hole = s.at + 1
           /\ LeftIsLess(s, load) => Compare(s, load).order = Shift(s.order, s.hole)
           /\ LeftIsLess(s, load) /\ s.hole = 2 =>
                 Compare(s, load).at = s.at + 1 /\ Compare(s, load).hole = s.at + 1
           /\ LeftIsLess(s, load) /\ s.hole # 2 =>
                 Compare(s, load).at = s.at /\ Compare(s, load).hole = s.hole - 1
<1>1. s.hole \in 2 .. Len(s.order) /\ s.hole <= s.at /\ s.at \in 2 .. Len(s.order)
  BY DEF Cursors, CursorOK, Sorting
<1>2. PICK k \in Nat, n \in Nat : k = s.hole - 1 /\ n = s.at + 1
  BY <1>1
<1>. DEFINE moved == [s EXCEPT !.order = Shift(s.order, s.hole), !.hole = k, !.left = NoKey]
<1>3. /\ moved.order = Shift(s.order, s.hole) /\ moved.hole = k
      /\ moved.left = NoKey /\ moved.at = s.at
  BY DEF Cursors
<1>4. /\ NextElement(s).order = s.order /\ NextElement(s).left = NoKey
      /\ NextElement(s).at = n /\ NextElement(s).hole = n
  BY <1>2 DEF NextElement, Cursors
<1>5. /\ NextElement(moved).order = moved.order /\ NextElement(moved).left = NoKey
      /\ NextElement(moved).at = n /\ NextElement(moved).hole = n
  BY <1>2, <1>3 DEF NextElement, Cursors
<1>6. Compare(s, load) = IF ~LeftIsLess(s, load) THEN NextElement(s)
                         ELSE IF s.hole = 2 THEN NextElement(moved) ELSE moved
  BY <1>2 DEF Compare
<1>. HIDE DEF moved
<1>. QED
  BY <1>1, <1>2, <1>3, <1>4, <1>5, <1>6

\* A comparison permutes the candidates, whatever loads it reads.
LEMMA ComparePermutes ==
    ASSUME NEW s \in Cursors, CursorOK(s), Sorting(s), NEW load
    PROVE  /\ Len(Compare(s, load).order) = Len(s.order)
           /\ Elements(Compare(s, load).order) = Elements(s.order)
           /\ Distinct(s.order) => Distinct(Compare(s, load).order)
<1>1. s.order \in Seq(Endpoints) /\ s.hole \in 2 .. Len(s.order)
  BY CompareStep DEF Cursors
<1>2. Compare(s, load).order \in {s.order, Shift(s.order, s.hole)}
  BY CompareStep
<1>. QED
  BY <1>1, <1>2, ShiftAt, ShiftPermutes

-----------------------------------------------------------------------------
(***************************************************************************)
(* A key is less than another for one of three reasons: an endpoint that   *)
(* is not saturated goes before one that is, a better tier before a worse  *)
(* one, and only within a tier do the loads decide.                        *)
(***************************************************************************)
LEMMA KeyLessReason ==
    ASSUME NEW d \in Endpoints, NEW e \in Endpoints, NEW m \in Nat, NEW n \in Nat,
           KeyLess(Key(d, m), Key(e, n))
    PROVE  Priority[d] <= Priority[e] \/ (~Saturated(d, m) /\ Saturated(e, n))
<1>1. /\ Key(d, m)[1] = (IF Saturated(d, m) THEN 1 ELSE 0) /\ Key(d, m)[2] = Priority[d]
      /\ Key(e, n)[1] = (IF Saturated(e, n) THEN 1 ELSE 0) /\ Key(e, n)[2] = Priority[e]
  BY DEF Key
<1>2. Priority[d] \in Nat /\ Priority[e] \in Nat
  BY RoutingAssumption
<1>3. PICK i \in 1 .. 4 : /\ Key(d, m)[i] < Key(e, n)[i]
                         /\ \A j \in 1 .. (i - 1) : Key(d, m)[j] = Key(e, n)[j]
  BY DEF KeyLess
<1>4. CASE i = 1
  BY <1>1, <1>3, <1>4
<1>5. CASE i = 2
  BY <1>1, <1>2, <1>3, <1>5
<1>6. CASE i \in 3 .. 4
  <2>1. 2 \in 1 .. (i - 1)
    BY <1>6
  <2>. QED
    BY <1>1, <1>2, <1>3, <2>1
<1>. QED
  BY <1>4, <1>5, <1>6

(***************************************************************************)
(* A worse tier stands before an endpoint of a better one only if that one *)
(* is of S: of those with a soft cap, or of those seen saturated.          *)
(***************************************************************************)
TiersKept(q, S) ==
    \A i, j \in 1 .. Len(q) :
        i < j /\ Priority[q[i]] > Priority[q[j]] => q[j] \in S

\* Before the sort the candidates stand in index order, so by priority
\* (mod.rs:112-116).
Increasing(q) == \A i, j \in 1 .. Len(q) : i < j => q[i] < q[j]

LEMMA IndexOrderKeepsTiers ==
    ASSUME NEW q \in Seq(Endpoints), Increasing(q), NEW S
    PROVE  TiersKept(q, S)
<1>1. ASSUME NEW i \in 1 .. Len(q), NEW j \in 1 .. Len(q), i < j
      PROVE  ~(Priority[q[i]] > Priority[q[j]])
  <2>1. q[i] \in Endpoints /\ q[j] \in Endpoints
    OBVIOUS
  <2>2. q[i] \in Nat /\ q[j] \in Nat
    BY <2>1 DEF Endpoints
  <2>3. q[i] <= q[j]
    BY <1>1, <2>2 DEF Increasing
  <2>4. Priority[q[i]] <= Priority[q[j]] /\ Priority[q[i]] \in Nat /\ Priority[q[j]] \in Nat
    BY <2>1, <2>3, RoutingAssumption
  <2>. QED
    BY <2>4
<1>. QED
  BY <1>1 DEF TiersKept

LEMMA IncreasingIsDistinct ==
    ASSUME NEW q \in Seq(Endpoints), Increasing(q)
    PROVE  Distinct(q)
<1>1. ASSUME NEW i \in 1 .. Len(q), NEW j \in 1 .. Len(q), q[i] = q[j]
      PROVE  i = j
  <2>1. q[i] \in Endpoints /\ q[j] \in Endpoints
    OBVIOUS
  <2>2. q[i] \in Int /\ q[j] \in Int
    BY <2>1, RoutingAssumption DEF Endpoints
  <2>. QED
    BY <1>1, <2>2 DEF Increasing
<1>. QED
  BY <1>1 DEF Distinct

(***************************************************************************)
(* A swap of neighbours keeps the tiers if it has a reason to: only these  *)
(* two change sides.                                                       *)
(***************************************************************************)
LEMMA ShiftKeepsTiers ==
    ASSUME NEW order \in Seq(Endpoints), NEW hole \in 2 .. Len(order),
           NEW S, TiersKept(order, S),
           \/ Priority[order[hole]] <= Priority[order[hole - 1]]
           \/ order[hole - 1] \in S
    PROVE  TiersKept(Shift(order, hole), S)
<1>. DEFINE moved == Shift(order, hole)
<1>1. /\ Len(moved) = Len(order) /\ Len(order) \in Nat
      /\ moved[hole - 1] = order[hole] /\ moved[hole] = order[hole - 1]
      /\ \A j \in 1 .. Len(order) \ {hole - 1, hole} : moved[j] = order[j]
  BY ShiftAt
<1>. HIDE DEF moved
<1>. DEFINE was(i) == IF i = hole THEN hole - 1 ELSE IF i = hole - 1 THEN hole ELSE i
<1>2. \A i \in 1 .. Len(order) : was(i) \in 1 .. Len(order) /\ moved[i] = order[was(i)]
  BY <1>1
<1>3. \A i, j \in 1 .. Len(order) :
        i < j => was(i) < was(j) \/ (i = hole - 1 /\ j = hole)
  OBVIOUS
<1>4. \A i \in 1 .. Len(order) : Priority[order[i]] \in Nat
  BY RoutingAssumption
<1>5. ASSUME NEW i \in 1 .. Len(moved), NEW j \in 1 .. Len(moved), i < j,
             Priority[moved[i]] > Priority[moved[j]]
      PROVE  moved[j] \in S
  <2>1. i \in 1 .. Len(order) /\ j \in 1 .. Len(order)
    BY <1>1
  <2>2. CASE was(i) < was(j)
    <3>1. was(i) \in 1 .. Len(order) /\ was(j) \in 1 .. Len(order)
          /\ moved[i] = order[was(i)] /\ moved[j] = order[was(j)]
      BY <1>2, <2>1
    <3>. HIDE DEF was
    <3>. QED
      BY <1>5, <2>2, <3>1 DEF TiersKept
  <2>3. CASE i = hole - 1 /\ j = hole
    BY <1>1, <1>4, <1>5, <2>1, <2>3
  <2>. QED
    BY <1>3, <1>5, <2>1, <2>2, <2>3
<1>. QED
  BY <1>5 DEF TiersKept, moved

(***************************************************************************)
(* A comparison keeps the tiers, though its left key may be out of date:   *)
(* only the right key can say that a candidate is saturated, and that one  *)
(* is read now (mod.rs:253-263).                                           *)
(***************************************************************************)
LEMMA CompareKeepsTiers ==
    ASSUME NEW s \in Cursors, CursorOK(s), Sorting(s), NEW load \in [Endpoints -> Nat],
           NEW n \in Nat, s.left = Key(s.order[s.hole], n),
           NEW S, \A e \in Endpoints : Saturated(e, load[e]) => e \in S,
           TiersKept(s.order, S)
    PROVE  TiersKept(Compare(s, load).order, S)
<1>1. s.order \in Seq(Endpoints) /\ s.hole \in 2 .. Len(s.order)
  BY CompareStep DEF Cursors
<1>. DEFINE d == s.order[s.hole]
            e == s.order[s.hole - 1]
<1>2. d \in Endpoints /\ e \in Endpoints /\ load[e] \in Nat
  BY <1>1
<1>3. CASE ~LeftIsLess(s, load)
  BY <1>3, CompareStep
<1>4. CASE LeftIsLess(s, load)
  <2>1. KeyLess(Key(d, n), Key(e, load[e]))
    BY <1>4 DEF LeftIsLess
  <2>2. Priority[d] <= Priority[e] \/ e \in S
    BY <1>2, <2>1, KeyLessReason
  <2>3. Compare(s, load).order = Shift(s.order, s.hole)
    BY <1>4, CompareStep
  <2>. QED
    BY <1>1, <2>2, <2>3, ShiftKeepsTiers
<1>. QED
  BY <1>3, <1>4

-----------------------------------------------------------------------------
(***************************************************************************)
(* What the sort has done so far, for a relation R of which pairs may      *)
(* stand in which order: of the elements up to `at', all pairs are in      *)
(* order but those of the element being inserted with the ones before it.  *)
(***************************************************************************)
Inserted(s, R) ==
    \A i, j \in 1 .. Len(s.order) :
        i < j /\ j <= s.at /\ j # s.hole => <<s.order[i], s.order[j]>> \in R

InsertedAll(s, R) ==
    \A i, j \in 1 .. Len(s.order) : i < j => <<s.order[i], s.order[j]>> \in R

\* The sort has looked at all elements when it stops.
AtEnd(s) == ~Sorting(s) => s.hole > Len(s.order)

LEMMA StartInserted ==
    ASSUME NEW q \in Seq(Endpoints), NEW R
    PROVE  /\ Inserted(StartCursor(q), R) /\ AtEnd(StartCursor(q))
           /\ StartCursor(q).order = q /\ StartCursor(q).left = NoKey
<1>1. /\ StartCursor(q).order = q /\ StartCursor(q).left = NoKey
      /\ StartCursor(q).at = 2 /\ StartCursor(q).hole = 2
  BY DEF StartCursor
<1>. HIDE DEF StartCursor
<1>2. \A i, j \in 1 .. Len(q) : i < j /\ j <= 2 => j = 2
  OBVIOUS
<1>. QED
  BY <1>1, <1>2 DEF Inserted, AtEnd, Sorting

LEMMA ReadInserts ==
    ASSUME NEW s \in Cursors, NEW load
    PROVE  /\ \A R : Inserted(s, R) => Inserted(ReadLeft(s, load), R)
           /\ AtEnd(s) => AtEnd(ReadLeft(s, load))
           /\ ReadLeft(s, load).order = s.order /\ ReadLeft(s, load).hole = s.hole
           /\ ReadLeft(s, load).left = Key(s.order[s.hole], load[s.order[s.hole]])
<1>1. /\ ReadLeft(s, load).order = s.order /\ ReadLeft(s, load).hole = s.hole
      /\ ReadLeft(s, load).at = s.at
      /\ ReadLeft(s, load).left = Key(s.order[s.hole], load[s.order[s.hole]])
  BY DEF ReadLeft, Cursors
<1>. QED
  BY <1>1 DEF Inserted, AtEnd, Sorting

(***************************************************************************)
(* One comparison of the insertion, for a relation that is transitive on   *)
(* the candidates and that agrees with the comparison made.                *)
(***************************************************************************)
LEMMA CompareInserts ==
    ASSUME NEW s \in Cursors, CursorOK(s), Sorting(s), NEW load, NEW R, Inserted(s, R),
           \A i, j, k \in 1 .. Len(s.order) :
              <<s.order[i], s.order[j]>> \in R /\ <<s.order[j], s.order[k]>> \in R
                 => <<s.order[i], s.order[k]>> \in R,
           LeftIsLess(s, load) => <<s.order[s.hole], s.order[s.hole - 1]>> \in R,
           ~LeftIsLess(s, load) => <<s.order[s.hole - 1], s.order[s.hole]>> \in R
    PROVE  Inserted(Compare(s, load), R) /\ AtEnd(Compare(s, load))
<1>. DEFINE o == s.order
            h == s.hole
            t == Compare(s, load)
<1>1. /\ o \in Seq(Endpoints) /\ Len(o) \in Nat
      /\ h \in 2 .. Len(o) /\ h <= s.at /\ s.at \in 2 .. Len(o)
  BY CompareStep DEF Cursors
<1>. HIDE DEF t
<1>2. CASE ~LeftIsLess(s, load)
  <2>1. t.order = o /\ t.at = s.at + 1 /\ t.hole = s.at + 1
    BY <1>2, CompareStep DEF t
  <2>2. ASSUME NEW i \in 1 .. Len(o), NEW j \in 1 .. Len(o), i < j, j <= s.at
        PROVE  <<o[i], o[j]>> \in R
    <3>1. CASE j # h
      BY <2>2, <3>1 DEF Inserted
    <3>2. CASE j = h /\ i = h - 1
      BY <1>2, <3>2
    <3>3. CASE j = h /\ i < h - 1
      <4>1. h - 1 \in 1 .. Len(o) /\ h - 1 <= s.at /\ h - 1 # h
        BY <1>1
      <4>2. <<o[i], o[h - 1]>> \in R
        BY <3>3, <4>1 DEF Inserted
      <4>3. <<o[h - 1], o[h]>> \in R
        BY <1>2
      <4>. QED
        BY <1>1, <3>3, <4>1, <4>2, <4>3
    <3>. QED
      BY <1>1, <2>2, <3>1, <3>2, <3>3
  <2>3. Inserted(t, R)
    <3>1. ASSUME NEW i \in 1 .. Len(o), NEW j \in 1 .. Len(o), i < j, j <= s.at + 1, j # s.at + 1
          PROVE  <<o[i], o[j]>> \in R
      BY <1>1, <2>2, <3>1
    <3>. QED
      BY <2>1, <3>1 DEF Inserted
  <2>. QED
    BY <1>1, <2>1, <2>3 DEF AtEnd, Sorting, t
<1>3. CASE LeftIsLess(s, load)
  <2>1. /\ t.order = Shift(o, h)
        /\ \/ h = 2 /\ t.at = s.at + 1 /\ t.hole = s.at + 1
           \/ h # 2 /\ t.at = s.at /\ t.hole = h - 1
    BY <1>3, CompareStep DEF t
  <2>2. /\ Len(t.order) = Len(o)
        /\ t.order[h - 1] = o[h] /\ t.order[h] = o[h - 1]
        /\ \A j \in 1 .. Len(o) \ {h - 1, h} : t.order[j] = o[j]
    <3>1. /\ Len(Shift(o, h)) = Len(o)
          /\ Shift(o, h)[h - 1] = o[h] /\ Shift(o, h)[h] = o[h - 1]
          /\ \A j \in 1 .. Len(o) \ {h - 1, h} : Shift(o, h)[j] = o[j]
      BY <1>1, ShiftAt
    <3>. QED
      BY <2>1, <3>1
  <2>3. ASSUME NEW i \in 1 .. Len(o), NEW j \in 1 .. Len(o), i < j, j <= s.at, j # h - 1
        PROVE  <<t.order[i], t.order[j]>> \in R
    <3>1. h \in 1 .. Len(o) /\ h - 1 \in 1 .. Len(o) /\ h - 1 < h /\ h - 1 <= s.at
      BY <1>1
    <3>2. CASE j = h /\ i = h - 1
      BY <1>3, <2>2, <3>2
    <3>3. CASE j = h /\ i # h - 1
      <4>1. t.order[i] = o[i] /\ t.order[j] = o[h - 1] /\ i < h - 1
        BY <1>1, <2>2, <2>3, <3>1, <3>3
      <4>2. <<o[i], o[h - 1]>> \in R
        BY <1>1, <3>1, <4>1 DEF Inserted
      <4>. QED
        BY <4>1, <4>2
    <3>4. CASE j # h
      <4>1. t.order[j] = o[j]
        BY <2>2, <2>3, <3>4
      <4>2. PICK k \in 1 .. Len(o) : t.order[i] = o[k] /\ k < j
        <5>1. CASE i = h
          BY <1>1, <2>2, <2>3, <3>1, <5>1
        <5>2. CASE i = h - 1
          BY <1>1, <2>2, <2>3, <3>1, <3>4, <5>2
        <5>3. CASE i # h /\ i # h - 1
          BY <2>2, <2>3, <5>3
        <5>. QED
          BY <5>1, <5>2, <5>3
      <4>3. <<o[k], o[j]>> \in R
        BY <2>3, <3>4, <4>2 DEF Inserted
      <4>. QED
        BY <4>1, <4>2, <4>3
    <3>. QED
      BY <3>2, <3>3, <3>4
  <2>4. ASSUME NEW i \in 1 .. Len(o), NEW j \in 1 .. Len(o), i < j, j <= t.at, j # t.hole
        PROVE  j <= s.at /\ j # h - 1
    BY <1>1, <2>1, <2>4
  <2>5. Inserted(t, R)
    BY <2>2, <2>3, <2>4 DEF Inserted
  <2>6. AtEnd(t)
    <3>1. CASE h = 2
      BY <1>1, <2>1, <2>2, <3>1 DEF AtEnd, Sorting
    <3>2. CASE h # 2
      BY <1>1, <2>1, <2>2, <3>2 DEF AtEnd, Sorting
    <3>. QED
      BY <3>1, <3>2
  <2>. QED
    BY <2>5, <2>6 DEF t
<1>. QED
  BY <1>2, <1>3

\* When the sort stops, all pairs are in order.
LEMMA SortedIsInserted ==
    ASSUME NEW s \in Cursors, ~Sorting(s), AtEnd(s), NEW R, Inserted(s, R)
    PROVE  InsertedAll(s, R)
<1>1. s.at > Len(s.order) /\ s.hole > Len(s.order) /\ s.at \in Nat /\ Len(s.order) \in Nat
  BY DEF Sorting, AtEnd, Cursors
<1>2. \A j \in 1 .. Len(s.order) : j <= s.at /\ j # s.hole
  BY <1>1 DEF Cursors
<1>. QED
  BY <1>2 DEF Inserted, InsertedAll

-----------------------------------------------------------------------------
\* The lexicographic order, position by position.
LEMMA KeyLessSpelled ==
    ASSUME NEW k, NEW l
    PROVE  KeyLess(k, l) <=>
              \/ k[1] < l[1]
              \/ k[1] = l[1] /\ k[2] < l[2]
              \/ k[1] = l[1] /\ k[2] = l[2] /\ k[3] < l[3]
              \/ k[1] = l[1] /\ k[2] = l[2] /\ k[3] = l[3] /\ k[4] < l[4]
<1>1. /\ 1 .. 4 = {1, 2, 3, 4} /\ 1 .. (1 - 1) = {} /\ 1 .. (2 - 1) = {1}
      /\ 1 .. (3 - 1) = {1, 2} /\ 1 .. (4 - 1) = {1, 2, 3}
  OBVIOUS
<1>. QED
  BY <1>1 DEF KeyLess

\* The order of keys is transitive, and total on keys of two endpoints.
LEMMA KeyOrder ==
    ASSUME NEW d \in Endpoints, NEW e \in Endpoints, NEW f \in Endpoints,
           NEW m \in Nat, NEW n \in Nat, NEW o \in Nat
    PROVE  /\ KeyLess(Key(d, m), Key(e, n)) /\ KeyLess(Key(e, n), Key(f, o))
                => KeyLess(Key(d, m), Key(f, o))
           /\ d # e /\ ~KeyLess(Key(d, m), Key(e, n)) => KeyLess(Key(e, n), Key(d, m))
<1>. DEFINE bit(x, y) == IF Saturated(x, y) THEN 1 ELSE 0
<1>1. \A x \in Endpoints, y \in Nat :
        /\ Key(x, y)[1] = bit(x, y) /\ Key(x, y)[2] = Priority[x]
        /\ Key(x, y)[3] = y /\ Key(x, y)[4] = x
        /\ bit(x, y) \in Int /\ Priority[x] \in Int /\ y \in Int /\ x \in Int
  BY RoutingAssumption DEF Key, Endpoints
<1>. HIDE DEF bit
<1>2. /\ Key(d, m)[1] \in Int /\ Key(d, m)[2] \in Int /\ Key(d, m)[3] \in Int /\ Key(d, m)[4] = d
      /\ Key(e, n)[1] \in Int /\ Key(e, n)[2] \in Int /\ Key(e, n)[3] \in Int /\ Key(e, n)[4] = e
      /\ Key(f, o)[1] \in Int /\ Key(f, o)[2] \in Int /\ Key(f, o)[3] \in Int /\ Key(f, o)[4] = f
      /\ d \in Int /\ e \in Int /\ f \in Int
  BY <1>1
<1>. QED
  BY <1>2, KeyLessSpelled

-----------------------------------------------------------------------------
(***************************************************************************)
(* The work a sort has left, for a list of n elements: a row of 2n key     *)
(* readings per element still to be inserted, and those of this element.   *)
(***************************************************************************)
Rows(n, k) == 2 * n * k

LEMMA RowsType ==
    ASSUME NEW n \in Nat, NEW k \in Nat
    PROVE  Rows(n, k) \in Nat /\ Rows(n, k + 1) = Rows(n, k) + 2 * n
<1>1. n * k \in Nat
  OBVIOUS
<1>2. 2 * n * k = 2 * (n * k) /\ 2 * n * (k + 1) = 2 * (n * k) + 2 * n
  OBVIOUS
<1>. QED
  BY <1>1, <1>2 DEF Rows

LEMMA SortWorkIs ==
    ASSUME NEW s \in Cursors, NEW n \in Nat, n = Len(s.order), NEW k \in Nat
    PROVE  /\ ~Sorting(s) => SortWork(s) = 0
           /\ Sorting(s) /\ s.at = n - k => SortWork(s) =
                Rows(n, k + 1) + 2 * (s.hole - 1) - (IF s.left = NoKey THEN 0 ELSE 1)
<1>1. s.at = n - k => Len(s.order) + 1 - s.at = k + 1
  OBVIOUS
<1>. QED
  BY <1>1 DEF SortWork, Rows

(***************************************************************************)
(* Each step of the sort leaves less to do, whatever loads it reads        *)
(* (slice::sort_by_key, mod.rs:253-263).                                   *)
(***************************************************************************)
LEMMA SortAdvances ==
    ASSUME NEW s \in Cursors, CursorOK(s), Sorting(s), NEW load \in [Endpoints -> Nat]
    PROVE  /\ SortWork(s) \in Nat /\ SortWork(s) > 0
           /\ s.left = NoKey => SortWork(ReadLeft(s, load)) \in 0 .. (SortWork(s) - 1)
           /\ s.left # NoKey => SortWork(Compare(s, load)) \in 0 .. (SortWork(s) - 1)
<1>1. PICK n \in Nat : n = Len(s.order)
  BY DEF Cursors
<1>2. /\ s.at \in 2 .. n /\ s.hole \in 2 .. s.at
  BY <1>1, CompareStep
<1>3. PICK k \in Nat : s.at = n - k
  <2>1. n - s.at \in Nat /\ s.at = n - (n - s.at)
    BY <1>2
  <2>. QED
    BY <2>1
<1>. DEFINE read == IF s.left = NoKey THEN 0 ELSE 1
<1>4. SortWork(s) = Rows(n, k + 1) + 2 * (s.hole - 1) - read /\ read \in {0, 1}
  BY <1>1, <1>3, SortWorkIs
<1>5. Rows(n, k) \in Nat /\ Rows(n, k + 1) = Rows(n, k) + 2 * n
  BY RowsType
<1>6. SortWork(s) \in Nat /\ SortWork(s) > 0
  <2>. HIDE DEF read
  <2>. QED
    BY <1>2, <1>4, <1>5
<1>7. ASSUME s.left = NoKey
      PROVE  SortWork(ReadLeft(s, load)) = SortWork(s) - 1
  <2>. DEFINE t == ReadLeft(s, load)
  <2>1. t \in Cursors /\ Sorting(t) /\ t.order = s.order
    BY ReadLeftKeeps
  <2>2. t.hole = s.hole /\ t.at = s.at /\ t.left = Key(s.order[s.hole], load[s.order[s.hole]])
    BY DEF ReadLeft, Cursors
  <2>3. Key(s.order[s.hole], load[s.order[s.hole]]) # NoKey
    BY DEF Key, NoKey
  <2>. HIDE DEF t
  <2>4. SortWork(t) = Rows(n, k + 1) + 2 * (s.hole - 1) - 1
    BY <1>1, <1>3, <2>1, <2>2, <2>3, SortWorkIs
  <2>. QED
    BY <1>2, <1>4, <1>5, <1>7, <2>4 DEF t
<1>8. ASSUME s.left # NoKey
      PROVE  SortWork(Compare(s, load)) \in 0 .. (SortWork(s) - 1)
  <2>. DEFINE t == Compare(s, load)
  <2>1. t \in Cursors /\ Len(t.order) = n /\ t.left = NoKey
    BY <1>1, CompareKeeps, CompareStep DEF SameCandidates
  <2>2. \/ t.at = s.at + 1 /\ t.hole = s.at + 1
        \/ t.at = s.at /\ t.hole = s.hole - 1 /\ s.hole # 2
    BY CompareStep
  <2>3. SortWork(s) = Rows(n, k + 1) + 2 * (s.hole - 1) - 1
    BY <1>4, <1>8
  <2>. HIDE DEF t
  <2>4. CASE ~Sorting(t)
    <3>1. SortWork(t) = 0
      BY <2>4, <2>1, SortWorkIs
    <3>. QED
      BY <1>6, <3>1 DEF t
  <2>5. CASE Sorting(t) /\ t.at = s.at /\ t.hole = s.hole - 1 /\ s.hole # 2
    <3>1. t.at = n - k
      BY <1>3, <2>5
    <3>2. SortWork(t) = Rows(n, k + 1) + 2 * (t.hole - 1)
      <4>1. /\ ~Sorting(t) => SortWork(t) = 0
            /\ Sorting(t) /\ t.at = n - k => SortWork(t) =
                  Rows(n, k + 1) + 2 * (t.hole - 1) - (IF t.left = NoKey THEN 0 ELSE 1)
        BY <2>1, SortWorkIs
      <4>. QED
        BY <2>1, <2>5, <3>1, <4>1, <1>2, <1>5
    <3>. QED
      BY <1>2, <1>5, <2>3, <2>5, <3>2 DEF t
  <2>6. CASE Sorting(t) /\ t.at = s.at + 1 /\ t.hole = s.at + 1
    <3>1. PICK j \in Nat : k = j + 1
      <4>1. k - 1 \in Nat /\ k = (k - 1) + 1
        BY <1>3, <2>1, <2>6 DEF Sorting
      <4>. QED
        BY <4>1
    <3>2. t.at = n - j
      BY <1>3, <2>6, <3>1, <1>2
    <3>3. SortWork(t) = Rows(n, j + 1) + 2 * (t.hole - 1)
      BY <2>1, <2>6, <3>2, SortWorkIs
    <3>. QED
      BY <1>2, <1>5, <2>3, <2>6, <3>1, <3>3 DEF t
  <2>. QED
    BY <2>2, <2>4, <2>5, <2>6
<1>. QED
  BY <1>6, <1>7, <1>8
=============================================================================
