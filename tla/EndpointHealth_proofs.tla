------------------------ MODULE EndpointHealth_proofs ------------------------
(***************************************************************************)
(* The health record agrees with the whole history of reports: proved for  *)
(* every backoff policy, counter width and length of the history.          *)
(***************************************************************************)
EXTENDS EndpointHealth, ComponentTheorems

Last == Len(reports)

\* The report i and all after it failed.
FailedSince(i) == \A j \in i .. Last : ~reports[j].ok

(***************************************************************************)
(* The inductive invariant: the counter is at most the number of trailing  *)
(* failures and, until it saturates, at least that; the last failure is    *)
(* dated when the count is not zero; and no report is dated later than the *)
(* clock.                                                                  *)
(***************************************************************************)
NotTooMany ==
    /\ health.fails <= Last
    /\ \A i \in 1 .. Last : i > Last - health.fails => ~reports[i].ok

NotTooFew ==
    \A i \in 1 .. Last : FailedSince(i) =>
        health.fails > Last - i \/ health.fails >= MaxWord

Dated ==
    /\ health.fails > 0 => health.lastFailure = reports[Last].at
    /\ health.lastFailure <= clock
    /\ \A i \in 1 .. Last : reports[i].at <= clock

HealthInv == TypeOK /\ NotTooMany /\ NotTooFew /\ Dated

LEMMA InitHealthInv == Init => HealthInv
<1>. SUFFICES ASSUME Init PROVE HealthInv
  OBVIOUS
<1>1. health \in Health /\ health.fails = 0 /\ health.lastFailure = -1
  BY DEF Init, FreshHealth, Health, Never
<1>2. clock = 0 /\ reports = <<>> /\ Len(reports) = 0 /\ reports \in Seq(Report)
  BY DEF Init
<1>. QED
  BY <1>1, <1>2 DEF HealthInv, TypeOK, NotTooMany, NotTooFew, Dated, Last

\* A report is added at the end of the history.
LEMMA Reported ==
    ASSUME TypeOK, NEW r \in Report, reports' = Append(reports, r)
    PROVE  /\ reports' \in Seq(Report) /\ Last \in Nat /\ Last' = Last + 1
           /\ reports'[Last + 1] = r
           /\ \A i \in 1 .. Last : reports'[i] = reports[i]
  BY DEF TypeOK, Last

\* After a success the count is zero, as is the number of trailing failures.
LEMMA SucceedStep ==
    ASSUME HealthInv, Succeed
    PROVE  HealthInv'
<1>. DEFINE r == [ok |-> TRUE, at |-> clock]
<1>1. /\ clock \in Nat /\ clock' = clock /\ health \in Health /\ r \in Report
      /\ health' = RecordSuccess(health) /\ reports' = Append(reports, r)
  BY DEF HealthInv, TypeOK, Succeed, Report
<1>2. /\ reports' \in Seq(Report) /\ Last \in Nat /\ Last' = Last + 1
      /\ reports'[Last + 1] = r
      /\ \A i \in 1 .. Last : reports'[i] = reports[i]
  BY <1>1, Reported DEF HealthInv
<1>3. /\ health' \in Health /\ health'.fails = 0
      /\ health'.lastFailure = health.lastFailure
  <2>1. health' \in Health
    BY <1>1, RecordType
  <2>2. health' = [health EXCEPT !.fails = 0, !.successes = health.successes + 1]
    BY <1>1 DEF RecordSuccess
  <2>. QED
    BY <1>1, <2>1, <2>2 DEF Health
<1>4. TypeOK'
  BY <1>1, <1>2, <1>3 DEF TypeOK
<1>5. NotTooMany'
  BY <1>2, <1>3 DEF NotTooMany
<1>6. NotTooFew'
  <2>1. r.ok
    OBVIOUS
  <2>2. ASSUME NEW i \in 1 .. Last', FailedSince(i)'
        PROVE  FALSE
    BY <1>2, <2>1, <2>2 DEF FailedSince
  <2>. QED
    BY <2>2 DEF NotTooFew
<1>7. Dated'
  <2>1. r.at = clock
    OBVIOUS
  <2>2. \A i \in 1 .. Last' : reports'[i].at <= clock
    <3>. HIDE DEF r
    <3>1. \A i \in 1 .. Last : reports[i].at <= clock
      BY DEF HealthInv, Dated
    <3>2. reports'[Last + 1].at <= clock
      BY <1>1, <1>2, <2>1
    <3>. QED
      BY <1>2, <3>1, <3>2
  <2>3. health'.lastFailure <= clock'
    BY <1>1, <1>3 DEF HealthInv, Dated
  <2>4. ~(health'.fails > 0)
    BY <1>3
  <2>. QED
    BY <1>1, <2>2, <2>3, <2>4 DEF Dated
<1>. QED
  BY <1>4, <1>5, <1>6, <1>7 DEF HealthInv

\* What a failure makes of the record: the counter stops at its width.
LEMMA FailRecords ==
    ASSUME NEW h \in Health, NEW now \in Nat
    PROVE  /\ MaxWord \in Int /\ h.fails \in Nat
           /\ RecordFailure(h, now).fails = IF h.fails < MaxWord THEN h.fails + 1 ELSE h.fails
  BY MaxWordType DEF RecordFailure, Health

\* After a failure there is one trailing failure more, and one count more
\* unless the counter is full.
LEMMA FailStep ==
    ASSUME HealthInv, Fail
    PROVE  HealthInv'
<1>. DEFINE r == [ok |-> FALSE, at |-> clock]
<1>1. /\ clock \in Nat /\ clock' = clock /\ health \in Health /\ r \in Report
      /\ health' = RecordFailure(health, clock) /\ reports' = Append(reports, r)
  BY DEF HealthInv, TypeOK, Fail, Report
<1>2. /\ reports' \in Seq(Report) /\ Last \in Nat /\ Last' = Last + 1
      /\ reports'[Last + 1] = r
      /\ \A i \in 1 .. Last : reports'[i] = reports[i]
  BY <1>1, Reported DEF HealthInv
<1>3. /\ health' \in Health /\ health'.lastFailure = clock
      /\ MaxWord \in Int /\ health.fails \in Nat
      /\ health'.fails = IF health.fails < MaxWord THEN health.fails + 1 ELSE health.fails
  BY <1>1, RecordType, FailRecords
<1>4. ~r.ok /\ r.at = clock
  OBVIOUS
<1>. HIDE DEF r
<1>5. TypeOK'
  BY <1>1, <1>2, <1>3 DEF TypeOK
<1>6. NotTooMany'
  <2>1. health.fails <= Last
    BY DEF HealthInv, NotTooMany
  <2>2. ASSUME NEW i \in 1 .. Last', i > Last' - health'.fails
        PROVE  ~reports'[i].ok
    <3>1. CASE i = Last + 1
      BY <1>2, <1>4, <3>1
    <3>2. CASE i # Last + 1
      <4>1. i \in 1 .. Last /\ i > Last - health.fails
        BY <1>2, <1>3, <2>2, <3>2
      <4>. QED
        BY <1>2, <4>1 DEF HealthInv, NotTooMany
    <3>. QED
      BY <3>1, <3>2
  <2>. QED
    BY <1>2, <1>3, <2>1, <2>2 DEF NotTooMany
<1>7. NotTooFew'
  <2>1. ASSUME NEW i \in 1 .. Last', FailedSince(i)'
        PROVE  health'.fails > Last' - i \/ health'.fails >= MaxWord
    <3>1. CASE i = Last + 1
      BY <1>2, <1>3, <3>1
    <3>2. CASE i # Last + 1
      <4>1. i \in 1 .. Last
        BY <1>2, <3>2
      <4>2. FailedSince(i)
        <5>1. ASSUME NEW j \in i .. Last PROVE ~reports[j].ok
          <6>1. j \in 1 .. Last /\ j \in i .. Last'
            BY <1>2, <4>1
          <6>. QED
            BY <1>2, <2>1, <6>1 DEF FailedSince
        <5>. QED
          BY <5>1 DEF FailedSince
      <4>3. health.fails > Last - i \/ health.fails >= MaxWord
        BY <4>1, <4>2 DEF HealthInv, NotTooFew
      <4>. QED
        BY <1>2, <1>3, <4>1, <4>3
    <3>. QED
      BY <3>1, <3>2
  <2>. QED
    BY <2>1 DEF NotTooFew
<1>8. Dated'
  <2>1. \A i \in 1 .. Last' : reports'[i].at <= clock
    <3>1. \A i \in 1 .. Last : reports[i].at <= clock
      BY DEF HealthInv, Dated
    <3>2. reports'[Last + 1].at <= clock
      BY <1>1, <1>2, <1>4
    <3>. QED
      BY <1>2, <3>1, <3>2
  <2>2. health'.lastFailure = reports'[Last'].at
    BY <1>2, <1>3, <1>4
  <2>3. health'.lastFailure <= clock'
    BY <1>1, <1>3
  <2>. QED
    BY <1>1, <2>1, <2>2, <2>3 DEF Dated
<1>. QED
  BY <1>5, <1>6, <1>7, <1>8 DEF HealthInv

\* The clock only runs.
LEMMA TickStep ==
    ASSUME HealthInv, Tick
    PROVE  HealthInv'
<1>1. /\ clock \in Nat /\ clock' = clock + 1 /\ health' = health /\ reports' = reports
      /\ health \in Health /\ reports \in Seq(Report)
  BY DEF HealthInv, TypeOK, Tick
<1>2. TypeOK' /\ NotTooMany' /\ NotTooFew'
  BY <1>1 DEF HealthInv, TypeOK, NotTooMany, NotTooFew, FailedSince, Last
<1>3. Dated'
  <2>1. \A i \in 1 .. Last : reports[i].at \in Nat
    <3>1. \A i \in 1 .. Len(reports) : reports[i] \in Report
      BY <1>1
    <3>. QED
      BY <3>1 DEF Last, Report
  <2>2. health.lastFailure \in Int
    BY <1>1 DEF Health, Never
  <2>. QED
    BY <1>1, <2>1, <2>2 DEF HealthInv, Dated, Last
<1>. QED
  BY <1>2, <1>3 DEF HealthInv

LEMMA NextHealthInv == HealthInv /\ [Next]_vars => HealthInv'
<1>. SUFFICES ASSUME HealthInv, [Next]_vars PROVE HealthInv'
  OBVIOUS
<1>1. CASE Succeed
  BY <1>1, SucceedStep
<1>2. CASE Fail
  BY <1>2, FailStep
<1>3. CASE Tick
  BY <1>3, TickStep
<1>4. CASE UNCHANGED vars
  BY <1>4 DEF HealthInv, vars, TypeOK, NotTooMany, NotTooFew, FailedSince, Dated, Last
<1>. QED
  BY <1>1, <1>2, <1>3, <1>4 DEF Next, Idle

LEMMA HealthInvariance == Spec => []HealthInv
  BY InitHealthInv, NextHealthInv, PTL DEF Spec

-----------------------------------------------------------------------------
(***************************************************************************)
(* The record stays one of counts and a date, the history one of reports.  *)
(***************************************************************************)
THEOREM TypeCorrect == Spec => []TypeOK
<1>1. HealthInv => TypeOK
  BY DEF HealthInv
<1>. QED
  BY <1>1, HealthInvariance, PTL

(***************************************************************************)
(* A skipped endpoint deserves it: more than the threshold of its latest   *)
(* reports failed, the last of them less than MaxDelay ago                 *)
(* (health.rs:47-60, 108-118).                                             *)
(***************************************************************************)
THEOREM CoolingDeserved == Spec => []CoolingIsEarned
<1>1. ASSUME HealthInv, ~IsAvailableAt(health, clock)
      PROVE  /\ \A i \in 1 .. Len(reports) :
                    i >= Len(reports) - DemotionThreshold => ~reports[i].ok
             /\ Len(reports) > DemotionThreshold
             /\ clock - reports[Len(reports)].at < MaxDelay
  <2>1. /\ health.fails \in Nat /\ health.lastFailure \in Int /\ clock \in Nat
        /\ Last \in Nat /\ Last = Len(reports)
    BY <1>1 DEF HealthInv, TypeOK, Health, Never, Last
  <2>2. health.fails > DemotionThreshold
    BY <1>1, <2>1, BackoffAssumption DEF IsAvailableAt
  <2>3. DelayFor(health.fails) \in Int /\ DelayFor(health.fails) <= MaxDelay
    BY <2>1, DelayBounded
  <2>4. clock - health.lastFailure < MaxDelay
    BY <1>1, <2>1, <2>3, BackoffAssumption DEF IsAvailableAt
  <2>5. health.lastFailure = reports[Last].at
    BY <1>1, <2>1, <2>2, BackoffAssumption DEF HealthInv, Dated
  <2>6. Last > DemotionThreshold
    BY <1>1, <2>1, <2>2, BackoffAssumption DEF HealthInv, NotTooMany
  <2>7. ASSUME NEW i \in 1 .. Last, i >= Last - DemotionThreshold
        PROVE  ~reports[i].ok
    <3>1. i > Last - health.fails
      BY <2>1, <2>2, <2>7, BackoffAssumption
    <3>. QED
      BY <1>1, <3>1 DEF HealthInv, NotTooMany
  <2>. QED
    BY <2>1, <2>4, <2>5, <2>6, <2>7
<1>2. HealthInv => CoolingIsEarned
  BY <1>1 DEF CoolingIsEarned
<1>. QED
  BY <1>2, HealthInvariance, PTL

(***************************************************************************)
(* The converse: an endpoint that failed more than the threshold since its *)
(* latest success rests for twice the base delay, or MaxDelay if that is   *)
(* shorter.  The counter must be able to pass the threshold, and the shift *)
(* to move once: both hold of the code's 32-bit words unless the threshold *)
(* is u32::MAX (health.rs:47-60, 108-118, 137-145).                        *)
(***************************************************************************)
THEOREM FailingRests ==
    ASSUME WordBits > 1, DemotionThreshold < MaxWord
    PROVE  Spec => []FailingEndpointRests
<1>. DEFINE rest == IF 2 * BaseDelay < MaxDelay THEN 2 * BaseDelay ELSE MaxDelay
<1>1. ASSUME HealthInv, Last - DemotionThreshold \in TrailingFailures,
             clock - reports[Last].at < rest
      PROVE  ~IsAvailableAt(health, clock)
  <2>1. /\ health.fails \in Nat /\ clock \in Nat /\ Last \in Nat
        /\ health \in Health /\ MaxWord \in Int
    BY <1>1, FailRecords DEF HealthInv, TypeOK, Health, Last
  <2>2. Last - DemotionThreshold \in 1 .. Last /\ FailedSince(Last - DemotionThreshold)
    BY <1>1 DEF TrailingFailures, FailedSince, Last
  <2>3. health.fails > DemotionThreshold
    BY <1>1, <2>1, <2>2, BackoffAssumption DEF HealthInv, NotTooFew
  <2>4. health.lastFailure = reports[Last].at /\ reports[Last].at \in Nat
    <3>1. Last \in 1 .. Last
      BY <2>1, <2>2
    <3>2. reports[Last].at \in Nat
      <4>1. reports[Last] \in Report
        BY <1>1, <3>1 DEF HealthInv, TypeOK, Last
      <4>. QED
        BY <4>1 DEF Report
    <3>. QED
      BY <1>1, <2>1, <2>3, <3>2, BackoffAssumption DEF HealthInv, Dated
  <2>5. health.lastFailure <= clock
    BY <1>1 DEF HealthInv, Dated
  <2>6. DelayFor(health.fails) \in Int /\ DelayFor(health.fails) >= rest
    BY <2>1, <2>3, DelayBounded, DelayAtLeastTwice
  <2>7. rest \in Int /\ rest > 0
    BY <1>1, <2>1, <2>4, <2>5, BackoffAssumption
  <2>. HIDE DEF rest
  <2>. QED
    BY <1>1, <2>1, <2>3, <2>4, <2>5, <2>6, <2>7, BackoffAssumption DEF IsAvailableAt, Never
<1>2. HealthInv => FailingEndpointRests
  BY <1>1 DEF FailingEndpointRests, Last
<1>. QED
  BY <1>2, HealthInvariance, PTL

(***************************************************************************)
(* Backoff only lengthens: no step between two failures moves the instant  *)
(* of the retry earlier, not even where the shift or the counter reaches   *)
(* its width (health.rs:47-60, 137-145).                                   *)
(***************************************************************************)
THEOREM BackoffLengthens == Spec => RetryNeverMovesEarlier
<1>1. ASSUME HealthInv, [Next]_vars, health.fails > 0, health'.fails > 0
      PROVE  RetryAt(health') >= RetryAt(health)
  <2>1. /\ health \in Health /\ health.fails \in Nat /\ health.lastFailure \in Int
        /\ clock \in Nat /\ health.lastFailure <= clock
    BY <1>1 DEF HealthInv, TypeOK, Health, Never, Dated
  <2>2. DelayFor(health.fails) \in Int
    BY <2>1, DelayBounded
  <2>3. CASE Succeed
    <3>1. health' = [health EXCEPT !.fails = 0, !.successes = health.successes + 1]
      BY <2>3 DEF Succeed, RecordSuccess
    <3>2. health'.fails = 0
      BY <2>1, <3>1 DEF Health
    <3>. QED
      BY <1>1, <3>2
  <2>4. CASE Fail
    <3>1. health' = RecordFailure(health, clock)
      BY <2>4 DEF Fail
    <3>2. /\ health'.lastFailure = clock
          /\ health'.fails = health.fails \/ health'.fails = health.fails + 1
      BY <2>1, <3>1, RecordType, FailRecords
    <3>3. health'.fails \in Nat /\ DelayFor(health'.fails) \in Int
      BY <2>1, <3>2, DelayBounded
    <3>4. DelayFor(health'.fails) >= DelayFor(health.fails)
      BY <1>1, <2>1, <2>2, <3>2, DelayGrows
    <3>. QED
      BY <2>1, <2>2, <3>2, <3>3, <3>4 DEF RetryAt
  <2>5. CASE health' = health
    BY <2>1, <2>2, <2>5 DEF RetryAt
  <2>. QED
    BY <1>1, <2>3, <2>4, <2>5 DEF Next, Tick, Idle, vars
<1>2. HealthInv /\ [Next]_vars =>
          [health.fails > 0 /\ health'.fails > 0 => RetryAt(health') >= RetryAt(health)]_vars
  BY <1>1
<1>. QED
  BY <1>2, HealthInvariance, PTL DEF Spec, RetryNeverMovesEarlier
=============================================================================
