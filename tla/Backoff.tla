------------------------------ MODULE Backoff ------------------------------
(***************************************************************************)
(* The health record the pool keeps of one endpoint and the exponential    *)
(* cooldown computed from it (src/health.rs).  Every operation runs under  *)
(* the record's mutex, so each is one operator on the record; the modules  *)
(* that EXTEND this one decide which process applies it, and when.         *)
(*                                                                         *)
(* Time is a natural number of ticks.  The latency sum, the last error     *)
(* text and last_success_at feed the status snapshot only and are left out.*)
(***************************************************************************)
EXTENDS Integers

CONSTANTS
    DemotionThreshold,  \* BackoffPolicy.demotion_threshold
    BaseDelay,          \* BackoffPolicy.base_delay, in ticks
    MaxDelay,           \* BackoffPolicy.max_delay, in ticks
    WordBits            \* width of consecutive_failures and of the shift: 32

ASSUME BackoffAssumption ==
    /\ DemotionThreshold \in Nat
    /\ BaseDelay \in Nat
    /\ MaxDelay \in Nat
    /\ WordBits \in Nat \ {0}

\* The powers of two, by recursion so that they can be reasoned about.
Pow2[n \in Nat] == IF n = 0 THEN 1 ELSE 2 * Pow2[n - 1]

\* u32::MAX
MaxWord == Pow2[WordBits] - 1

\* last_failure_at = None
Never == -1

Health == [fails: Nat, lastFailure: Nat \cup {Never}, successes: Nat, failures: Nat]

FreshHealth == [fails |-> 0, lastFailure |-> Never, successes |-> 0, failures |-> 0]

\* u32::saturating_sub(demotion_threshold)
OverThreshold(n) == IF n > DemotionThreshold THEN n - DemotionThreshold ELSE 0

\* Mutant: a shift past the width counts as no shift at all.
BackoffFactorWraps(n) == IF OverThreshold(n) < WordBits THEN Pow2[OverThreshold(n)] ELSE 1

\* 1u32.checked_shl(over).unwrap_or(u32::MAX)
BackoffFactor(n) == IF OverThreshold(n) < WordBits THEN Pow2[OverThreshold(n)] ELSE MaxWord

(***************************************************************************)
(* BackoffPolicy::delay_for.  A product too large for a Duration becomes   *)
(* MaxDelay, which is what the final minimum makes of it here.             *)
(***************************************************************************)
DelayFor(n) ==
    LET scaled == BaseDelay * BackoffFactor(n)
    IN  IF n = 0 THEN 0 ELSE IF scaled < MaxDelay THEN scaled ELSE MaxDelay

\* The instant from which a demoted endpoint is eligible again.
RetryAt(h) == h.lastFailure + DelayFor(h.fails)

(***************************************************************************)
(* EndpointHealth::is_available_at.  The elapsed time saturates at 0, so a *)
(* "now" read before the last failure counts as no time elapsed.           *)
(***************************************************************************)
IsAvailableAt(h, now) ==
    \/ h.fails <= DemotionThreshold
    \/ h.lastFailure = Never
    \/ (IF now > h.lastFailure THEN now - h.lastFailure ELSE 0) >= DelayFor(h.fails)

\* Mutant: a success takes one failure off the count, without saturating.
RecordSuccessDecays(h) ==
    [h EXCEPT !.fails = @ - 1, !.successes = @ + 1]

\* Mutant: a success leaves the count alone.
RecordSuccessForgotten(h) ==
    [h EXCEPT !.successes = @ + 1]

\* EndpointHealth::record_success
RecordSuccess(h) ==
    [h EXCEPT !.fails = 0, !.successes = @ + 1]

\* Mutant: only the first failure of all is dated.
RecordFailureUndated(h, now) ==
    [h EXCEPT !.fails = IF @ < MaxWord THEN @ + 1 ELSE @,
              !.lastFailure = IF @ = Never THEN now ELSE @,
              !.failures = @ + 1]

\* EndpointHealth::record_failure, its Instant::now() read under the lock
RecordFailure(h, now) ==
    [h EXCEPT !.fails = IF @ < MaxWord THEN @ + 1 ELSE @,
              !.lastFailure = now,
              !.failures = @ + 1]
=============================================================================
