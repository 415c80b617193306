--------------------------- MODULE EndpointHealth ---------------------------
(***************************************************************************)
(* One endpoint's health record over time: requests report success or      *)
(* failure in any order, the clock runs, and the incremental record is     *)
(* compared with what the whole history of reports says (src/health.rs).   *)
(***************************************************************************)
EXTENDS Backoff, Sequences

CONSTANTS
    MaxTime,     \* bound: the clock stops here
    MaxReports   \* bound: reports recorded

ASSUME EndpointHealthAssumption == MaxTime \in Nat /\ MaxReports \in Nat

VARIABLES
    clock,    \* what Instant::now() returns
    health,   \* EndpointHealth.inner
    reports   \* auxiliary: every report so far, [ok: BOOLEAN, at: Nat]

vars == <<clock, health, reports>>

Report == [ok: BOOLEAN, at: Nat]

Init ==
    /\ clock = 0
    /\ health = FreshHealth
    /\ reports = <<>>

Succeed ==
    /\ Len(reports) < MaxReports
    /\ health' = RecordSuccess(health)
    /\ reports' = Append(reports, [ok |-> TRUE, at |-> clock])
    /\ UNCHANGED clock

Fail ==
    /\ Len(reports) < MaxReports
    /\ health' = RecordFailure(health, clock)
    /\ reports' = Append(reports, [ok |-> FALSE, at |-> clock])
    /\ UNCHANGED clock

Tick ==
    /\ clock < MaxTime
    /\ clock' = clock + 1
    /\ UNCHANGED <<health, reports>>

\* The endpoint is never used again once both bounds are reached.
Idle == clock = MaxTime /\ Len(reports) = MaxReports /\ UNCHANGED vars

Next == Succeed \/ Fail \/ Tick \/ Idle

Spec == Init /\ [][Next]_vars

-----------------------------------------------------------------------------
\* Type invariant of the health record and of the auxiliary history.
TypeOK ==
    /\ clock \in Nat
    /\ health \in Health
    /\ reports \in Seq(Report)

\* The reports after the latest success.
TrailingFailures ==
    {i \in 1 .. Len(reports) : \A j \in i .. Len(reports) : ~reports[j].ok}

(***************************************************************************)
(* A skipped endpoint deserves it (health.rs:108-118): whenever it is in   *)
(* cooldown, more than the threshold of its latest reports all failed, and *)
(* the very last of them came less than MaxDelay ago.  So no endpoint is   *)
(* ever banned for good, whatever its failure count.                       *)
(***************************************************************************)
CoolingIsEarned ==
    ~IsAvailableAt(health, clock) =>
        /\ \A i \in 1 .. Len(reports) :
              i >= Len(reports) - DemotionThreshold => ~reports[i].ok
        /\ Len(reports) > DemotionThreshold
        /\ clock - reports[Len(reports)].at < MaxDelay

(***************************************************************************)
(* The converse (health.rs:110-117): an endpoint that has failed more than *)
(* the threshold since its latest success is skipped for at least twice    *)
(* the base delay (or MaxDelay, if shorter) after its latest failure.      *)
(***************************************************************************)
FailingEndpointRests ==
    LET last == Len(reports)
        rest == IF 2 * BaseDelay < MaxDelay THEN 2 * BaseDelay ELSE MaxDelay
    IN  ( /\ \E i \in TrailingFailures : i = last - DemotionThreshold
          /\ clock - reports[last].at < rest )
        => ~IsAvailableAt(health, clock)

(***************************************************************************)
(* Backoff only lengthens: as long as no success is reported, the instant  *)
(* at which the endpoint becomes eligible again never moves earlier, also  *)
(* across the width of the shift and of the counter (health.rs:47-60).     *)
(***************************************************************************)
RetryNeverMovesEarlier ==
    [][health.fails > 0 /\ health'.fails > 0 => RetryAt(health') >= RetryAt(health)]_vars

-----------------------------------------------------------------------------
(***************************************************************************)
(* What README.md:126 says: "demotion_threshold (default 2) consecutive    *)
(* failures demote an endpoint into exponential cooldown".                 *)
(***************************************************************************)
DemotedAtThreshold ==
    ( /\ DemotionThreshold > 0
      /\ \E i \in TrailingFailures : i = Len(reports) - DemotionThreshold + 1
      /\ clock = reports[Len(reports)].at )
    => ~IsAvailableAt(health, clock)

=============================================================================
