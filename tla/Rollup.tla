------------------------------- MODULE Rollup -------------------------------
(***************************************************************************)
(* The rollup metrics of the daemon (src/rollup.rs): per label, a window   *)
(* of outcomes behind one mutex, and the summary made of it when it is     *)
(* drained.  The vector of latencies is sorted before it is read, so it is *)
(* a bag here; an entry absent from the map is an empty window.            *)
(***************************************************************************)
EXTENDS Integers, FiniteSets, Functions

CONSTANT Latencies    \* the latencies, in milliseconds, that requests may take

ASSUME RollupAssumption == IsFiniteSet(Latencies) /\ Latencies \subseteq Nat

Window == [ok: Nat, err: Nat, latencies_ms: [Latencies -> Nat]]

EmptyWindow == [ok |-> 0, err |-> 0, latencies_ms |-> [l \in Latencies |-> 0]]

\* RollupMetrics::on_success and on_failure.
OnSuccess(w, l) == [w EXCEPT !.ok = @ + 1, !.latencies_ms[l] = @ + 1]

OnFailure(w, l) == [w EXCEPT !.err = @ + 1, !.latencies_ms[l] = @ + 1]

Requests(w) == w.ok + w.err

\* How many requests of a window took at most l, at least l.
AtMost(w, l)  == SumFunctionOnSet(w.latencies_ms, {k \in Latencies : k <= l})
AtLeast(w, l) == SumFunctionOnSet(w.latencies_ms, {k \in Latencies : k >= l})

\* Mutant: the rank is truncated.
RankTruncated(pct, n) == (pct * (n - 1)) \div 100

\* (q * (len - 1)).round(), for q = pct/100, counted from 0.
Rank(pct, n) == (pct * (n - 1) + 50) \div 100

\* What stands at that rank of the sorted latencies.
Percentile(w, pct) ==
    CHOOSE l \in Latencies :
        /\ w.latencies_ms[l] > 0
        /\ AtMost(w, l) > Rank(pct, Requests(w))
        /\ AtMost(w, l) - w.latencies_ms[l] <= Rank(pct, Requests(w))

\* EndpointRollup: the summary of a window that saw traffic.
EndpointRollup(label, w) ==
    [endpoint |-> label, requests |-> Requests(w), ok |-> w.ok, err |-> w.err,
     p50_ms |-> Percentile(w, 50), p95_ms |-> Percentile(w, 95)]

(***************************************************************************)
(* The summary says what the samples say (rollup.rs:59-67): at least half  *)
(* of them lie on either side of p50; p95 is not below it, and no more     *)
(* than one sample in twenty, rounded to the nearest whole sample, lies    *)
(* above p95.                                                              *)
(***************************************************************************)
SummarySound(w) ==
    LET p50 == Percentile(w, 50)
        p95 == Percentile(w, 95)
        n   == Requests(w)
    IN  /\ 2 * AtMost(w, p50) >= n
        /\ 2 * AtLeast(w, p50) >= n
        /\ p50 <= p95
        /\ 20 * (n - AtMost(w, p95)) <= n + 9
=============================================================================
