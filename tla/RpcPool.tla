------------------------------ MODULE RpcPool ------------------------------
(***************************************************************************)
(* The pool (src/pool/mod.rs): concurrent callers dispatch JSON-RPC calls  *)
(* over a fixed list of endpoints.  A call lists its candidates, sorts     *)
(* them, and tries them one after the other until one gives an answer.     *)
(* What the callers share is, per endpoint, a health record behind a       *)
(* mutex, a token bucket behind another, and an atomic count of requests   *)
(* in flight; each action below is one access to one of them, together     *)
(* with the local work of the call up to its next access.                  *)
(*                                                                         *)
(* `call' and `forward' differ in the answers they accept only (Wire).     *)
(***************************************************************************)
EXTENDS Backoff, TokenBucket, Routing, Wire, FiniteSets

CONSTANTS
    Callers,      \* the tasks that use the pool
    Modes,        \* which entry points they use: "call", "forward"
    Methods,      \* the RPC methods, standing for their capabilities
    Serves,       \* Serves[e]: the methods RpcEndpoint::supports is true of
    Rps,          \* Rps[e]: RpcEndpoint.max_rps, or Unthrottled
    Upstream,     \* Upstream[e]: the replies the node behind e may give
    MaxRetries,   \* RpcPoolConfig.max_retries; 0 = try every candidate
    MaxCalls,     \* bound: calls each caller makes
    MaxTime       \* bound: the clock stops here

\* max_rps = None
Unthrottled == -1

ASSUME RpcPoolAssumption ==
    /\ IsFiniteSet(Callers)
    /\ Modes \subseteq {"call", "forward"}
    /\ Methods # {}
    /\ Serves \in [Endpoints -> SUBSET Methods]
    /\ Rps \in [Endpoints -> Nat \cup {Unthrottled}]
    /\ Upstream \in [Endpoints -> (SUBSET Reply) \ {{}}]
    /\ MaxRetries \in Nat
    /\ MaxCalls \in Nat
    /\ MaxTime \in Nat

VARIABLES
    clock,      \* what Instant::now() returns
    health,     \* PoolEntry.health, per endpoint
    limiter,    \* PoolEntry.rate_limiter, per endpoint
    inFlight,   \* PoolEntry.in_flight, per endpoint
    pc,         \* where each caller stands
    call,       \* the locals of its current or latest call
    begun,      \* how many calls it has begun
    sent,       \* Metrics::on_request, per endpoint
    served,     \* auxiliary: answers from each endpoint returned to a caller
    dropped     \* auxiliary: requests to each endpoint whose call was dropped

shared == <<health, limiter, inFlight>>
counts == <<sent, served, dropped>>
vars   == <<clock, shared, pc, call, begun, counts>>

-----------------------------------------------------------------------------
\* Where a caller stands: between two calls; looking at entry `scan'; sorting;
\* about to take the next candidate; about to ask its limiter; past the
\* limiter; awaiting the transport; about to drop the in-flight guard.
Places == {"idle", "scan", "sort", "next", "throttle", "admitted", "await", "leave"}

\* What the caller was told in the end.
Outcomes == {"none", "Result", "RpcError", "NoCandidates", "AllFailed", "Dropped"}

Call == [mode: {"call", "forward"},
         method: Methods,
         now: Nat,                      \* the Instant read at the start
         scan: Nat,                     \* index of the entry looked at
         incapable: SUBSET Endpoints,   \* skipped: does not serve the method
         cooling: SUBSET Endpoints,     \* skipped: in cooldown
         sort: Cursors,                 \* the candidates, and the sort's cursor
         next: Nat,                     \* index of the candidate being tried
         asked: Nat,                    \* the Instant read by try_acquire
         throttled: SUBSET Endpoints,   \* skipped: no token
         tried: Nat,                    \* dispatches so far
         failed: SUBSET Endpoints,      \* the endpoints of `attempts'
         verdict: Verdicts,             \* how the latest dispatch ended
         outcome: Outcomes]

FreshCall(mode, method, now) ==
    [mode |-> mode, method |-> method, now |-> now, scan |-> 1,
     incapable |-> {}, cooling |-> {}, sort |-> StartCursor(<<>>), next |-> 1,
     asked |-> 0, throttled |-> {}, tried |-> 0, failed |-> {},
     verdict |-> "failed", outcome |-> "none"]

Candidates(c) == call[c].sort.order
Target(c)     == Candidates(c)[call[c].next]
Limited(e)    == Rps[e] # Unthrottled

\* Mutant: the last candidate is never tried.
ExhaustedEarly(c) == call[c].next >= Len(Candidates(c))

Exhausted(c) == call[c].next > Len(Candidates(c))

\* Mutants: one dispatch too few, one too many.
BudgetSpentEarly(c) == MaxRetries # 0 /\ call[c].tried + 1 >= MaxRetries
BudgetSpentLate(c)  == MaxRetries # 0 /\ call[c].tried > MaxRetries

BudgetSpent(c) == MaxRetries # 0 /\ call[c].tried >= MaxRetries

Init ==
    /\ clock = 0
    /\ health = [e \in Endpoints |-> FreshHealth]
    /\ limiter = [e \in Endpoints |-> FullBucket(IF Limited(e) THEN Rps[e] ELSE 0, 0)]
    /\ inFlight = [e \in Endpoints |-> 0]
    /\ pc = [c \in Callers |-> "idle"]
    /\ call = [c \in Callers |-> FreshCall("call", CHOOSE m \in Methods : TRUE, 0)]
    /\ begun = [c \in Callers |-> 0]
    /\ sent = [e \in Endpoints |-> 0]
    /\ served = [e \in Endpoints |-> 0]
    /\ dropped = [e \in Endpoints |-> 0]

-----------------------------------------------------------------------------
\* RpcPool::call or RpcPool::forward is entered: the capability is looked up
\* and the clock read, once for the whole call.
Begin(c) ==
    /\ pc[c] = "idle"
    /\ begun[c] < MaxCalls
    /\ \E mode \in Modes, method \in Methods :
          call' = [call EXCEPT ![c] = FreshCall(mode, method, clock)]
    /\ pc' = [pc EXCEPT ![c] = "scan"]
    /\ begun' = [begun EXCEPT ![c] = @ + 1]
    /\ UNCHANGED <<clock, shared, counts>>

-----------------------------------------------------------------------------
\* ordered_candidates: one entry after the other, then the sort.

Phase(cursor) == IF Sorting(cursor) THEN "sort" ELSE "next"

\* The entry is dealt with as `r' says; on to the next entry or to the sort.
Scanned(c, r) ==
    /\ call' = [call EXCEPT ![c] = [r EXCEPT !.scan = @ + 1]]
    /\ pc' = [pc EXCEPT ![c] = IF r.scan < N THEN "scan" ELSE Phase(r.sort)]
    /\ UNCHANGED <<clock, shared, begun, counts>>

SkipIncapable(c) ==
    LET e == call[c].scan
    IN  /\ pc[c] = "scan"
        /\ call[c].method \notin Serves[e]
        /\ Scanned(c, [call[c] EXCEPT !.incapable = @ \cup {e}])

SkipCooling(c) ==
    LET e == call[c].scan
    IN  /\ pc[c] = "scan"
        /\ call[c].method \in Serves[e]
        /\ ~IsAvailableAt(health[e], call[c].now)
        /\ Scanned(c, [call[c] EXCEPT !.cooling = @ \cup {e}])

\* Mutant: the cooldown is not looked at.
AdmitAny(c) ==
    LET e == call[c].scan
    IN  /\ pc[c] = "scan"
        /\ call[c].method \in Serves[e]
        /\ Scanned(c, [call[c] EXCEPT !.sort.order = Append(@, e)])

Admit(c) ==
    LET e == call[c].scan
    IN  /\ pc[c] = "scan"
        /\ call[c].method \in Serves[e]
        /\ IsAvailableAt(health[e], call[c].now)
        /\ Scanned(c, [call[c] EXCEPT !.sort.order = Append(@, e)])

\* sort_by_key reads the in-flight counters one at a time.
Sorts(c, cursor) ==
    /\ pc[c] = "sort"
    /\ call' = [call EXCEPT ![c].sort = cursor]
    /\ pc' = [pc EXCEPT ![c] = Phase(cursor)]
    /\ UNCHANGED <<clock, shared, begun, counts>>

SortReads(c)    == call[c].sort.left = NoKey /\ Sorts(c, ReadLeft(call[c].sort, inFlight))
SortCompares(c) == call[c].sort.left # NoKey /\ Sorts(c, Compare(call[c].sort, inFlight))

-----------------------------------------------------------------------------
\* The loop over the candidates.

\* try_acquire reads the clock before it takes the limiter's lock.
AskLimiter(c) ==
    /\ pc[c] = "next" /\ ~Exhausted(c)
    /\ Limited(Target(c))
    /\ call' = [call EXCEPT ![c].asked = clock]
    /\ pc' = [pc EXCEPT ![c] = "throttle"]
    /\ UNCHANGED <<clock, shared, begun, counts>>

\* A locally throttled endpoint is skipped, not awaited.
Throttle(c) ==
    LET e == Target(c)
        b == Refill(limiter[e], Rps[e], call[c].asked)
    IN  /\ pc[c] = "throttle"
        /\ ~HasToken(b)
        /\ limiter' = [limiter EXCEPT ![e] = b]
        /\ call' = [call EXCEPT ![c].throttled = @ \cup {e}, ![c].next = @ + 1]
        /\ pc' = [pc EXCEPT ![c] = "next"]
        /\ UNCHANGED <<clock, health, inFlight, begun, counts>>

Grant(c) ==
    LET e == Target(c)
        b == Refill(limiter[e], Rps[e], call[c].asked)
    IN  /\ pc[c] = "throttle"
        /\ HasToken(b)
        /\ limiter' = [limiter EXCEPT ![e] = Take(b)]
        /\ pc' = [pc EXCEPT ![c] = "admitted"]
        /\ UNCHANGED <<clock, health, inFlight, call, begun, counts>>

\* Past the throttle, if the candidate has one.
PastThrottle(c) ==
    \/ pc[c] = "admitted"
    \/ pc[c] = "next" /\ ~Exhausted(c) /\ ~Limited(Target(c))

\* Mutant: the request is sent without entering the in-flight guard.
DispatchUncounted(c) ==
    LET e == Target(c)
    IN  /\ PastThrottle(c)
        /\ ~BudgetSpent(c)
        /\ sent' = [sent EXCEPT ![e] = @ + 1]
        /\ call' = [call EXCEPT ![c].tried = @ + 1]
        /\ pc' = [pc EXCEPT ![c] = "await"]
        /\ UNCHANGED <<clock, shared, begun, served, dropped>>

\* on_request, the request id, and InFlightGuard::enter; the request is sent.
Dispatch(c) ==
    LET e == Target(c)
    IN  /\ PastThrottle(c)
        /\ ~BudgetSpent(c)
        /\ inFlight' = [inFlight EXCEPT ![e] = @ + 1]
        /\ sent' = [sent EXCEPT ![e] = @ + 1]
        /\ call' = [call EXCEPT ![c].tried = @ + 1]
        /\ pc' = [pc EXCEPT ![c] = "await"]
        /\ UNCHANGED <<clock, health, limiter, begun, served, dropped>>

\* The await on the transport ends and the outcome is recorded under the
\* health lock of the endpoint that was asked.
Answer(c) ==
    LET e == Target(c)
    IN  /\ pc[c] = "await"
        /\ \E reply \in Upstream[e] :
              LET verdict == Verdict(call[c].mode, reply)
              IN  /\ call' = [call EXCEPT ![c].verdict = verdict]
                  /\ health' = [health EXCEPT ![e] =
                        IF verdict = "failed" THEN RecordFailure(@, clock) ELSE RecordSuccess(@)]
        /\ pc' = [pc EXCEPT ![c] = "leave"]
        /\ UNCHANGED <<clock, limiter, inFlight, begun, counts>>

\* The call returns its answer; the in-flight guard is dropped on the way out.
ReturnAnswer(c) ==
    LET e == Target(c)
    IN  /\ pc[c] = "leave"
        /\ call[c].verdict # "failed"
        /\ inFlight' = [inFlight EXCEPT ![e] = @ - 1]
        /\ served' = [served EXCEPT ![e] = @ + 1]
        /\ call' = [call EXCEPT ![c].outcome = call[c].verdict]
        /\ pc' = [pc EXCEPT ![c] = "idle"]
        /\ UNCHANGED <<clock, health, limiter, begun, sent, dropped>>

\* Mutant: the loop goes on without advancing.
FailOverInPlace(c) ==
    LET e == Target(c)
    IN  /\ pc[c] = "leave"
        /\ call[c].verdict = "failed"
        /\ inFlight' = [inFlight EXCEPT ![e] = @ - 1]
        /\ call' = [call EXCEPT ![c].failed = @ \cup {e}]
        /\ pc' = [pc EXCEPT ![c] = "next"]
        /\ UNCHANGED <<clock, health, limiter, begun, counts>>

\* Mutant: the failure is recorded once more on the way out.
FailOverRecordsAgain(c) ==
    LET e == Target(c)
    IN  /\ pc[c] = "leave"
        /\ call[c].verdict = "failed"
        /\ inFlight' = [inFlight EXCEPT ![e] = @ - 1]
        /\ health' = [health EXCEPT ![e] = RecordFailure(@, clock)]
        /\ call' = [call EXCEPT ![c].failed = @ \cup {e}, ![c].next = @ + 1]
        /\ pc' = [pc EXCEPT ![c] = "next"]
        /\ UNCHANGED <<clock, limiter, begun, counts>>

\* The failed attempt is noted, the guard dropped, and the loop goes on.
FailOver(c) ==
    LET e == Target(c)
    IN  /\ pc[c] = "leave"
        /\ call[c].verdict = "failed"
        /\ inFlight' = [inFlight EXCEPT ![e] = @ - 1]
        /\ call' = [call EXCEPT ![c].failed = @ \cup {e}, ![c].next = @ + 1]
        /\ pc' = [pc EXCEPT ![c] = "next"]
        /\ UNCHANGED <<clock, health, limiter, begun, counts>>

\* The loop is over, the candidates or the retry budget being used up.  The
\* budget is looked at only after the limiter has given a token away.
GiveUp(c) ==
    /\ \/ pc[c] = "next" /\ Exhausted(c)
       \/ PastThrottle(c) /\ BudgetSpent(c)
    /\ call' = [call EXCEPT ![c].outcome =
          IF call[c].failed = {} THEN "NoCandidates" ELSE "AllFailed"]
    /\ pc' = [pc EXCEPT ![c] = "idle"]
    /\ UNCHANGED <<clock, shared, begun, counts>>

\* Mutant: the guard is leaked when the future is dropped.
DropLeaks(c) ==
    LET e == Target(c)
    IN  /\ pc[c] = "await"
        /\ dropped' = [dropped EXCEPT ![e] = @ + 1]
        /\ call' = [call EXCEPT ![c].outcome = "Dropped"]
        /\ pc' = [pc EXCEPT ![c] = "idle"]
        /\ UNCHANGED <<clock, health, limiter, inFlight, begun, sent, served>>

\* The future of the call is dropped while it awaits: call_with_timeout's
\* deadline passes, or the proxy's client disconnects.  The guard's Drop runs;
\* nothing is recorded of the endpoint.
Drop(c) ==
    LET e == Target(c)
    IN  /\ pc[c] = "await"
        /\ inFlight' = [inFlight EXCEPT ![e] = @ - 1]
        /\ dropped' = [dropped EXCEPT ![e] = @ + 1]
        /\ call' = [call EXCEPT ![c].outcome = "Dropped"]
        /\ pc' = [pc EXCEPT ![c] = "idle"]
        /\ UNCHANGED <<clock, health, limiter, begun, sent, served>>

Tick ==
    /\ clock < MaxTime
    /\ clock' = clock + 1
    /\ UNCHANGED <<shared, pc, call, begun, counts>>

\* The bounds are reached and no call is running.
Stopped ==
    /\ clock = MaxTime
    /\ \A c \in Callers : pc[c] = "idle" /\ begun[c] = MaxCalls
    /\ UNCHANGED vars

\* The steps a running call takes by itself.
Proceed(c) ==
    \/ SkipIncapable(c) \/ SkipCooling(c) \/ Admit(c)
    \/ SortReads(c) \/ SortCompares(c)
    \/ AskLimiter(c) \/ Throttle(c) \/ Grant(c)
    \/ Dispatch(c)
    \/ ReturnAnswer(c) \/ FailOver(c) \/ GiveUp(c)

Next ==
    \/ \E c \in Callers : Begin(c) \/ Proceed(c) \/ Answer(c) \/ Drop(c)
    \/ Tick
    \/ Stopped

Spec == Init /\ [][Next]_vars

(***************************************************************************)
(* A task is run again whenever it can go on.  In the wasm build nothing   *)
(* more can be said: its fetch transport has no deadline, so the host may  *)
(* leave a request pending for ever.                                       *)
(***************************************************************************)
WasmSpec ==
    /\ Spec
    /\ \A c \in Callers : WF_vars(Proceed(c))

\* The reqwest transport ends every request, if need be by its timeout.
FairSpec ==
    /\ Spec
    /\ \A c \in Callers : WF_vars(Proceed(c)) /\ WF_vars(Answer(c))

-----------------------------------------------------------------------------
\* Type invariant.  (An in-flight counter below zero would be an AtomicU64
\* that wrapped around.)
TypeOK ==
    /\ clock \in Nat
    /\ health \in [Endpoints -> Health]
    /\ limiter \in [Endpoints -> Bucket]
    /\ inFlight \in [Endpoints -> Nat]
    /\ pc \in [Callers -> Places]
    /\ call \in [Callers -> Call]
    /\ begun \in [Callers -> Nat]
    /\ sent \in [Endpoints -> Nat]
    /\ served \in [Endpoints -> Nat]
    /\ dropped \in [Endpoints -> Nat]

\* The callers that hold an in-flight guard of e.
Holding(e) == {c \in Callers : pc[c] \in {"await", "leave"} /\ Target(c) = e}

(***************************************************************************)
(* The load that routing reads is the truth (mod.rs:52-68): every          *)
(* endpoint's counter is the number of calls that have a request at it,    *)
(* on every exit path, dropped futures included.                           *)
(***************************************************************************)
InFlightExact ==
    \A e \in Endpoints : inFlight[e] = Cardinality(Holding(e))

Awaiting(e) == {c \in Holding(e) : pc[c] = "await"}

Returning(e) == {c \in Holding(e) : pc[c] = "leave" /\ call[c].verdict # "failed"}

(***************************************************************************)
(* The books balance (mod.rs:301-389, tests/property.rs:4-5): each request *)
(* sent is recorded exactly once, is awaited, or was dropped; and the      *)
(* successes on record are the answers callers got or are about to get.    *)
(***************************************************************************)
EveryRequestAccounted ==
    \A e \in Endpoints :
        /\ sent[e] = health[e].successes + health[e].failures
                       + Cardinality(Awaiting(e)) + dropped[e]
        /\ health[e].successes = served[e] + Cardinality(Returning(e))

(***************************************************************************)
(* No endpoint is asked twice by one call, and never more endpoints than   *)
(* the retry budget allows (mod.rs:284-299): the dispatches are the        *)
(* distinct endpoints that failed, plus the one being awaited, answering   *)
(* or given up on.                                                         *)
(***************************************************************************)
AskedOnce ==
    \A c \in Callers :
        LET pending == IF \/ pc[c] \in {"await", "leave"}
                          \/ call[c].outcome \in {"Result", "RpcError", "Dropped"} THEN 1 ELSE 0
        IN  /\ call[c].tried = Cardinality(call[c].failed) + pending
            /\ MaxRetries # 0 => call[c].tried <= MaxRetries

(***************************************************************************)
(* An error is returned only when there was nothing left to try            *)
(* (mod.rs:284-298, 393-414): every endpoint was skipped for one of the    *)
(* three documented reasons or has failed this very call, or the retry     *)
(* budget was used up to the last; and saturation alone never costs a call *)
(* its answer.                                                             *)
(***************************************************************************)
ErrorOnlyWhenExhausted ==
    \A c \in Callers :
        call[c].outcome \in {"NoCandidates", "AllFailed"} =>
            \/ call[c].incapable \cup call[c].cooling \cup call[c].throttled
                 \cup call[c].failed = Endpoints
            \/ MaxRetries # 0 /\ Cardinality(call[c].failed) = MaxRetries

(***************************************************************************)
(* An endpoint in cooldown gets no new callers (mod.rs:247-251): the only  *)
(* calls that still list it are those that began no later than the failure *)
(* that demoted it.                                                        *)
(***************************************************************************)
Listed(c) == {Candidates(c)[i] : i \in call[c].next .. Len(Candidates(c))}

CoolingEndpointRests ==
    \A c \in Callers : pc[c] # "idle" =>
        \A e \in Listed(c) :
            ~IsAvailableAt(health[e], clock) => call[c].now <= health[e].lastFailure

(***************************************************************************)
(* Priorities hold whatever the load (mod.rs:215-217): a worse tier comes  *)
(* before an endpoint of a better one only if that one has a soft cap.     *)
(***************************************************************************)
TiersInOrder ==
    \A c \in Callers : \A i, j \in DOMAIN Candidates(c) :
        i < j /\ Priority[Candidates(c)[i]] > Priority[Candidates(c)[j]]
            => Cap[Candidates(c)[j]] # Uncapped

(***************************************************************************)
(* max_rps is kept by all callers together (mod.rs:286-294): whatever the  *)
(* order in which they read the clock and get the lock, an endpoint is     *)
(* sent no more than its burst plus its rate times the time run.           *)
(***************************************************************************)
ThrottleKept ==
    \A e \in Endpoints : Limited(e) =>
        sent[e] * Token <= Capacity(Rps[e]) + Rate(Rps[e]) * clock

(***************************************************************************)
(* "At least one healthy endpoint always returns success"                  *)
(* (tests/property.rs:6): with an endpoint that is always good for an      *)
(* answer and unthrottled, and no retry budget, no call that it serves     *)
(* ends in an error, whatever the others do.                               *)
(***************************************************************************)
Reliable(e) ==
    ~Limited(e) /\ \A reply \in Upstream[e] : Verdict("call", reply) # "failed"

ReliableEndpointAnswers ==
    MaxRetries = 0 =>
        \A c \in Callers :
            call[c].outcome \in {"NoCandidates", "AllFailed"} =>
                \A e \in Endpoints : Reliable(e) => call[c].method \notin Serves[e]

\* The candidates whose turn is not over, and the steps of a turn done.
Turns(c) == IF Exhausted(c) THEN 0 ELSE Len(Candidates(c)) + 1 - call[c].next
Stage    == [next |-> 0, throttle |-> 1, admitted |-> 2, await |-> 3, leave |-> 4]

\* How many steps a call has left at most.
CallWork(c) ==
    CASE pc[c] = "idle" -> 0
      [] pc[c] = "scan" -> 2 * N * N + 6 * N + 2 - call[c].scan
      [] pc[c] = "sort" -> SortWork(call[c].sort) + 5 * Turns(c) + 1
      [] OTHER          -> 5 * Turns(c) + 1 - Stage[pc[c]]

(***************************************************************************)
(* No step of a call undoes another (mod.rs:230-265, 284-414): whatever    *)
(* the other calls do to the loads under its sort, to the buckets and to   *)
(* the health records, each step a running call takes brings it nearer to  *)
(* its end, by a bound that the number of endpoints alone decides.         *)
(***************************************************************************)
CallAdvances ==
    [][\A c \in Callers : pc[c] # "idle" =>
          \/ pc'[c] = pc[c] /\ call'[c] = call[c]
          \/ CallWork(c)' \in 0 .. (CallWork(c) - 1)]_vars

\* Every call comes to an end (transport.rs:96-127, mod.rs:284-414): no lock
\* is held across an await and no endpoint is waited for twice.
CallsReturn == \A c \in Callers : pc[c] # "idle" ~> pc[c] = "idle"
=============================================================================
