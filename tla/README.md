# Verification of drm3-rpc-pool

TLA+ models of the JSON-RPC endpoint pool, the TLC configurations that check
them on small instances, and proofs, checked by TLAPS, that hold for every pool.
`PROJECT.json` lists the components, the runs, the source lines behind each
definition, the hazards and the theorems. Paths below are relative to the
repository root (`src/pool/mod.rs` and so on).

## 1. The system

The pool puts a fixed list of JSON-RPC endpoints behind one `call`. A call lists
the endpoints that can serve it, orders them, and asks one after the other until
one answers. Many calls run at once, as tasks on a multi-threaded runtime or as
promises of one JavaScript thread, and share per-endpoint state.

| Component | Source | State | Operations |
|---|---|---|---|
| Health and backoff | `src/health.rs` | per endpoint, under a mutex: consecutive failures, last failure instant, success and failure totals | `record_success`, `record_failure`, `is_available_at`, `BackoffPolicy::delay_for` |
| Rate limiter | `src/pool/rate_limit.rs` | per endpoint, under a mutex: tokens, last refill | `per_second`, `try_acquire` |
| Candidate ordering | `src/pool/mod.rs:230-265` | none of its own; reads health and the atomic in-flight counters | capability and cooldown filter, `sort_by_key` |
| Dispatch and failover | `src/pool/mod.rs:267-577` | per endpoint the atomic in-flight counter (a guard); per call its candidates, position, attempts | `call`, `forward`, `call_with_timeout` |
| Wire parsing | `src/pool/wire.rs` | none | `parse_rpc_response`, `classify_response` |
| Transports | `src/transport.rs`, `bindings/wasm/src/fetch_transport.rs` | an HTTP client | one POST, with a timeout (reqwest) or without one (fetch) |
| Configuration, presets | `src/config.rs`, `src/presets.rs`, `RpcPool::new` | the configuration value, changed in place by `resolve_env`; the process environment, read | `from_toml_str`, `resolve_env`, `validate`, `from_urls`, the presets, `init`; the sort by priority; `for_method`, `supports` |
| Rollup metrics | `src/rollup.rs`, `src/metrics.rs` | per label, under one mutex: successes, failures, latencies of the current window | `on_success`, `on_failure`, `drain`, `flush` |
| Proxy daemon | `src/proxy.rs`, `src/main.rs` | per request the replies collected so far; the flush task | single and batch JSON-RPC over `forward`, `/health`, `/metrics`, the flush interval |
| WebAssembly binding | `bindings/wasm/src/lib.rs` | a pool | a constructor, and wrappers over `call` and `status` |

**Interaction.** The proxy and the binding call the pool. The pool reads the
clock once per call, reads each health record under its lock while filtering,
reads the in-flight counters of two endpoints at each comparison of the sort,
asks the limiter of a candidate (which reads the clock again, *before* it takes
its lock), enters the in-flight guard, awaits the transport, and writes the
outcome first to the health record and then to the rollup window, each under a lock of
its own. No lock is held across an await. Dropping the future of a call at its await
runs the guard's `Drop` and nothing else; the daemon drops it, with the rest of the
batch, when the client hangs up. A task of the daemon takes the rollup window under its
lock every `ROLLUP_WINDOW_S` seconds and then logs what it took. The pool's endpoints
are fixed when it is built, from a configuration that reached it on one of three ways:
parsed, expanded and validated by the daemon; filled in, and perhaps expanded, by a Rust
caller; or deserialised from a JavaScript object and never expanded.

**What is hard.** All hazards, with their lines, are in `PROJECT.json`. In short:

- A decision is made on state that other calls then change: the candidate list is
  never refreshed, the load a call was ordered by has moved before it dispatches,
  and one sort compares keys read at different moments.
- Outcomes arrive in the order of completion, not of sending, so an old success
  clears the failures of a later outage.
- `try_acquire` may hold a reading of the clock older than the bucket's refill.
- A call can be dropped at its await, an exit that no line of the code names; the
  load that routing relies on must survive it.
- Numeric edges: the shift by the failure count, the saturating counter, a rate
  of 0, the off-by-ones of the demotion threshold and of the retry budget, the rank
  of a percentile in a window of a few samples.
- An outcome passes through two locks, and the flush may fall between them, or
  between the moment a window is taken and the moment it is logged.
- A batch runs under one future, which may be dropped in its middle.
- `resolve_env` works in place and stops at the first failure; a caller that retries
  expands a half-expanded value. Only what the expansion leaves can be checked for
  blanks and duplicates.

**What makes each component correct.**

- *Health*: an endpoint in cooldown has earned it, one that keeps failing rests,
  backoff only lengthens, nobody is banned for good.
- *Limiter*: no span of time gets more than a burst plus the rate; never closed
  for good.
- *Ordering*: a permutation of the candidates; the documented order when nothing
  moves; a worse tier goes first only past a saturated better one.
- *Dispatch*: the load is exact; every request is accounted for; no endpoint is
  asked twice by a call; an error only when there was nothing left to try; a
  healthy endpoint means an answer; every call returns.
- *Configuration*: the pool's entries are those written, in an order that makes an
  index a tie-breaker, with distinct URLs; the keys on the wire are those of the
  environment; what is in order is accepted.
- *Rollup*: no outcome is lost or counted twice, each comes out in the end, and a
  summary says what its samples say.
- *Proxy*: a batch is worked off in step, each item forwarded once, ids kept, and
  every request is answered unless its client leaves.

## 2. The modules

```
Backoff --------- EndpointHealth --- EndpointHealth_proofs  one record, any reports
TokenBucket ----- RateLimiter ------ RateLimiter_proofs     one bucket, many threads
Routing --------- CandidateSort ---- CandidateSort_proofs   one sort, moving loads
   |   \--- ComponentTheorems (Backoff + TokenBucket + Routing)
Wire                                                        lemmas on the three
   |
RpcPool (Backoff + TokenBucket + Routing + Wire)            many calls, one pool
   |--- DocClaims --------------\
   \--- RpcPoolRefinement ------ MCRpcPool
            |    \--- RpcPool_proofs
            : implements
FailoverCall                                                what a call promises
   \--- Daemon (+ Rollup) ------ MCDaemon                   handlers, flush task
             \--- Daemon_proofs
PoolConfig ---------------------- MCPoolConfig              from a file to a pool
   \--- PoolConfig_proofs
Induction                                                   numbers, finite sets
```

`Backoff`, `TokenBucket`, `Routing` and `Wire` hold what runs under one lock, or
reads no shared state, as operators on one record. Each is used twice: by a small
state machine of its own component, where its hazards can be explored in depth,
and by `RpcPool`, which composes all four. `FailoverCall` is the abstract specification:
`RpcPool` implements it, and `Daemon` stands on it instead of on the pool, so that the
daemon is checked against every pool that keeps that promise and not against one small
instance. `PoolConfig` establishes what `RpcPool` assumes of its constants (entries
sorted by priority, ties in the order of the configuration). The modules with theorems use no
`RECURSIVE` operator; a power of two is a recursive function. A definition named as a mutant ("Mutant: ...") is a
plausible wrong version of the one after it; no behaviour of the models uses it.

### Correspondence to the code

**Backoff.** `Health` is `Inner` of `health.rs` without the fields that feed only
the status snapshot. `RecordSuccess`, `RecordFailure` and `IsAvailableAt` are the
three bodies under the mutex, `DelayFor` is `delay_for` with its checked shift.
The width of the failure counter and of the shift is the constant `WordBits` (32
in the code, 2 to 4 in the runs, so that the edge is reached). A product too
large for a `Duration` is `max_delay` in the code, as any product above it is, so
`DelayFor` needs no case for it.

**TokenBucket.** Tokens are counted in units of `1/TicksPerSecond`; a tick then
refills exactly `rps` units and the code's `f64` seconds become integers. Rounding
of `f64` is not modelled.

**Routing.** `Key` is the sort key; `slice::sort_by_key` evaluates it anew for both
operands at every comparison, and the standard library sorts up to 20 elements by
insertion from the tail, so the sort is a cursor (`at`, `hole`, `left`) advanced by
one step for each key closure. Pools of more than 20 endpoints are not modelled.

**Wire.** A body is what serde distinguishes: not JSON, and an `error` and a `result`
member each absent, null, present or malformed. Absent and null are one `None`.

**RpcPool.** One action for each access to shared state, together with the call's
local work up to its next access:

| Action | Code (`src/pool/mod.rs`) |
|---|---|
| `Begin` | entry of `call`/`forward`, the clock read once |
| `SkipIncapable`, `SkipCooling`, `Admit` | one turn of the filter loop of `ordered_candidates` |
| `SortReads`, `SortCompares` | the left, then the right key closure of a comparison |
| `AskLimiter`, `Throttle`, `Grant` | `try_acquire`: the clock, then the bucket under its lock |
| `Dispatch` | the budget check passed, guard entered, request sent |
| `Answer` | the await ends, the outcome goes to the health record |
| `ReturnAnswer`, `FailOver` | the guard is dropped; the call returns or goes on |
| `GiveUp` | no candidate or no budget left: `NoCandidates` or `AllFailed` |
| `Drop` | the future is dropped at its await (`call_with_timeout`, a client that left) |
| `Tick` | time passes |

`call` and `forward` share all of this and differ only in the answers they accept,
which `Wire` says; the mapped lines come from both bodies. The request cannot fail to
serialise and its id is only a distinct number, so neither is modelled. `asked`,
`throttled`, `failed` and the three skip sets are the locals and log arguments of the
code; `sent` is the metrics' `on_request`; `served` and `dropped` are auxiliary.

**FailoverCall** knows of a call only which endpoints it has asked and which it has
excused. **RpcPoolRefinement** maps the pool to it: `call[c].failed` and the endpoint being
awaited are the asked ones, the three skip sets the excused ones, `await` and `leave` are
"asking", and the filter, the sort and the limiter are "trying". Both sets are empty again
once the call is over. A step of the sort, an admission or a tick is a stutter.

**PoolConfig.** A string is a sequence of pieces: text, a reference `${VAR}`, or a
reference that is never closed; an environment value is such a string too, since a value
may contain `${`. White space is one piece. The expansion is one pass from left to right,
and the values put in are not looked at again. `Places` are the strings of a configuration
in the order of `resolve_env`; `Reached` says which of them a run of it got to, so that
`Resolved` is also the state a failed one leaves behind. `Load` is `from_toml_str` (atomic
for its caller: a refused configuration is lost), `Resolve` the library's own call,
`NewPool` is `RpcPool::new` for Rust callers and for the daemon once its file is loaded, and
`NewJsPool` the constructor of the JavaScript class, which deserialises first. `Export`
sets a missing variable before the daemon is started again or the caller tries again.
Capabilities are two explicit tables, the wire names of `for_method` and the snake-case
names of serde. Labels, limits and timeouts decide nothing here and are left out; what
`rps`, caps and budgets do is in `RpcPool`. `EntryOrder`, the stable sort of `RpcPool::new`,
ranks an endpoint by the number of those that precede it.

**Rollup.** The vector of latencies is sorted before it is read, so it is a bag, a function
from latencies to counts; the rank is `round(q * (n - 1))` in integers.

**Daemon.** One action for each access to shared state:

| Action | Code |
|---|---|
| `Post`, `Respond` | entry and end of `rpc_handler` |
| `Invalid`, `Forward` | `handle_one` without, with a method |
| `PassOver`, `Dispatch` | the pool's loop, as `FailoverCall` has it |
| `Arrive` | the await ends; the health record is written |
| `Relay`, `FailOver` | `on_success`, `on_failure` of the rollup; the reply, or the next endpoint |
| `GiveUp` | the pool's error, and `map_pool_error` |
| `HangUp` | the handler's future is dropped at the await |
| `Drain`, `Emit` | `drain` under the lock; one event of `flush` |

A single request is a batch of one item; that its reply is not wrapped in an array is
layout. `recorded` counts what the health records have counted; `forwarded` is auxiliary.
An endpoint's label is a number in the order in which labels sort.

**DocClaims** states what the documentation says and the code does not keep (section 4).

## 3. The runs that pass

| Run | What it shows |
|---|---|
| `endpoint_health` | The incremental record against the whole history of reports. `CoolingIsEarned`: an endpoint in cooldown has failed in all of its last *threshold + 1* reports, the last less than `MaxDelay` ago. `FailingEndpointRests`: the converse, for at least twice the base delay. `RetryNeverMovesEarlier`: no failure shortens the wait, across the overflow of the shift and of the counter. |
| `rate_limiter` | Three threads with clock readings out of order, `max_rps = 0`. `WindowWithinRate` over a window opened at any moment; `NeverClosedForGood`. |
| `candidate_sort` | Every sublist of four endpoints in two tiers while other requests come and go. `SortsAllCandidates`: a permutation throughout, and the documented order if nothing moved. `SpillOnlyPastFull`: whatever moves, a worse tier stands before an endpoint only if that one was saturated during the sort. `SaturatedFirstOnlyIfOneTurned`: what is left of the sentence that `saturated_last` refutes (section 4), namely that it takes a third candidate that turns between two comparisons. `SortEnds`: no load pattern keeps the sort from ending. |
| `pool_pair` | Two callers, two calls each, over a capped primary of one request per second that may fail, and a peer that always answers one of the two methods. `InFlightExact`, `EveryRequestAccounted`, `AskedOnce`, `ErrorOnlyWhenExhausted`, `CoolingEndpointRests`; `ThrottleKept` by both callers together; `ReliableEndpointAnswers`, the invariant of `tests/property.rs`. |
| `pool_mixed` | `call` and `forward`, two methods, three endpoints in two tiers, a throttled and a specialised one, all replies, a retry budget of two. `ImplementsFailoverCall`: the pool is an abstract failover call. `ErrorOnlyWhenExhausted` with every reason to skip; `TiersInOrder` whatever the load; `CallAdvances`: every step of a call leaves it less to do, also the steps of a sort whose keys move; `CallsReturn` under fairness. |
| `pool_config` | All pairs of endpoints with plain, keyed, blank and malformed URLs, with every kind of auth, on all three ways, in all environments. `PoolIsRoutable`: what dispatch relies on. `KeysReachTheWire`: URL and headers are those written with each reference replaced once, also after failed attempts. `StartsIfInOrder`: the daemon refuses a file only for cause. `ListOrderKept`: lists, presets and `init` files dispatch in the order of the list. `TypeOK`: a failed expansion leaves every string in its place. |
| `daemon` | A batch with an invalid item in its midst and a single request, hang-ups, failing upstreams, drains between any two steps. `BatchInStep`, also of a client that left; `NoOutcomeLost`: recorded = in the window + drained + emitted + in hand; `SummariesSound` for every window that arises; `RequestsAnswered` and `OutcomesReported` under fairness. |

**Bounds.** `MaxTime`, `MaxReports`, `MaxCalls`, `Others` and the number of callers cap
what would be unbounded, each in a guard of an action. They are chosen so that the
interesting case happens with room to spare. Two callers are enough for every
interleaving of two accesses to one endpoint, which is all that a counter, a record or
a bucket can tell apart; two calls each let the second call see the records the first
ones left; three ticks let a cooldown of two start, be seen and end. Cooldowns start at
the first failure (`DemotionThreshold = 0`) in the pool runs, since thresholds are the
business of `endpoint_health`, where the threshold is 1 and a word has 2 bits, so that
the counter saturates and the shift overflows within five reports. Three endpoints make
two tiers of which one has peers. In `candidate_sort` three foreign requests suffice to
saturate any two of the capped endpoints, and a fourth endpoint lets a third one turn. Callers and threads are symmetric; the runs with
liveness use no symmetry. In `pool_config` two endpoints make every pair that can be
duplicates, before or after the expansion, and every order in which one string fails
before or after another; the three of `Prioritised` tell a stable sort from an unstable
one; the two variables may be unset, empty, white space, a key, or a value that itself looks
like a reference. In `daemon` two clients make two calls meet at one window, and with
`MaxPosts = 1` each posts once; the batch has an item before and one after the invalid
one. Two latencies and up to three samples tell a rounded rank from a truncated one.
`MaxRetries = 1` makes a refusal follow both from an exhausted budget and from a list of
excuses. The proofs of section 5 remove the bounds for every safety property.

**Fairness.** `FairSpec` assumes for each caller weak fairness of its own steps, which
the runtime gives: a task that is ready is polled again; and of `Answer`, which the
reqwest client's timeout gives (`src/transport.rs`). Nothing is assumed of `Begin`,
`Drop` or `Tick`: no caller must come, no deadline must strike. `WasmSpec` leaves out
`Answer`, since `fetch_transport.rs` has no deadline; under it `CallsReturn` fails, which
is how the run of `CallsReturn` shows that it depends on the transport's timeout.
`FairDaemonSpec` assumes the same of each handler and of the upstream's answer, and that
the flush task runs when its interval ticks (`src/main.rs:149-152`); not that a client
posts, stays or leaves. `CandidateSort` assumes that the
sorting thread, which never waits, goes on.

## 4. Where the documentation and the code differ

Each of these runs checks one sentence of the documentation, and TLC shows a behaviour
of the code that contradicts it.

| Run | Statement | What the code does |
|---|---|---|
| `demoted_at_threshold` | README.md:126, two failures demote | the cooldown starts with the third (`<=` at `src/health.rs:110`), as the comment at `src/health.rs:16` says |
| `saturated_last` | `src/pool/mod.rs:221-222`, saturated sorts behind | keys are re-read during the sort; a third counter that moves can leave a saturated candidate in front |
| `only_invalid_json_fails_over` | `src/pool/wire.rs:75-77` | `"result": null` fails over and demotes as well |
| `capabilities_are_methods` | README.md:159 and `examples/rpc-pool.toml:51`, capabilities are method names | serde knows the variants as `eth_get_logs`, `eth_block_number` and so on (`src/config.rs:311`); the sample file is refused |
| `rollup_off` | README.md:199, 0 disables the rollup | only the flush task is left out (`src/main.rs:136-144`); the window is filled by every request and never cleared |

Others were noticed while modelling and have no run, being matters of wording or plain from
one line of the code.

In the pool:

- `src/pool/mod.rs:5-6` skips endpoints in cooldown; availability is looked at once, when
  the candidates are listed, so one demoted since is still asked. `CoolingEndpointRests`
  says exactly which.
- `src/pool/mod.rs:560-562` has fetch aborted at the deadline; the wasm transport has no
  timer and no `AbortController`, as README.md:135 admits.
- `src/health.rs:18` calls `base_delay` the first gap, which is twice that.
- `src/config.rs:177-179` says retries where `src/pool/mod.rs:296` counts dispatches.
- README.md:125 calls a JSON-RPC error a valid answer, which holds of `forward` only
  (`src/pool/mod.rs:359`).
- `src/config.rs:108-110` lets a saturated endpoint get no new calls, although the cap is
  read before the guard is entered (`src/pool/mod.rs:319`) and concurrent calls overshoot it.
- `src/error.rs:8-10` does not list throttling among the causes of `NoCandidates`.

In the configuration:

- README.md:148 has every string templated; labels are not, and a pool built by
  `RpcPool::new` or from JavaScript expands nothing (`src/config.rs:85-86` says so): a
  `${KEY}` then goes out as text.
- A variable that is set but empty is accepted, and its key is empty on the wire, which is
  what `src/config.rs:53-54` wants to exclude for an unset one.
- `{ other = "eth_getLogs" }` is accepted as a capability and never matched, since
  `for_method` maps that method to its own variant.
- `bindings/wasm/src/lib.rs:34` rejects unknown JavaScript fields "loudly", without
  `deny_unknown_fields`.
- `peersFor` of the JavaScript module is "the bundled free-peer list"
  (`bindings/wasm/src/lib.rs:160`), but it returns the ranked list and not peers.
- `with_default_transport` ignores `request_timeout_ms`; and `src/pool/mod.rs:157` says
  that the daemon uses `from_config`, while `main.rs` calls `RpcPool::new`.

In the daemon:

- The 503 of `/health` needs an empty pool, which `validate` excludes.
- Endpoints with one label share a rollup window.
- The p95 of a window of up to eleven samples is its maximum, by the rounding of the rank.

## 5. The proofs

Every invariant and action property of the passing runs, and the refinement, is a theorem
for every value of the constants that satisfies the modules' named assumptions: any number
of endpoints and (finitely many) callers, any priorities, caps, rates, capabilities, retry
budgets and backoff policies, any replies, batches, labels and latencies, configurations
and strings of any length. Most assumptions only give types; these say something about
the code:

- `RoutingAssumption`: the entries are sorted by priority. `RpcPool::new` sorts, and that
  its order is one is itself a theorem (`Routable`).
- `DaemonAssumption`: there is an endpoint. `RpcPool::new` refuses an empty list.
- `PoolConfigAssumption`: an endpoint has as many strings as its kind of auth takes, and a
  configuration said to come from a list was made by one of the four functions that make
  one (`IsList`).

**`Induction`.** The library's induction theorems take the formula to prove as an operator,
which the provers cannot instantiate. Here induction is a fact about sets instead: a set of
numbers with 0 that is closed under successor holds them all (`InductiveSet`); a set of
finite sets that has T whenever it has all T \ {x} holds them all (`SubsetInduction`); every
non-empty set of numbers has a least element, every finite one a bound; and a first value
and a step define a function (`Recursion`). All come from one theorem of the library, that
a well-founded relation has minimal elements. On them rest all facts about folds and
recursive functions below.

**`ComponentTheorems`.** What the pool's theorems need of its parts. `Backoff`: the powers of
two double (`PowersOfTwo`), so a delay grows with the failures, is at least twice the base and
at most `MaxDelay`; a success makes an endpoint eligible, and eligibility is never lost
by waiting. `TokenBucket`: a refill never takes time back and adds at most the rate times the
time it moves. `Routing`: a step of the sort keeps the cursor inside the list, loses and
repeats no candidate, keeps the tiers apart but for what was saturated, and leaves less to do.

**`EndpointHealth_proofs`.** `TypeCorrect`, `CoolingDeserved`, `FailingRests`,
`BackoffLengthens`. The
properties relate the record to the history of all reports, so the invariant
(`HealthInv`) says how: the counter is at most the number of trailing failures
(`NotTooMany`), at least that number until it saturates (`NotTooFew`), and the record's
date is that of the last report, which is not in the future (`Dated`). `FailingRests` has
two hypotheses, `WordBits > 1` and `DemotionThreshold < MaxWord`: the counter has to be able
to pass the threshold and the shift to move. Both hold of words of 32 bits unless the
threshold is set to `u32::MAX`, with which no endpoint is ever demoted.

**`RateLimiter_proofs`.** `TypeCorrect`, `RateKept`, `AlwaysReopens`. The bound on a
window is inductive once the tokens still in the bucket are added to those granted:
grants + tokens are at most a burst plus the rate times the span of the *bucket's* time.
A stale reading refills nothing, so it leaves both sides alone.

**`CandidateSort_proofs`.** `TypeCorrect`, `TiersHold`, `SaturatedBehind`, `SortsThemAll`. A comparison
decides on a key read a step ago and on a load read now. `SortInv` therefore remembers that
the key held was true at some point of the sort (`LeftWasRead`) and that the auxiliary sets
have seen every load (`Seen`). For the order itself, `Inserted(sort, R)` says how far
the insertion has come with respect to a relation R: of the elements up to the cursor all
pairs are in R but those of the element being inserted with the ones it has yet to pass. It
is kept for two relations: the documented order, as long as nothing moved, and "not one
full throughout before one that never was", as long as no candidate turned.

**`RpcPool_proofs`.**

- `TypeCorrect` and `LoadIsExact`, from one inductive invariant, `IInv`: the types, the
  exactness of the in-flight counters, and for each caller what its position says of its
  indices (`CallOK`). The types alone are not inductive: a counter stays a natural
  number only because it is exact, and the candidate a call uses exists only because of
  where the call stands. A step moves one caller; one lemma per action says where to,
  and `OneMoved` turns that into the change of a cardinality.
- `CoolingRests`. The property speaks of *now*, so it is not inductive. `RestInv` is:
  every endpoint a call lists was eligible at the instant the call began, or has failed
  since. A failure dates itself no earlier than that instant, a success restores the
  endpoint, and nothing else touches the record. Eligibility at that instant carries
  over to now, because waiting never loses it.
- `ThrottleHolds`. `ThrottleInv` counts, besides the requests sent, the tokens granted
  to calls that have not sent theirs yet, and adds what is left in the bucket; a reading
  of the clock held at the limiter is never ahead of the clock. A token given to a call
  that then stops at its retry budget only helps the bound.
- `BooksBalance`, for one endpoint at a time: every action changes the sizes of the sets of
  awaiting and of returning callers, and the endpoint's counters, by the same amounts. That
  an answer is counted on the side its verdict says is where the two equations meet.
- `AsksOnce` and `ErrorsAreEarned`. Neither is inductive: nothing in them keeps a call from
  asking again an endpoint that has failed. `LedgerInv` does: at every step of a call the
  endpoints are divided between those not yet scanned, the candidates ahead (each once, the
  one in hand first), those that failed, and the three skip sets. Scanning moves an endpoint
  between the parts, the sort leaves the candidates as a set, every turn of the loop takes
  one from those ahead; when none is ahead, the parts that are left are the error's reason.
- `PrioritiesHold`. `TierInv` keeps the tiers on the whole list while it is being
  sorted, relative to the endpoints with a cap.
- `ReliableEndpointServes`. For one endpoint that always answers, `NeverSpoilt`: nobody
  has recorded a failure of it, so it is in no skip set and has failed no call; by the
  ledger it is then ahead of every call that has not ended, and no such call can give up.
- `ImplementsFailover`. The refinement, action by action: scanning an incapable or cooling
  endpoint and throttling are `Excuse`, `Dispatch` is `Ask`, `FailOver` is `Fail`,
  `ReturnAnswer` and `Drop` end the call, `GiveUp` is `Refuse`; the rest stutters. The
  guards of the abstract steps (the endpoint is untouched, nothing is left) come from the
  ledger.
- `CallsAdvance`, the part of termination that is not fairness. `CallWork` bounds the steps a
  call has left: a row of key readings for each element still to be inserted, five steps for
  each candidate whose turn is not over, and before that enough for any sort. A comparison
  ends an element's insertion or moves it one place, whatever the load it reads
  (`SortAdvances`), which is why no pattern of loads can keep the sort busy; that the list
  is no longer than the pool comes from the ledger, since the entries on it are different
  (`ListIsShort`). So a call of a pool of N endpoints takes at most 2N² + 6N + 1 steps.

**`Daemon_proofs`.** `TypeCorrect`, `BatchesInStep`, `OutcomesKept`, `SummariesAreSound`, over any pool that keeps
the promise of `FailoverCall`. `DaemonInv` adds where a handler stands: a call under way
belongs to the item in hand, which has a method (`OnItem`), and an outcome in hand to a call
that is asking, so that no reply is given before it is reported (`InHand`). That the
forwarded items are counted right after a hang-up needs the client's state in the count,
and that they are counted once needs the set of valid items to grow by exactly the item
replied to (`ItemReplied`). For `OutcomesKept` the summaries in the flush task's hands
belong to distinct labels (`FlushOK`), so the one emitted is the one that was taken.

`SummariesAreSound` needs one more invariant (`WindowsCounted`): a window has as many samples
as requests. The samples are summed by a fold, which takes them in an order that `CHOOSE`
picks. `SumIsFold` identifies it with a function on the subsets, and by induction over these
the order does not matter (`SumTakes`) and disjoint parts add up (`SumAdds`). The percentile is
a `CHOOSE` too: at each rank below the number of samples stands one, the least latency
by which the running count has passed the rank (`SomeSampleStands`). The rest is the
arithmetic of the two ranks (`Ranks`) and of what lies below and above a sample
(`SamplesSplit`).

**`PoolConfig_proofs`.** `TypeCorrect`, `Routable`, `KeysArrive`, `OrderlyStarts`, `ListsKeepOrder`,
from one inductive invariant, `Inv`. What a failed `resolve_env` leaves behind is a mixture
of written and expanded strings, and a caller may run it again. `StringsInv` says why this
does no harm where `KeysReachTheWire` claims so: each string is the one written or its
expansion, and an expansion is plain text if the values are (`ExpandIsText`), which a second
pass leaves alone; in the daemon there is no second pass over the same value (`DaemonInv`).
`DaemonInv` also keeps the reason of each refusal, which stays true when variables are set
later because an expandable string keeps its expansion (`ExpandStable`). The expansion is a
concatenation of pieces; `FlattenChain` gives its value piece by piece, on which the lemmas
about it go by induction. A pool's entries are the `EntryOrder` of its configuration
(`EntriesInv`): `MoreAreAhead` shows that an endpoint has more ahead of it than any
that precedes it, so the ranks are distinct, and being as many as the endpoints they are all
taken (`EntriesInOrder`).

**Model-checked only.** Liveness (`CallsReturn`, `SortEnds`, `RequestsAnswered`,
`OutcomesReported`): the prover handles neither fairness nor `ENABLED`. For `CallsReturn`,
`CallsAdvance` leaves to fairness only that a call which can go on does.

## 6. What is not modelled

- HTTP itself and TLS: a transport is its set of replies. The fetch transport is modelled
  by its missing deadline alone.
- The status snapshot, and `/health` and `/metrics`, which print it; they decide nothing.
- The text of logs and of errors. Which error comes first when several apply is modelled.
- `f64` rounding in the limiter, in `Duration` arithmetic and in the rank of a percentile.
- The command line; the parsing of `listen`, which comes after the pool is built and ends
  the process; the accept loop.
- TOML and JavaScript conversion beyond the names of capabilities; the URLs of the presets.
- The examples and benchmarks, which are programs on top of the pool.
- Relaxed atomics: the counters are single words, each access is one atomic step, and no
  decision relates two of them at one moment.
- Pools of more than 20 endpoints, which the standard library sorts by merging.
- A poisoned mutex: no code panics while holding one.
- The rollup of a library caller's own `Metrics`, which may be anything.

## 7. Plan

Done, in this order: health, limiter, wire, ordering, the pool, the abstract call, the
configuration, the rollup and the daemon; the proofs of section 5, which leave no invariant
to the runs alone. Next:

1. Action properties that tie a step to an earlier one: that an in-flight counter falls only
   when its own call lets go of it, that what was drained is emitted unchanged.
2. What liveness rests on in the daemon, as `CallsAdvance` does it for the pool: a measure
   that falls with every step of a handler and of the flush task.
3. The composition: that the entries of a pool made by `PoolConfig` satisfy the assumptions
   that `RpcPool` and `Daemon` make of their constants, as a theorem and not in prose.
