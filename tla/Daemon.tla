------------------------------- MODULE Daemon -------------------------------
(***************************************************************************)
(* The proxy daemon (src/main.rs, src/proxy.rs) over the pool and the      *)
(* rollup metrics: each connection's handler forwards the items of a batch *)
(* one after the other and collects the replies, while a task drains the   *)
(* window of outcomes from time to time.  The pool is FailoverCall, which  *)
(* RpcPool implements.  A single request is a batch of one item.           *)
(***************************************************************************)
EXTENDS FailoverCall, Rollup, Sequences

CONSTANTS
    Batches,     \* Batches[c]: the batches client c may post, sequences of Item
    Label,       \* Label[e]: RpcEndpoint::tag, numbered in the labels' order
    FlushOn,     \* whether ROLLUP_WINDOW_S is positive
    MaxPosts     \* bound: requests posted by each client

\* What serde sees of one request: its id, "null" if it has none, and whether
\* it is an object with a method that is a string.
Item == [id: STRING, method: BOOLEAN]

ASSUME DaemonAssumption ==
    /\ IsFiniteSet(Callers)
    /\ Endpoints # {}      \* RpcPool::new refuses an empty pool
    /\ \A c \in Callers : Batches[c] \subseteq Seq(Item)
    /\ Label \in [Endpoints -> Nat]
    /\ FlushOn \in BOOLEAN
    /\ MaxPosts \in Nat

VARIABLES
    client,      \* "free", "handling" a request, or the client has "left"
    posted,      \* how many requests each client has posted
    batch,       \* the items of the current or latest request
    replies,     \* the replies collected for it
    forwarded,   \* auxiliary: how many of its items were given to the pool
    target,      \* the endpoint being asked
    verdict,     \* "none", or the outcome recorded by health and not yet by
    latency,     \*    the rollup: "ok" or "err", and its latency
    window,      \* RollupMetrics.inner, per label
    flushing,    \* the summaries drained and not yet emitted
    emitted,     \* per label, the requests of the summaries emitted
    recorded     \* per label, the outcomes recorded by health

handlerVars == <<client, posted, batch, replies, forwarded>>
answerVars  == <<target, verdict, latency>>
flushVars   == <<flushing, emitted>>
vars == <<callVars, handlerVars, answerVars, window, flushVars, recorded>>

Labels == {Label[e] : e \in Endpoints}

DaemonInit ==
    /\ Init
    /\ client = [c \in Callers |-> "free"]
    /\ posted = [c \in Callers |-> 0]
    /\ batch = [c \in Callers |-> <<>>]
    /\ replies = [c \in Callers |-> <<>>]
    /\ forwarded = [c \in Callers |-> 0]
    /\ target \in [Callers -> {CHOOSE e \in Endpoints : TRUE}]
    /\ verdict = [c \in Callers |-> "none"]
    /\ latency = [c \in Callers |-> 0]
    /\ window = [l \in Labels |-> EmptyWindow]
    /\ flushing = {}
    /\ emitted = [l \in Labels |-> 0]
    /\ recorded = [l \in Labels |-> 0]

-----------------------------------------------------------------------------
\* The handler: rpc_handler and handle_one.

HasItem(c) == client[c] = "handling" /\ Len(replies[c]) < Len(batch[c])
NextItem(c) == batch[c][Len(replies[c]) + 1]

\* The reply to the next item, with the id it came with.
Replies(c, code) ==
    replies' = [replies EXCEPT ![c] = Append(@, [id |-> NextItem(c).id, code |-> code])]

Post(c) ==
    /\ client[c] # "handling" /\ posted[c] < MaxPosts
    /\ client' = [client EXCEPT ![c] = "handling"]
    /\ posted' = [posted EXCEPT ![c] = @ + 1]
    /\ \E items \in Batches[c] : batch' = [batch EXCEPT ![c] = items]
    /\ replies' = [replies EXCEPT ![c] = <<>>]
    /\ forwarded' = [forwarded EXCEPT ![c] = 0]
    /\ UNCHANGED <<callVars, answerVars, window, flushVars, recorded>>

\* Invalid Request: missing method.
Invalid(c) ==
    /\ HasItem(c) /\ ~NextItem(c).method
    /\ Replies(c, "-32600")
    /\ UNCHANGED <<callVars, client, posted, batch, forwarded, answerVars,
                   window, flushVars, recorded>>

Forward(c) ==
    /\ HasItem(c) /\ NextItem(c).method
    /\ Begin(c)
    /\ forwarded' = [forwarded EXCEPT ![c] = @ + 1]
    /\ UNCHANGED <<client, posted, batch, replies, answerVars, window, flushVars, recorded>>

Respond(c) ==
    /\ client[c] = "handling" /\ Len(replies[c]) = Len(batch[c])
    /\ client' = [client EXCEPT ![c] = "free"]
    /\ UNCHANGED <<callVars, posted, batch, replies, forwarded, answerVars,
                   window, flushVars, recorded>>

\* The client hangs up while its handler awaits an upstream, and the handler's
\* future is dropped: the rest of the batch is never forwarded.
HangUp(c) ==
    /\ verdict[c] = "none"
    /\ Abandon(c)
    /\ client' = [client EXCEPT ![c] = "left"]
    /\ UNCHANGED <<posted, batch, replies, forwarded, answerVars, window, flushVars, recorded>>

-----------------------------------------------------------------------------
\* The pool's forward, and what it tells the rollup.

PassOver(c) ==
    /\ \E e \in Endpoints : Excuse(c, e)
    /\ UNCHANGED <<handlerVars, answerVars, window, flushVars, recorded>>

Dispatch(c) ==
    /\ \E e \in Endpoints : Ask(c, e) /\ target' = [target EXCEPT ![c] = e]
    /\ UNCHANGED <<handlerVars, verdict, latency, window, flushVars, recorded>>

\* The upstream's answer, or its failure, is recorded by the health record.
Arrive(c) ==
    /\ phase[c] = "asking" /\ verdict[c] = "none"
    /\ \E v \in {"ok", "err"} : verdict' = [verdict EXCEPT ![c] = v]
    /\ \E l \in Latencies : latency' = [latency EXCEPT ![c] = l]
    /\ recorded' = [recorded EXCEPT ![Label[target[c]]] = @ + 1]
    /\ UNCHANGED <<callVars, handlerVars, target, window, flushVars>>

\* Then by the rollup, under its own lock, and the call goes on.
Reports(c, w) ==
    /\ window' = [window EXCEPT ![Label[target[c]]] = w]
    /\ verdict' = [verdict EXCEPT ![c] = "none"]
    /\ latency' = [latency EXCEPT ![c] = 0]
    /\ UNCHANGED <<target, flushVars, recorded>>

Relay(c) ==
    /\ verdict[c] = "ok"
    /\ Reports(c, OnSuccess(window[Label[target[c]]], latency[c]))
    /\ \E how \in {"Result", "RpcError"} : Answer(c, how) /\ Replies(c, how)
    /\ UNCHANGED <<client, posted, batch, forwarded>>

FailOver(c) ==
    /\ verdict[c] = "err"
    /\ Reports(c, OnFailure(window[Label[target[c]]], latency[c]))
    /\ Fail(c)
    /\ UNCHANGED handlerVars

\* Mutant: pool errors take the branch of every other error.
PoolErrorCodeOther(how) == "-32603"

\* map_pool_error
PoolErrorCode(how) == IF how = "NoCandidates" THEN "-32011" ELSE "-32010"

\* Mutant: the item is forwarded again until an upstream answers.
GiveUpForwardsAgain(c) ==
    /\ Refuse(c)
    /\ UNCHANGED <<handlerVars, answerVars, window, flushVars, recorded>>

GiveUp(c) ==
    /\ Refuse(c)
    /\ Replies(c, PoolErrorCode(outcome'[c]))
    /\ UNCHANGED <<client, posted, batch, forwarded, answerVars, window, flushVars, recorded>>

-----------------------------------------------------------------------------
\* The flush task: it drains the window under the lock, then emits what it
\* took, in the order of the labels, while calls record into the new window.

Busy(l) == Requests(window[l]) > 0

\* Mutant: windows without a success count as without traffic.
DrainSuccesses ==
    /\ FlushOn /\ flushing = {} /\ \E l \in Labels : Busy(l)
    /\ flushing' = {EndpointRollup(l, window[l]) : l \in {k \in Labels : window[k].ok > 0}}
    /\ window' = [l \in Labels |-> EmptyWindow]
    /\ UNCHANGED <<callVars, handlerVars, answerVars, emitted, recorded>>

\* A tick of the interval.  (Draining empty windows changes nothing.)
Drain ==
    /\ FlushOn /\ flushing = {} /\ \E l \in Labels : Busy(l)
    /\ flushing' = {EndpointRollup(l, window[l]) : l \in {k \in Labels : Busy(k)}}
    /\ window' = [l \in Labels |-> EmptyWindow]
    /\ UNCHANGED <<callVars, handlerVars, answerVars, emitted, recorded>>

FirstOut(r) == \A s \in flushing : r.endpoint <= s.endpoint

\* Mutant: the window is cleared when its summary is out, not when it is taken.
EmitClears ==
    /\ \E r \in flushing :
          /\ FirstOut(r)
          /\ flushing' = flushing \ {r}
          /\ emitted' = [emitted EXCEPT ![r.endpoint] = @ + r.requests]
          /\ window' = [window EXCEPT ![r.endpoint] = EmptyWindow]
    /\ UNCHANGED <<callVars, handlerVars, answerVars, recorded>>

Emit ==
    /\ \E r \in flushing :
          /\ FirstOut(r)
          /\ flushing' = flushing \ {r}
          /\ emitted' = [emitted EXCEPT ![r.endpoint] = @ + r.requests]
    /\ UNCHANGED <<callVars, handlerVars, answerVars, window, recorded>>

\* Every client has had its requests, and nothing is left to report.
Stopped ==
    /\ \A c \in Callers : client[c] # "handling" /\ posted[c] = MaxPosts
    /\ flushing = {} /\ (FlushOn => \A l \in Labels : ~Busy(l))
    /\ UNCHANGED vars

\* The steps a handler takes by itself.
Proceed(c) ==
    \/ Invalid(c) \/ Forward(c) \/ Respond(c)
    \/ PassOver(c) \/ Dispatch(c) \/ Relay(c) \/ FailOver(c) \/ GiveUp(c)

DaemonNext ==
    \/ \E c \in Callers : Post(c) \/ Proceed(c) \/ Arrive(c) \/ HangUp(c)
    \/ Drain \/ Emit
    \/ Stopped

DaemonSpec == DaemonInit /\ [][DaemonNext]_vars

\* Mutant: nothing ends a request that an upstream does not answer.
UntimedDaemonSpec ==
    /\ DaemonSpec
    /\ \A c \in Callers : WF_vars(Proceed(c))
    /\ WF_vars(Drain) /\ WF_vars(Emit)

(***************************************************************************)
(* Handlers that can go on are polled, the transport ends every request    *)
(* and the interval ticks; that clients post or leave is not assumed.      *)
(***************************************************************************)
FairDaemonSpec ==
    /\ DaemonSpec
    /\ \A c \in Callers : WF_vars(Proceed(c)) /\ WF_vars(Arrive(c))
    /\ WF_vars(Drain) /\ WF_vars(Emit)

-----------------------------------------------------------------------------
Codes == {"Result", "RpcError", "-32600", "-32010", "-32011"}

Reply == [id: STRING, code: Codes]

\* Type invariant; no reply carries the code -32603 of an unforeseen error.
DaemonTypeOK ==
    /\ client \in [Callers -> {"free", "handling", "left"}]
    /\ posted \in [Callers -> 0 .. MaxPosts]
    /\ \A c \in Callers : batch[c] \in Batches[c] \cup {<<>>}
    /\ replies \in [Callers -> Seq(Reply)]
    /\ forwarded \in [Callers -> Nat]
    /\ target \in [Callers -> Endpoints]
    /\ verdict \in [Callers -> {"none", "ok", "err"}]
    /\ latency \in [Callers -> Latencies \cup {0}]
    /\ window \in [Labels -> Window]
    /\ emitted \in [Labels -> Nat]
    /\ recorded \in [Labels -> Nat]

(***************************************************************************)
(* A batch is worked off item by item (proxy.rs:41-45): the replies are    *)
(* those of a prefix of it, in order and with the clients' ids; the items  *)
(* with a method, and only they, were each given to the pool once; and     *)
(* nothing after the one in hand was, even if the client left.             *)
(***************************************************************************)
Valid(c, n) == {i \in 1 .. n : batch[c][i].method}

BatchInStep ==
    \A c \in Callers :
        /\ Len(replies[c]) <= Len(batch[c])
        /\ \A i \in DOMAIN replies[c] :
              /\ replies[c][i].id = batch[c][i].id
              /\ replies[c][i].code = "-32600" <=> ~batch[c][i].method
        /\ forwarded[c] = Cardinality(Valid(c, Len(replies[c])))
              + IF phase[c] # "idle" \/ client[c] = "left" THEN 1 ELSE 0

\* The requests of label l that were drained and are not yet out.
Drained(l) == {r \in flushing : r.endpoint = l}

Unreported(l) == {c \in Callers : verdict[c] # "none" /\ Label[target[c]] = l}

(***************************************************************************)
(* No outcome is lost or counted twice (rollup.rs:47-78, 108-120): what    *)
(* the health records of a label's endpoints have counted is in the        *)
(* window, drained, emitted, or about to be reported by a call, however    *)
(* the drains fall between a call's two records, and also when endpoints   *)
(* share a label.                                                          *)
(***************************************************************************)
NoOutcomeLost ==
    \A l \in Labels :
        /\ Cardinality(Drained(l)) <= 1
        /\ recorded[l] = Requests(window[l]) + emitted[l] + Cardinality(Unreported(l))
              + (IF Drained(l) = {} THEN 0 ELSE (CHOOSE r \in Drained(l) : TRUE).requests)

\* The summary that a drain would make of any window that arises is sound
\* (rollup.rs:59-67), and its samples are its requests.
SummariesSound ==
    \A l \in Labels : Busy(l) =>
        /\ SummarySound(window[l])
        /\ AtLeast(window[l], 0) = Requests(window[l])

\* Every request posted is answered or given up by its client (proxy.rs:36-50).
RequestsAnswered == \A c \in Callers : client[c] = "handling" ~> client[c] # "handling"

(***************************************************************************)
(* With the flush on, when the traffic stops every outcome comes out in    *)
(* some summary (main.rs:139-154): none stays behind in the window.        *)
(***************************************************************************)
OutcomesReported ==
    FlushOn /\ <>[](\A c \in Callers : client[c] # "handling")
        => <>[](\A l \in Labels : emitted[l] = recorded[l])

(***************************************************************************)
(* README.md:199: "set 0 to disable".  So with ROLLUP_WINDOW_S = 0 no      *)
(* outcome is kept for a summary that nobody will ever make.  (main.rs:136 *)
(* gives the pool its RollupMetrics all the same: see the run rollup_off.) *)
(***************************************************************************)
NothingKeptWhenOff == ~FlushOn => \A l \in Labels : ~Busy(l)
=============================================================================
