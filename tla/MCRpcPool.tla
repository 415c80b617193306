----------------------------- MODULE MCRpcPool -----------------------------
(***************************************************************************)
(* Small pools for TLC.                                                    *)
(***************************************************************************)
EXTENDS DocClaims, RpcPoolRefinement, TLC

Symmetric == Permutations(Callers)

\* What upstreams say.
Answers(error, result) ==
    [delivered |-> TRUE, body |-> [json |-> TRUE, error |-> error, result |-> result]]

Unreachable ==
    [delivered |-> FALSE, body |-> [json |-> FALSE, error |-> "absent", result |-> "absent"]]

Good     == Answers("absent", "value")
Reverted == Answers("envelope", "absent")
NullBody == Answers("null", "null")
Garbage  == [Unreachable EXCEPT !.delivered = TRUE]

\* A capped primary and a peer behind it.
PairPriority == <<0, 1>>
PairCap      == <<1, Uncapped>>
PairServes   == <<Methods, Methods>>
PairRps      == <<Unthrottled, Unthrottled>>
NullPair     == <<{Good, NullBody}, {Good, NullBody}>>

\* The primary is throttled and may fail; the endpoint behind it always
\* answers, but serves one method only.
BackedRps    == <<1, Unthrottled>>
BackedServes == <<Methods, {CHOOSE m \in Methods : TRUE}>>
BackedPair   == <<{Good, Unreachable}, {Good}>>

\* Three endpoints, a capped and an uncapped peer and a worse tier: a throttled
\* one, one that serves a single method, and a last resort; their upstreams
\* give every kind of answer.
TrioPriority == <<0, 0, 1>>
TrioCap      == <<1, Uncapped, 1>>
MixedServes == <<Methods, {CHOOSE m \in Methods : TRUE}, Methods>>
MixedRps    == <<1, Unthrottled, Unthrottled>>
MixedTrio   == <<{Good, Unreachable}, {Good, Reverted}, {Good, Garbage}>>
=============================================================================
