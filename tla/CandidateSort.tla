--------------------------- MODULE CandidateSort ---------------------------
(***************************************************************************)
(* One call sorts its candidates (src/pool/mod.rs:253-263) while the other *)
(* calls enter and leave endpoints, so that the keys change between two    *)
(* comparisons.  What does the resulting order still promise?              *)
(***************************************************************************)
EXTENDS Routing, FiniteSetsExt, Functions

CONSTANT Others   \* bound: requests other calls can have in flight at once

ASSUME CandidateSortAssumption == Others \in Nat

VARIABLES
    load,        \* PoolEntry.in_flight of every endpoint
    sort,        \* the sorting call's cursor
    changed,     \* auxiliary: endpoints whose load changed during the sort
    wasFull,     \* auxiliary: endpoints saturated at some point of the sort
    wasOpen      \* auxiliary: endpoints not saturated at some point of it

vars == <<load, sort, changed, wasFull, wasOpen>>

Full(l) == {e \in Endpoints : Saturated(e, l[e])}

\* The candidates are pushed in index order; which of the entries are
\* candidates depends on the method and on the cooldowns.
CandidateLists ==
    {s \in UNION {[1 .. n -> Endpoints] : n \in 0 .. N} :
        \A i, j \in DOMAIN s : i < j => s[i] < s[j]}

Init ==
    /\ load \in {l \in [Endpoints -> 0 .. Others] : MapThenSumSet(LAMBDA e : l[e], Endpoints) <= Others}
    /\ sort \in {StartCursor(s) : s \in CandidateLists}
    /\ changed = {}
    /\ wasFull = Full(load)
    /\ wasOpen = Endpoints \ Full(load)

SortReads ==
    /\ Sorting(sort) /\ sort.left = NoKey
    /\ sort' = ReadLeft(sort, load)
    /\ UNCHANGED <<load, changed, wasFull, wasOpen>>

SortCompares ==
    /\ Sorting(sort) /\ sort.left # NoKey
    /\ sort' = Compare(sort, load)
    /\ UNCHANGED <<load, changed, wasFull, wasOpen>>

Observe(e) ==
    /\ Sorting(sort)
    /\ changed' = changed \cup {e}
    /\ wasFull' = wasFull \cup Full(load')
    /\ wasOpen' = wasOpen \cup (Endpoints \ Full(load'))
    /\ UNCHANGED sort

\* InFlightGuard::enter of another call
Enter(e) ==
    /\ MapThenSumSet(LAMBDA d : load[d], Endpoints) < Others
    /\ load' = [load EXCEPT ![e] = @ + 1]
    /\ Observe(e)

\* Mutant: the guard is dropped twice.
LeaveTwice(e) ==
    /\ load[e] > 0
    /\ load' = [load EXCEPT ![e] = @ - 2]
    /\ Observe(e)

\* InFlightGuard::drop of another call
Leave(e) ==
    /\ load[e] > 0
    /\ load' = [load EXCEPT ![e] = @ - 1]
    /\ Observe(e)

Sort == SortReads \/ SortCompares

\* What happens to the loads after the sort is not looked at.
Sorted == ~Sorting(sort) /\ UNCHANGED vars

Next ==
    \/ Sort
    \/ \E e \in Endpoints : Enter(e) \/ Leave(e)
    \/ Sorted

\* The sort is a plain loop on the calling thread: it never waits.
Spec == Init /\ [][Next]_vars /\ WF_vars(Sort)

-----------------------------------------------------------------------------
\* Type invariant of the loads, the cursor and the auxiliary sets.
TypeOK ==
    /\ load \in [Endpoints -> Nat]
    /\ sort \in Cursors
    /\ changed \subseteq Endpoints
    /\ wasFull \subseteq Endpoints
    /\ wasOpen \subseteq Endpoints

Before(d, e) ==
    \E i, j \in DOMAIN sort.order : i < j /\ sort.order[i] = d /\ sort.order[j] = e

(***************************************************************************)
(* A worse tier comes first only for a reason (mod.rs:215-224): whatever   *)
(* the other calls do meanwhile, an endpoint of a worse priority stands    *)
(* before one of a better priority only if the better one was saturated at *)
(* some point of the sort.                                                 *)
(***************************************************************************)
SpillOnlyPastFull ==
    \A d, e \in Endpoints :
        Before(d, e) /\ Priority[d] > Priority[e] => e \in wasFull

(***************************************************************************)
(* What is left of "sorts behind every non-saturated candidate"            *)
(* (mod.rs:221-222) when loads move under the sort: an endpoint saturated  *)
(* throughout stands before one that never was only if a third candidate   *)
(* became saturated, or ceased to be, between two comparisons.  With two   *)
(* candidates the words hold.                                              *)
(***************************************************************************)
Turned == {sort.order[i] : i \in DOMAIN sort.order} \cap wasFull \cap wasOpen

SaturatedFirstOnlyIfOneTurned ==
    ~Sorting(sort) =>
        \A d \in Endpoints \ wasOpen, e \in Endpoints \ wasFull :
            Before(d, e) => Turned # {}

(***************************************************************************)
(* The order is a routing decision on all the candidates (mod.rs:253-263): *)
(* no moment of the sort repeats one (or, its length being fixed, loses    *)
(* one), and if no load changed meanwhile, the finished order is the       *)
(* documented one.                                                         *)
(***************************************************************************)
SortsAllCandidates ==
    /\ IsInjective(sort.order)
    /\ ~Sorting(sort) /\ changed = {} =>
          \A d, e \in Endpoints :
              Before(d, e) => KeyLess(Key(d, load[d]), Key(e, load[e]))

\* The sort ends however the loads move under it: no comparison is repeated.
SortEnds == <>[]~Sorting(sort)

-----------------------------------------------------------------------------
(***************************************************************************)
(* What mod.rs:221-222 says of a saturated endpoint: it "sorts behind      *)
(* every non-saturated candidate".  Two candidates whose loads did not     *)
(* change at all during the sort are ordered that way.                     *)
(***************************************************************************)
SaturatedLast ==
    ~Sorting(sort) =>
        \A d, e \in Endpoints \ changed :
            Before(d, e) => ~(Saturated(d, load[d]) /\ ~Saturated(e, load[e]))
=============================================================================
