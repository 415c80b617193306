------------------------------ MODULE Routing ------------------------------
(***************************************************************************)
(* The routing policy: the sort key of a candidate and the insertion sort  *)
(* that orders the candidates by it (src/pool/mod.rs:230-265).  The key    *)
(* holds the endpoint's in-flight load, an atomic that other calls keep    *)
(* changing, and slice::sort_by_key evaluates the key closure anew at      *)
(* every comparison: the left key, then the right one.  So the sort is a   *)
(* sequence of steps on a cursor, not one function of the list.  The       *)
(* standard library sorts a slice of up to 20 elements by insertion from   *)
(* the tail; longer pools are outside this model.                          *)
(***************************************************************************)
EXTENDS Integers, Sequences

CONSTANTS
    N,          \* number of endpoints in the pool
    Priority,   \* Priority[e] = RpcEndpoint.priority
    Cap         \* Cap[e] = RpcEndpoint.max_in_flight, or Uncapped

Endpoints == 1 .. N

\* max_in_flight = None
Uncapped == -1

(***************************************************************************)
(* The entries are sorted by priority once, when the pool is built         *)
(* (mod.rs:112-116), so indices never decrease in priority.                *)
(***************************************************************************)
ASSUME RoutingAssumption ==
    /\ N \in Nat \ {0}
    /\ Priority \in [Endpoints -> Nat]
    /\ Cap \in [Endpoints -> Nat \cup {Uncapped}]
    /\ \A d, e \in Endpoints : d <= e => Priority[d] <= Priority[e]

Saturated(e, load) == Cap[e] # Uncapped /\ load >= Cap[e]

\* Mutant: the priority is left out of the key.
KeyWithoutPriority(e, load) ==
    <<IF Saturated(e, load) THEN 1 ELSE 0, 0, load, e>>

\* Mutant: a better tier first, whether it is full or not.
KeyTierFirst(e, load) ==
    <<Priority[e], IF Saturated(e, load) THEN 1 ELSE 0, load, e>>

\* (saturated, priority, load, i), false before true
Key(e, load) ==
    <<IF Saturated(e, load) THEN 1 ELSE 0, Priority[e], load, e>>

Keys == {0, 1} \X Nat \X Nat \X Endpoints

\* The lexicographic order of tuples.
KeyLess(k, l) ==
    \E i \in 1 .. 4 : k[i] < l[i] /\ \A j \in 1 .. (i - 1) : k[j] = l[j]

-----------------------------------------------------------------------------
(***************************************************************************)
(* The cursor of one running sort: elements before `at' are in place, the  *)
(* one being inserted stands at `hole', and `left' is its key once read.   *)
(***************************************************************************)
NoKey == <<>>

Cursors == [order: Seq(Endpoints), at: Nat, hole: Nat, left: Keys \cup {NoKey}]

StartCursor(candidates) == [order |-> candidates, at |-> 2, hole |-> 2, left |-> NoKey]

Sorting(s) == s.at <= Len(s.order)

\* The key closure on the left operand of a comparison.
ReadLeft(s, load) ==
    [s EXCEPT !.left = Key(s.order[s.hole], load[s.order[s.hole]])]

\* The key closure on the right operand, and the comparison itself.
LeftIsLess(s, load) ==
    KeyLess(s.left, Key(s.order[s.hole - 1], load[s.order[s.hole - 1]]))

\* Mutant: the moved element overwrites its neighbour.
ShiftLossy(order, hole) == [order EXCEPT ![hole - 1] = order[hole]]

Shift(order, hole) ==
    [order EXCEPT ![hole] = order[hole - 1], ![hole - 1] = order[hole]]

\* The next element to insert.
NextElement(s) == [s EXCEPT !.at = @ + 1, !.hole = s.at + 1, !.left = NoKey]

\* Mutant: the insertion stops after one place.
CompareOnce(s, load) ==
    IF LeftIsLess(s, load)
    THEN NextElement([s EXCEPT !.order = Shift(@, s.hole)])
    ELSE NextElement(s)

\* Mutant: a move makes the whole sort start over.
CompareRestarts(s, load) ==
    IF LeftIsLess(s, load)
    THEN StartCursor(Shift(s.order, s.hole))
    ELSE NextElement(s)

Compare(s, load) ==
    LET moved == [s EXCEPT !.order = Shift(@, s.hole), !.hole = @ - 1, !.left = NoKey]
    IN  IF ~LeftIsLess(s, load) THEN NextElement(s)
        ELSE IF s.hole = 2 THEN NextElement(moved)
        ELSE moved

\* How many readings of a key the sort has left at most.
SortWork(s) ==
    IF ~Sorting(s) THEN 0
    ELSE 2 * Len(s.order) * (Len(s.order) + 1 - s.at) + 2 * (s.hole - 1)
           - (IF s.left = NoKey THEN 0 ELSE 1)
=============================================================================
