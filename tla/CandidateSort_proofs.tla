------------------------ MODULE CandidateSort_proofs ------------------------
(***************************************************************************)
(* What the sort of the candidates still promises while the loads move     *)
(* under it, proved for every pool and every number of other requests.     *)
(***************************************************************************)
EXTENDS CandidateSort, ComponentTheorems

(***************************************************************************)
(* The auxiliary sets have seen every endpoint, and the present loads.     *)
(***************************************************************************)
Seen ==
    /\ Full(load) \subseteq wasFull
    /\ Endpoints \ Full(load) \subseteq wasOpen

(***************************************************************************)
(* The key held by the sort is one of the element being inserted, read at  *)
(* some moment of the sort: saturated or not, it was that then, and it is  *)
(* the present key if no load has changed.                                 *)
(***************************************************************************)
LeftWasRead ==
    sort.left # NoKey =>
        LET d == sort.order[sort.hole]
        IN  \E n \in Nat :
                /\ sort.left = Key(d, n)
                /\ Saturated(d, n) => d \in wasFull
                /\ ~Saturated(d, n) => d \in wasOpen
                /\ changed = {} => n = load[d]

\* d may stand before e, unless d was saturated throughout and e never was.
Spared ==
    {p \in Endpoints \X Endpoints : ~(p[1] \notin wasOpen /\ p[2] \notin wasFull)}

\* d's key is the lesser one.
Documented ==
    {p \in Endpoints \X Endpoints : KeyLess(Key(p[1], load[p[1]]), Key(p[2], load[p[2]]))}

(***************************************************************************)
(* The inductive invariant.  The properties are about the order; what they *)
(* rest on is how far the insertion has come with it, and that the key the *)
(* sort holds was true when it was read.                                   *)
(***************************************************************************)
SortInv ==
    /\ TypeOK
    /\ CursorOK(sort) /\ AtEnd(sort) /\ Distinct(sort.order)
    /\ Seen /\ LeftWasRead
    /\ TiersKept(sort.order, wasFull)
    /\ Turned = {} => Inserted(sort, Spared)
    /\ changed = {} => Inserted(sort, Documented)

LEMMA InitSortInv == Init => SortInv
<1>. SUFFICES ASSUME Init PROVE SortInv
  OBVIOUS
<1>1. PICK q \in CandidateLists : sort = StartCursor(q)
  BY DEF Init
<1>2. q \in Seq(Endpoints) /\ Increasing(q)
  <2>1. PICK n \in 0 .. N : q \in [1 .. n -> Endpoints]
    BY <1>1 DEF CandidateLists
  <2>2. q \in Seq(Endpoints) /\ DOMAIN q = 1 .. Len(q)
    BY <2>1
  <2>. QED
    BY <1>1, <2>2 DEF CandidateLists, Increasing
<1>3. load \in [Endpoints -> Nat]
  <2>1. load \in [Endpoints -> 0 .. Others]
    BY DEF Init
  <2>. QED
    BY <2>1, CandidateSortAssumption
<1>4. TypeOK
  BY <1>1, <1>2, <1>3, StartCursorType DEF Init, TypeOK, Full
<1>5. CursorOK(sort) /\ AtEnd(sort) /\ sort.order = q /\ sort.left = NoKey
  BY <1>1, <1>2, StartCursorType, StartInserted
<1>6. Distinct(q) /\ TiersKept(q, wasFull)
  BY <1>2, IncreasingIsDistinct, IndexOrderKeepsTiers
<1>7. Seen /\ LeftWasRead
  BY <1>5 DEF Init, Seen, LeftWasRead
<1>8. Inserted(sort, Spared) /\ Inserted(sort, Documented)
  BY <1>1, <1>2, StartInserted
<1>. QED
  BY <1>4, <1>5, <1>6, <1>7, <1>8 DEF SortInv

\* What the invariant says of the candidates, taken out once.
LEMMA SortTypes ==
    ASSUME SortInv
    PROVE  /\ load \in [Endpoints -> Nat] /\ sort \in Cursors /\ CursorOK(sort)
           /\ sort.order \in Seq(Endpoints) /\ DOMAIN sort.order = 1 .. Len(sort.order)
           /\ wasFull \subseteq Endpoints /\ wasOpen \subseteq Endpoints
           /\ Turned = Elements(sort.order) \cap wasFull \cap wasOpen
<1>1. /\ load \in [Endpoints -> Nat] /\ sort \in Cursors /\ CursorOK(sort)
      /\ wasFull \subseteq Endpoints /\ wasOpen \subseteq Endpoints
  BY DEF SortInv, TypeOK
<1>2. sort.order \in Seq(Endpoints) /\ DOMAIN sort.order = 1 .. Len(sort.order)
  BY <1>1 DEF Cursors
<1>3. {sort.order[i] : i \in DOMAIN sort.order} = Elements(sort.order)
  BY <1>2 DEF Elements
<1>. QED
  BY <1>1, <1>2, <1>3 DEF Turned

\* A key is read: it says of its candidate what is the case now.
LEMMA ReadStep ==
    ASSUME SortInv, SortReads
    PROVE  SortInv'
<1>1. /\ load \in [Endpoints -> Nat] /\ sort \in Cursors /\ CursorOK(sort) /\ Sorting(sort)
      /\ sort' = ReadLeft(sort, load) /\ UNCHANGED <<load, changed, wasFull, wasOpen>>
  BY SortTypes DEF SortReads
<1>2. /\ sort' \in Cursors /\ CursorOK(sort') /\ AtEnd(sort')
      /\ sort'.order = sort.order /\ sort'.hole = sort.hole
      /\ sort'.left = Key(sort.order[sort.hole], load[sort.order[sort.hole]])
  BY <1>1, ReadLeftKeeps, ReadInserts DEF SortInv
<1>3. TypeOK'
  BY <1>1, <1>2 DEF SortInv, TypeOK
<1>4. Seen'
  BY <1>1 DEF SortInv, Seen, Full
<1>5. LeftWasRead'
  <2>. DEFINE d == sort.order[sort.hole]
  <2>1. sort.hole \in 1 .. Len(sort.order)
    BY <1>1 DEF CursorOK, Sorting, Cursors
  <2>2. d \in Endpoints
    BY <1>1, <2>1 DEF Cursors
  <2>3. load[d] \in Nat
    BY <1>1, <2>2
  <2>4. (Saturated(d, load[d]) => d \in wasFull) /\ (~Saturated(d, load[d]) => d \in wasOpen)
    BY <2>2 DEF SortInv, Seen, Full
  <2>. QED
    BY <1>1, <1>2, <2>3, <2>4 DEF LeftWasRead
<1>6. Distinct(sort'.order) /\ TiersKept(sort'.order, wasFull')
  BY <1>1, <1>2 DEF SortInv
<1>7. Turned' = {} => Inserted(sort', Spared')
  <2>1. Turned' = Turned /\ Spared' = Spared
    BY <1>1, <1>2 DEF Turned, Spared
  <2>. QED
    BY <1>1, <2>1, ReadInserts DEF SortInv
<1>8. changed' = {} => Inserted(sort', Documented')
  <2>1. Documented' = Documented
    BY <1>1 DEF Documented
  <2>. QED
    BY <1>1, <2>1, ReadInserts DEF SortInv
<1>. QED
  BY <1>2, <1>3, <1>4, <1>5, <1>6, <1>7, <1>8 DEF SortInv

\* Pairs of endpoints, and what it takes for one to be in a relation.
LEMMA PairsSpelled ==
    ASSUME NEW d \in Endpoints, NEW e \in Endpoints
    PROVE  /\ <<d, e>> \in Spared <=> d \in wasOpen \/ e \in wasFull
           /\ <<d, e>> \in Documented <=> KeyLess(Key(d, load[d]), Key(e, load[e]))
  BY DEF Spared, Documented

(***************************************************************************)
(* If no candidate was both saturated and not, the comparison agrees with  *)
(* what each of the two was throughout.                                    *)
(***************************************************************************)
LEMMA SparedCompared ==
    ASSUME SortInv, Sorting(sort), sort.left # NoKey, Turned = {}
    PROVE  Inserted(Compare(sort, load), Spared)
<1>. DEFINE o == sort.order
            d == sort.order[sort.hole]
            e == sort.order[sort.hole - 1]
<1>1. /\ load \in [Endpoints -> Nat] /\ sort \in Cursors /\ CursorOK(sort)
      /\ o \in Seq(Endpoints) /\ sort.hole \in 2 .. Len(o)
  BY SortTypes, CompareStep
<1>2. \A i \in 1 .. Len(o) : o[i] \in Endpoints /\ ~(o[i] \in wasFull /\ o[i] \in wasOpen)
  BY <1>1, SortTypes DEF Elements
<1>3. \A i, j, k \in 1 .. Len(o) :
        <<o[i], o[j]>> \in Spared /\ <<o[j], o[k]>> \in Spared => <<o[i], o[k]>> \in Spared
  BY <1>2, PairsSpelled
<1>4. d \in Endpoints /\ e \in Endpoints
  BY <1>1, <1>2
<1>5. PICK n \in Nat : /\ sort.left = Key(d, n)
                       /\ Saturated(d, n) => d \in wasFull
                       /\ ~Saturated(d, n) => d \in wasOpen
  BY DEF SortInv, LeftWasRead
<1>6. (Saturated(e, load[e]) => e \in wasFull) /\ (~Saturated(e, load[e]) => e \in wasOpen)
  BY <1>4 DEF SortInv, Seen, Full
<1>7. /\ Key(d, n)[1] = (IF Saturated(d, n) THEN 1 ELSE 0)
      /\ Key(e, load[e])[1] = (IF Saturated(e, load[e]) THEN 1 ELSE 0)
  BY DEF Key
<1>8. LeftIsLess(sort, load) <=> KeyLess(Key(d, n), Key(e, load[e]))
  BY <1>5 DEF LeftIsLess
<1>9. LeftIsLess(sort, load) => <<d, e>> \in Spared
  <2>1. KeyLess(Key(d, n), Key(e, load[e])) => ~(Saturated(d, n) /\ ~Saturated(e, load[e]))
    BY <1>7, KeyLessSpelled
  <2>. QED
    BY <1>4, <1>5, <1>6, <1>8, <2>1, PairsSpelled
<1>10. ~LeftIsLess(sort, load) => <<e, d>> \in Spared
  <2>1. ~KeyLess(Key(d, n), Key(e, load[e])) => ~(~Saturated(d, n) /\ Saturated(e, load[e]))
    BY <1>7, KeyLessSpelled
  <2>. QED
    BY <1>4, <1>5, <1>6, <1>8, <2>1, PairsSpelled
<1>11. Inserted(sort, Spared)
  BY DEF SortInv
<1>. QED
  BY <1>1, <1>3, <1>9, <1>10, <1>11, CompareInserts

\* If no load has changed, the comparison is the documented one.
LEMMA DocumentedCompared ==
    ASSUME SortInv, Sorting(sort), sort.left # NoKey, changed = {}
    PROVE  Inserted(Compare(sort, load), Documented)
<1>. DEFINE o == sort.order
            d == sort.order[sort.hole]
            e == sort.order[sort.hole - 1]
<1>1. /\ load \in [Endpoints -> Nat] /\ sort \in Cursors /\ CursorOK(sort)
      /\ o \in Seq(Endpoints) /\ sort.hole \in 2 .. Len(o)
  BY SortTypes, CompareStep
<1>2. \A i \in 1 .. Len(o) : o[i] \in Endpoints /\ load[o[i]] \in Nat
  BY <1>1
<1>3. \A i, j, k \in 1 .. Len(o) :
        <<o[i], o[j]>> \in Documented /\ <<o[j], o[k]>> \in Documented
           => <<o[i], o[k]>> \in Documented
  <2>1. ASSUME NEW a \in Endpoints, NEW b \in Endpoints, NEW c \in Endpoints,
               <<a, b>> \in Documented, <<b, c>> \in Documented
        PROVE  <<a, c>> \in Documented
    <3>1. load[a] \in Nat /\ load[b] \in Nat /\ load[c] \in Nat
      BY <1>1
    <3>2. KeyLess(Key(a, load[a]), Key(b, load[b])) /\ KeyLess(Key(b, load[b]), Key(c, load[c]))
      BY <2>1, PairsSpelled
    <3>3. KeyLess(Key(a, load[a]), Key(c, load[c]))
      BY <3>1, <3>2, KeyOrder
    <3>. QED
      BY <3>3, PairsSpelled
  <2>. QED
    BY <1>2, <2>1
<1>4. d \in Endpoints /\ e \in Endpoints /\ load[d] \in Nat /\ load[e] \in Nat
  BY <1>1, <1>2
<1>5. d # e
  <2>1. sort.hole \in 1 .. Len(o) /\ sort.hole - 1 \in 1 .. Len(o) /\ sort.hole # sort.hole - 1
    BY <1>1
  <2>. QED
    BY <2>1 DEF SortInv, Distinct
<1>6. sort.left = Key(d, load[d])
  BY DEF SortInv, LeftWasRead
<1>7. LeftIsLess(sort, load) => <<d, e>> \in Documented
  BY <1>4, <1>6, PairsSpelled DEF LeftIsLess
<1>8. ~LeftIsLess(sort, load) => <<e, d>> \in Documented
  BY <1>4, <1>5, <1>6, PairsSpelled, KeyOrder DEF LeftIsLess
<1>9. Inserted(sort, Documented)
  BY DEF SortInv
<1>. QED
  BY <1>1, <1>3, <1>7, <1>8, <1>9, CompareInserts

\* A comparison keeps the invariant: the key it was made with is forgotten.
LEMMA CompareStepInv ==
    ASSUME SortInv, SortCompares
    PROVE  SortInv'
<1>1. /\ load \in [Endpoints -> Nat] /\ sort \in Cursors /\ CursorOK(sort) /\ Sorting(sort)
      /\ sort.left # NoKey /\ sort' = Compare(sort, load)
      /\ UNCHANGED <<load, changed, wasFull, wasOpen>>
  BY SortTypes DEF SortCompares
<1>2. /\ sort' \in Cursors /\ CursorOK(sort') /\ sort'.left = NoKey
      /\ Len(sort'.order) = Len(sort.order) /\ Elements(sort'.order) = Elements(sort.order)
      /\ Distinct(sort'.order)
  BY <1>1, CompareKeeps, CompareStep, ComparePermutes DEF SortInv
<1>3. TypeOK'
  BY <1>1, <1>2 DEF SortInv, TypeOK
<1>4. Seen' /\ LeftWasRead'
  BY <1>1, <1>2 DEF SortInv, Seen, Full, LeftWasRead
<1>5. TiersKept(sort'.order, wasFull')
  <2>1. PICK n \in Nat : sort.left = Key(sort.order[sort.hole], n)
    BY <1>1 DEF SortInv, LeftWasRead
  <2>2. \A e \in Endpoints : Saturated(e, load[e]) => e \in wasFull
    BY DEF SortInv, Seen, Full
  <2>3. TiersKept(sort.order, wasFull)
    BY DEF SortInv
  <2>. QED
    BY <1>1, <2>1, <2>2, <2>3, CompareKeepsTiers
<1>6. Turned' = Turned
  <2>1. sort'.order \in Seq(Endpoints) /\ DOMAIN sort'.order = 1 .. Len(sort'.order)
    BY <1>2 DEF Cursors
  <2>2. {sort'.order[i] : i \in DOMAIN sort'.order} = Elements(sort'.order)
    BY <2>1 DEF Elements
  <2>. QED
    BY <1>1, <1>2, <2>2, SortTypes DEF Turned
<1>7. Spared' = Spared /\ Documented' = Documented
  BY <1>1 DEF Spared, Documented
<1>8. Turned' = {} => Inserted(sort', Spared')
  BY <1>1, <1>6, <1>7, SparedCompared
<1>9. changed' = {} => Inserted(sort', Documented')
  BY <1>1, <1>7, DocumentedCompared
<1>10. AtEnd(sort')
  <2>. DEFINE Any == Endpoints \X Endpoints
  <2>1. sort.order \in Seq(Endpoints) /\ sort.hole \in 2 .. Len(sort.order)
    BY <1>1, CompareStep DEF Cursors
  <2>2. \A i, j \in 1 .. Len(sort.order) : <<sort.order[i], sort.order[j]>> \in Any
    BY <2>1
  <2>3. sort.hole \in 1 .. Len(sort.order) /\ sort.hole - 1 \in 1 .. Len(sort.order)
    BY <2>1
  <2>. HIDE DEF Any
  <2>4. Inserted(sort, Any)
    BY <2>2 DEF Inserted
  <2>. QED
    BY <1>1, <2>2, <2>3, <2>4, CompareInserts
<1>. QED
  BY <1>2, <1>3, <1>4, <1>5, <1>8, <1>9, <1>10 DEF SortInv

(***************************************************************************)
(* Another call enters or leaves: more has been seen, so less is promised. *)
(***************************************************************************)
LEMMA ObserveStep ==
    ASSUME SortInv, NEW e \in Endpoints, Enter(e) \/ Leave(e)
    PROVE  SortInv'
<1>1. load' \in [Endpoints -> Nat]
  <2>1. load \in [Endpoints -> Nat] /\ load[e] \in Nat
    BY SortTypes
  <2>2. CASE Enter(e)
    BY <2>1, <2>2 DEF Enter
  <2>3. CASE Leave(e)
    BY <2>1, <2>3 DEF Leave
  <2>. QED
    BY <2>2, <2>3
<1>2. /\ Sorting(sort) /\ sort' = sort /\ changed' = changed \cup {e}
      /\ wasFull' = wasFull \cup Full(load') /\ wasOpen' = wasOpen \cup (Endpoints \ Full(load'))
  BY DEF Enter, Leave, Observe
<1>3. Full(load') \subseteq Endpoints
  BY DEF Full
<1>4. TypeOK'
  BY <1>1, <1>2, <1>3 DEF SortInv, TypeOK
<1>5. Seen'
  BY <1>2 DEF Seen, Full
<1>6. LeftWasRead'
  BY <1>2 DEF SortInv, LeftWasRead
<1>7. CursorOK(sort') /\ AtEnd(sort') /\ Distinct(sort'.order)
  BY <1>2 DEF SortInv
<1>8. TiersKept(sort'.order, wasFull')
  BY <1>2 DEF SortInv, TiersKept
<1>9. Turned' = {} => Inserted(sort', Spared')
  <2>1. Turned \subseteq Turned' /\ Spared \subseteq Spared'
    BY <1>2 DEF Turned, Spared
  <2>. QED
    BY <1>2, <2>1 DEF SortInv, Inserted
<1>10. changed' # {}
  BY <1>2
<1>. QED
  BY <1>4, <1>5, <1>6, <1>7, <1>8, <1>9, <1>10 DEF SortInv

LEMMA NextSortInv == SortInv /\ [Next]_vars => SortInv'
<1>. SUFFICES ASSUME SortInv, [Next]_vars PROVE SortInv'
  OBVIOUS
<1>1. CASE Sort
  BY <1>1, ReadStep, CompareStepInv DEF Sort
<1>2. ASSUME NEW e \in Endpoints, Enter(e) \/ Leave(e) PROVE SortInv'
  BY <1>2, ObserveStep
<1>3. CASE UNCHANGED vars
  BY <1>3 DEF SortInv, vars, TypeOK, Seen, LeftWasRead, Turned, Spared, Documented
<1>. QED
  BY <1>1, <1>2, <1>3 DEF Next, Sorted

LEMMA Invariance == Spec => []SortInv
  BY InitSortInv, NextSortInv, PTL DEF Spec

-----------------------------------------------------------------------------
(***************************************************************************)
(* The loads stay counts, the cursor stays inside the list.                *)
(***************************************************************************)
THEOREM TypeCorrect == Spec => []TypeOK
<1>1. SortInv => TypeOK
  BY DEF SortInv
<1>. QED
  BY <1>1, Invariance, PTL

\* Which of two candidates stands first, by their places.
LEMMA BeforeByPlace ==
    ASSUME SortInv, NEW d, NEW e, Before(d, e)
    PROVE  \E i, j \in 1 .. Len(sort.order) :
               i < j /\ sort.order[i] = d /\ sort.order[j] = e
  BY SortTypes DEF Before

(***************************************************************************)
(* Whatever the loads do between two comparisons, an endpoint of a worse   *)
(* priority is put before one of a better priority only if the better one  *)
(* was saturated at some point of the sort (mod.rs:215-224, 253-263).      *)
(***************************************************************************)
THEOREM TiersHold == Spec => []SpillOnlyPastFull
<1>1. ASSUME SortInv, NEW d \in Endpoints, NEW e \in Endpoints,
             Before(d, e), Priority[d] > Priority[e]
      PROVE  e \in wasFull
  <2>1. PICK i, j \in 1 .. Len(sort.order) :
            i < j /\ sort.order[i] = d /\ sort.order[j] = e
    BY <1>1, BeforeByPlace
  <2>. QED
    BY <1>1, <2>1 DEF SortInv, TiersKept
<1>2. SortInv => SpillOnlyPastFull
  BY <1>1 DEF SpillOnlyPastFull
<1>. QED
  BY <1>2, Invariance, PTL

(***************************************************************************)
(* A finished sort has put an endpoint that was saturated throughout       *)
(* before one that never was only if some candidate became saturated, or   *)
(* ceased to be, while it ran (mod.rs:221-222).                            *)
(***************************************************************************)
THEOREM SaturatedBehind == Spec => []SaturatedFirstOnlyIfOneTurned
<1>1. ASSUME SortInv, ~Sorting(sort), Turned = {},
             NEW d \in Endpoints \ wasOpen, NEW e \in Endpoints \ wasFull, Before(d, e)
      PROVE  FALSE
  <2>1. PICK i, j \in 1 .. Len(sort.order) :
            i < j /\ sort.order[i] = d /\ sort.order[j] = e
    BY <1>1, BeforeByPlace
  <2>2. InsertedAll(sort, Spared)
    BY <1>1, SortTypes, SortedIsInserted DEF SortInv
  <2>3. <<d, e>> \in Spared
    BY <2>1, <2>2 DEF InsertedAll
  <2>. QED
    BY <1>1, <2>3, PairsSpelled
<1>2. SortInv => SaturatedFirstOnlyIfOneTurned
  BY <1>1 DEF SaturatedFirstOnlyIfOneTurned
<1>. QED
  BY <1>2, Invariance, PTL

(***************************************************************************)
(* No candidate is lost or repeated at any moment of the sort, and without *)
(* a change of load the finished order is that of the keys                 *)
(* (mod.rs:253-263).                                                       *)
(***************************************************************************)
THEOREM SortsThemAll == Spec => []SortsAllCandidates
<1>1. ASSUME SortInv
      PROVE  IsInjective(sort.order)
  BY <1>1, SortTypes DEF SortInv, Distinct, IsInjective
<1>2. ASSUME SortInv, ~Sorting(sort), changed = {},
             NEW d \in Endpoints, NEW e \in Endpoints, Before(d, e)
      PROVE  KeyLess(Key(d, load[d]), Key(e, load[e]))
  <2>1. PICK i, j \in 1 .. Len(sort.order) :
            i < j /\ sort.order[i] = d /\ sort.order[j] = e
    BY <1>2, BeforeByPlace
  <2>2. InsertedAll(sort, Documented)
    BY <1>2, SortTypes, SortedIsInserted DEF SortInv
  <2>3. <<d, e>> \in Documented
    BY <2>1, <2>2 DEF InsertedAll
  <2>. QED
    BY <2>3, PairsSpelled
<1>3. SortInv => SortsAllCandidates
  BY <1>1, <1>2 DEF SortsAllCandidates
<1>. QED
  BY <1>3, Invariance, PTL
=============================================================================
