--------------------------- MODULE RpcPool_proofs ---------------------------
(***************************************************************************)
(* Safety of the pool, for every number of endpoints and callers, every    *)
(* policy and every behaviour of the upstreams.                            *)
(***************************************************************************)
EXTENDS RpcPoolRefinement, ComponentTheorems, FiniteSetTheorems

(***************************************************************************)
(* What the locals r of a call satisfy at place p: the indices it is about *)
(* to use are inside the lists they index.                                 *)
(***************************************************************************)
CallOK(r, p) ==
    /\ CursorOK(r.sort)
    /\ r.next >= 1
    /\ p = "scan" => r.scan \in Endpoints /\ r.sort.at = 2
    /\ p = "sort" => Sorting(r.sort)
    /\ p \in {"throttle", "admitted", "await", "leave"} => r.next <= Len(r.sort.order)
    /\ p = "throttle" => Limited(r.sort.order[r.next])

(***************************************************************************)
(* The inductive invariant.  TypeOK alone is not inductive: the in-flight  *)
(* counter stays a natural number only because it is exact, and an index   *)
(* stays inside its list only because of where the call stands.            *)
(***************************************************************************)
IInv ==
    /\ TypeOK
    /\ \A c \in Callers : CallOK(call[c], pc[c])
    /\ InFlightExact

\* The step makes r the locals of c and p its place.
Moves(c, r, p) ==
    /\ r \in Call /\ p \in Places /\ CallOK(r, p)
    /\ call' = [call EXCEPT ![c] = r]
    /\ pc' = [pc EXCEPT ![c] = p]

\* A call at place p with locals r holds the in-flight guard of e.
Holds(r, p, e) == p \in {"await", "leave"} /\ r.sort.order[r.next] = e

-----------------------------------------------------------------------------
LEMMA MovesType ==
    ASSUME IInv, NEW c \in Callers, NEW r, NEW p, Moves(c, r, p)
    PROVE  /\ call' \in [Callers -> Call]
           /\ pc' \in [Callers -> Places]
           /\ call'[c] = r /\ pc'[c] = p
           /\ \A d \in Callers \ {c} : call'[d] = call[d] /\ pc'[d] = pc[d]
           /\ \A d \in Callers : CallOK(call'[d], pc'[d])
<1>1. /\ call \in [Callers -> Call]
      /\ pc \in [Callers -> Places]
      /\ \A d \in Callers : CallOK(call[d], pc[d])
  BY DEF IInv, TypeOK
<1>2. /\ call' \in [Callers -> Call]
      /\ pc' \in [Callers -> Places]
      /\ call'[c] = r /\ pc'[c] = p
      /\ \A d \in Callers \ {c} : call'[d] = call[d] /\ pc'[d] = pc[d]
  BY <1>1 DEF Moves
<1>. QED
  BY <1>1, <1>2 DEF Moves

\* What one caller adds to a count.
One(b) == IF b THEN 1 ELSE 0

\* When only c may enter or leave a set, its size changes by c's share.
LEMMA OneMoved ==
    ASSUME NEW S, IsFiniteSet(S), NEW T, NEW c, T \ {c} = S \ {c}
    PROVE  /\ Cardinality(S) \in Nat /\ Cardinality(T) \in Nat
           /\ Cardinality(T) + One(c \in S) = Cardinality(S) + One(c \in T)
<1>. DEFINE R == S \ {c}
<1>1. IsFiniteSet(R) /\ Cardinality(R) \in Nat /\ c \notin R
  BY FS_Subset, FS_CardinalityType
<1>2. IsFiniteSet(R \cup {c}) /\ Cardinality(R \cup {c}) = Cardinality(R) + 1
  BY <1>1, FS_AddElement
<1>3. ASSUME NEW Q, Q \ {c} = R
      PROVE  Cardinality(Q) = Cardinality(R) + One(c \in Q)
  <2>1. CASE c \in Q
    <3>1. Q = R \cup {c} /\ One(c \in Q) = 1
      BY <1>3, <2>1 DEF One
    <3>. QED
      BY <3>1, <1>2
  <2>2. CASE c \notin Q
    <3>1. Q = R /\ One(c \in Q) = 0
      BY <1>3, <2>2 DEF One
    <3>. QED
      BY <3>1, <1>1
  <2>. QED
    BY <2>1, <2>2
<1>4. /\ Cardinality(S) = Cardinality(R) + One(c \in S)
      /\ Cardinality(T) = Cardinality(R) + One(c \in T)
  BY <1>3
<1>5. One(c \in S) \in {0, 1} /\ One(c \in T) \in {0, 1}
  BY DEF One
<1>. HIDE DEF R
<1>. QED
  BY <1>1, <1>4, <1>5

\* The number of guard holders changes by what the moving caller does.
LEMMA HoldingStep ==
    ASSUME IInv, NEW c \in Callers, NEW r, NEW p, Moves(c, r, p), NEW e
    PROVE  /\ Cardinality(Holding(e)) \in Nat /\ Cardinality(Holding(e)') \in Nat
           /\ Cardinality(Holding(e)') + One(Holds(call[c], pc[c], e))
                = Cardinality(Holding(e)) + One(Holds(r, p, e))
<1>1. /\ Holding(e) = {d \in Callers : Holds(call[d], pc[d], e)}
      /\ Holding(e)' = {d \in Callers : Holds(call'[d], pc'[d], e)}
  BY DEF Holding, Holds, Target, Candidates
<1>2. IsFiniteSet(Holding(e))
  BY <1>1, RpcPoolAssumption, FS_Subset
<1>3. Holding(e)' \ {c} = Holding(e) \ {c}
  BY <1>1, MovesType
<1>4. /\ c \in Holding(e) <=> Holds(call[c], pc[c], e)
      /\ c \in Holding(e)' <=> Holds(r, p, e)
  BY <1>1, MovesType
<1>. QED
  BY <1>2, <1>3, <1>4, OneMoved DEF One

(***************************************************************************)
(* The counters stay exact when each changes by what the moving caller     *)
(* does to the number of its holders.                                      *)
(***************************************************************************)
LEMMA GuardsMatch ==
    ASSUME IInv, NEW c \in Callers, NEW r, NEW p, Moves(c, r, p),
           inFlight' \in [Endpoints -> Int],
           \A e \in Endpoints : inFlight'[e] + One(Holds(call[c], pc[c], e))
                                   = inFlight[e] + One(Holds(r, p, e))
    PROVE  InFlightExact' /\ inFlight' \in [Endpoints -> Nat]
<1>1. ASSUME NEW e \in Endpoints
      PROVE  inFlight'[e] = Cardinality(Holding(e)') /\ inFlight'[e] \in Nat
  <2>1. inFlight[e] = Cardinality(Holding(e))
    BY DEF IInv, InFlightExact
  <2>. QED
    BY <2>1, HoldingStep DEF One
<1>. QED
  BY <1>1 DEF InFlightExact

-----------------------------------------------------------------------------
\* The types in use at every step, taken out of the invariant once.
LEMMA Types ==
    ASSUME IInv, NEW c \in Callers
    PROVE  /\ call[c] \in Call /\ pc[c] \in Places /\ CallOK(call[c], pc[c])
           /\ call[c].sort \in Cursors /\ CursorOK(call[c].sort)
           /\ Candidates(c) \in Seq(Endpoints)
           /\ Len(Candidates(c)) \in Nat
           /\ call[c].scan \in Nat /\ call[c].next \in Nat \ {0}
           /\ call[c].tried \in Nat /\ call[c].asked \in Nat /\ call[c].now \in Nat
           /\ clock \in Nat
<1>1. call[c] \in Call /\ pc[c] \in Places /\ CallOK(call[c], pc[c]) /\ clock \in Nat
  BY DEF IInv, TypeOK
<1>2. /\ call[c].sort \in Cursors
      /\ call[c].scan \in Nat /\ call[c].next \in Nat
      /\ call[c].tried \in Nat /\ call[c].asked \in Nat /\ call[c].now \in Nat
  BY <1>1 DEF Call
<1>3. CursorOK(call[c].sort) /\ call[c].next >= 1
  BY <1>1 DEF CallOK
<1>4. Candidates(c) \in Seq(Endpoints)
  BY <1>2 DEF Candidates, Cursors
<1>. QED
  BY <1>1, <1>2, <1>3, <1>4

\* Where the next candidate is used, it is one of the endpoints.
LEMMA TargetType ==
    ASSUME IInv, NEW c \in Callers, call[c].next <= Len(Candidates(c))
    PROVE  Target(c) \in Endpoints
<1>1. Candidates(c) \in Seq(Endpoints) /\ call[c].next \in 1 .. Len(Candidates(c))
  BY Types
<1>. QED
  BY <1>1 DEF Target

LEMMA FreshCallType ==
    ASSUME NEW mode \in {"call", "forward"}, NEW method \in Methods, NEW now \in Nat
    PROVE  /\ FreshCall(mode, method, now) \in Call
           /\ FreshCall(mode, method, now).now = now
           /\ FreshCall(mode, method, now).sort.order = <<>>
           /\ CallOK(FreshCall(mode, method, now), "scan")
           /\ CallOK(FreshCall(mode, method, now), "idle")
<1>1. <<>> \in Seq(Endpoints) /\ 1 \in Endpoints
  BY RoutingAssumption DEF Endpoints
<1>2. StartCursor(<<>>) \in Cursors /\ CursorOK(StartCursor(<<>>))
  BY <1>1, StartCursorType
<1>3. StartCursor(<<>>).at = 2 /\ StartCursor(<<>>).order = <<>>
  BY DEF StartCursor
<1>. QED
  BY <1>1, <1>2, <1>3 DEF FreshCall, Call, CallOK, Verdicts, Outcomes

LEMMA InitIInv == Init => IInv
<1>. SUFFICES ASSUME Init PROVE IInv
  OBVIOUS
<1>1. TypeOK
  <2>1. \A e \in Endpoints : FullBucket(IF Limited(e) THEN Rps[e] ELSE 0, 0) \in Bucket
    <3>1. \A e \in Endpoints : (IF Limited(e) THEN Rps[e] ELSE 0) \in Nat
      BY RpcPoolAssumption DEF Limited
    <3>. QED
      BY <3>1, RateType DEF FullBucket, Bucket
  <2>2. FreshHealth \in Health
    BY DEF FreshHealth, Health
  <2>3. (CHOOSE m \in Methods : TRUE) \in Methods
    BY RpcPoolAssumption
  <2>4. FreshCall("call", CHOOSE m \in Methods : TRUE, 0) \in Call
    BY <2>3, FreshCallType
  <2>. QED
    BY <2>1, <2>2, <2>4 DEF Init, TypeOK, Places
<1>2. \A c \in Callers : CallOK(call[c], pc[c])
  <2>1. (CHOOSE m \in Methods : TRUE) \in Methods
    BY RpcPoolAssumption
  <2>. QED
    BY <2>1, FreshCallType DEF Init
<1>3. InFlightExact
  <2>1. \A e \in Endpoints : Holding(e) = {}
    BY DEF Init, Holding
  <2>. QED
    BY <2>1, FS_EmptySet DEF Init, InFlightExact
<1>. QED
  BY <1>1, <1>2, <1>3 DEF IInv

-----------------------------------------------------------------------------
(***************************************************************************)
(* One lemma per group of actions: the step moves one caller to a place    *)
(* where its indices are right.                                            *)
(***************************************************************************)
LEMMA BeginMoves ==
    ASSUME IInv, NEW c \in Callers, Begin(c)
    PROVE  \E r : Moves(c, r, "scan") /\ r.now = clock /\ r.sort.order = <<>>
<1>1. PICK mode \in Modes, method \in Methods :
        call' = [call EXCEPT ![c] = FreshCall(mode, method, clock)]
  BY DEF Begin
<1>2. mode \in {"call", "forward"} /\ clock \in Nat
  BY RpcPoolAssumption, Types
<1>3. Moves(c, FreshCall(mode, method, clock), "scan")
  BY <1>1, <1>2, FreshCallType DEF Begin, Moves, Places
<1>. QED
  BY <1>2, <1>3, FreshCallType

LEMMA ScannedMoves ==
    ASSUME IInv, NEW c \in Callers, pc[c] = "scan",
           NEW r \in Call, Scanned(c, r),
           CursorOK(r.sort), r.sort.at = 2, r.next >= 1, r.scan = call[c].scan
    PROVE  \E p : /\ Moves(c, [r EXCEPT !.scan = @ + 1], p)
                  /\ p \in {"scan", "sort", "next"}
<1>. DEFINE p == IF r.scan < N THEN "scan" ELSE Phase(r.sort)
<1>1. r.scan \in Endpoints /\ r.scan \in Nat
  BY Types DEF CallOK, Endpoints
<1>2. PICK k \in Nat : k = r.scan + 1
  BY <1>1
<1>. DEFINE s == [r EXCEPT !.scan = k]
<1>3. s = [r EXCEPT !.scan = @ + 1]
  BY <1>2
<1>4. s \in Call /\ s.sort = r.sort /\ s.next = r.next /\ s.scan = k
  BY DEF Call
<1>5. p = "scan" => k \in Endpoints
  BY <1>1, <1>2, RoutingAssumption DEF Endpoints, Phase
<1>6. p \in {"scan", "sort", "next"} /\ (p = "sort" => Sorting(r.sort))
  BY DEF Phase
<1>7. call' = [call EXCEPT ![c] = s] /\ pc' = [pc EXCEPT ![c] = p]
  BY <1>3 DEF Scanned
<1>. HIDE DEF p, s
<1>8. Moves(c, s, p)
  BY <1>4, <1>5, <1>6, <1>7 DEF Moves, CallOK, Places
<1>. QED
  BY <1>3, <1>6, <1>8

LEMMA SkipMoves ==
    ASSUME IInv, NEW c \in Callers, SkipIncapable(c) \/ SkipCooling(c)
    PROVE  \E r, p : /\ Moves(c, r, p) /\ p \in {"scan", "sort", "next"}
                     /\ r.sort = call[c].sort /\ r.now = call[c].now
<1>. DEFINE e == call[c].scan
<1>1. /\ pc[c] = "scan" /\ e \in Endpoints /\ call[c] \in Call
      /\ CursorOK(call[c].sort) /\ call[c].sort.at = 2 /\ call[c].next >= 1
  BY Types DEF SkipIncapable, SkipCooling, CallOK
<1>2. PICK r \in Call :
        /\ Scanned(c, r)
        /\ r.sort = call[c].sort /\ r.next = call[c].next
        /\ r.scan = call[c].scan /\ r.now = call[c].now
  <2>1. CASE SkipIncapable(c)
    <3>. DEFINE r == [call[c] EXCEPT !.incapable = @ \cup {e}]
    <3>1. r \in Call /\ r.sort = call[c].sort /\ r.next = call[c].next
          /\ r.scan = call[c].scan /\ r.now = call[c].now
      BY <1>1 DEF Call
    <3>. QED
      BY <2>1, <3>1 DEF SkipIncapable
  <2>2. CASE SkipCooling(c)
    <3>. DEFINE r == [call[c] EXCEPT !.cooling = @ \cup {e}]
    <3>1. r \in Call /\ r.sort = call[c].sort /\ r.next = call[c].next
          /\ r.scan = call[c].scan /\ r.now = call[c].now
      BY <1>1 DEF Call
    <3>. QED
      BY <2>2, <3>1 DEF SkipCooling
  <2>. QED
    BY <2>1, <2>2
<1>3. [r EXCEPT !.scan = @ + 1].sort = r.sort /\ [r EXCEPT !.scan = @ + 1].now = r.now
  BY DEF Call
<1>. QED
  BY <1>1, <1>2, <1>3, ScannedMoves

LEMMA AdmitMoves ==
    ASSUME IInv, NEW c \in Callers, Admit(c)
    PROVE  /\ call[c].scan \in Endpoints
           /\ \E r, p : /\ Moves(c, r, p) /\ p \in {"scan", "sort", "next"}
                        /\ r.sort.order = Append(Candidates(c), call[c].scan)
                        /\ r.now = call[c].now
<1>. DEFINE e == call[c].scan
<1>1. /\ pc[c] = "scan" /\ e \in Endpoints /\ call[c] \in Call
      /\ call[c].sort \in Cursors /\ CursorOK(call[c].sort)
      /\ call[c].sort.at = 2 /\ call[c].next >= 1
      /\ Candidates(c) \in Seq(Endpoints)
  BY Types DEF Admit, CallOK
<1>2. PICK order \in Seq(Endpoints) : order = Append(Candidates(c), e)
  <2>1. \A q \in Seq(Endpoints), d \in Endpoints : Append(q, d) \in Seq(Endpoints)
    OBVIOUS
  <2>. QED
    BY <1>1, <2>1
<1>. DEFINE s == [call[c].sort EXCEPT !.order = order]
            r == [call[c] EXCEPT !.sort = s]
<1>3. s \in Cursors /\ CursorOK(s) /\ s.order = order /\ s.at = 2
  BY <1>1 DEF Cursors, CursorOK
<1>4. r \in Call /\ r.sort = s /\ r.next = call[c].next
      /\ r.scan = e /\ r.now = call[c].now
  BY <1>1, <1>3 DEF Call
<1>5. Scanned(c, r)
  BY <1>2 DEF Admit, Candidates
<1>6. [r EXCEPT !.scan = @ + 1].sort = r.sort /\ [r EXCEPT !.scan = @ + 1].now = r.now
  BY <1>4 DEF Call
<1>. HIDE DEF r, s
<1>. QED
  BY <1>1, <1>2, <1>3, <1>4, <1>5, <1>6, ScannedMoves

LEMMA SortMoves ==
    ASSUME IInv, NEW c \in Callers, SortReads(c) \/ SortCompares(c)
    PROVE  \E r, p : /\ Moves(c, r, p) /\ p \in {"sort", "next"}
                     /\ SameCandidates(call[c].sort, r.sort)
                     /\ r.now = call[c].now
<1>1. /\ pc[c] = "sort" /\ Sorting(call[c].sort) /\ call[c] \in Call
      /\ call[c].sort \in Cursors /\ CursorOK(call[c].sort) /\ call[c].next >= 1
      /\ inFlight \in [Endpoints -> Nat]
  BY Types DEF SortReads, SortCompares, Sorts, CallOK, IInv, TypeOK
<1>2. PICK s \in Cursors :
        CursorOK(s) /\ SameCandidates(call[c].sort, s) /\ Sorts(c, s)
  <2>1. CASE SortReads(c)
    BY <1>1, <2>1, ReadLeftKeeps DEF SortReads, SameCandidates
  <2>2. CASE SortCompares(c)
    BY <1>1, <2>2, CompareKeeps DEF SortCompares
  <2>. QED
    BY <2>1, <2>2
<1>. DEFINE r == [call[c] EXCEPT !.sort = s]
<1>3. r \in Call /\ r.sort = s /\ r.next = call[c].next /\ r.now = call[c].now
  BY <1>1 DEF Call
<1>4. Phase(s) \in {"sort", "next"} /\ (Phase(s) = "sort" => Sorting(s))
  BY DEF Phase
<1>5. Moves(c, r, Phase(s))
  <2>1. call' = [call EXCEPT ![c] = r] /\ pc' = [pc EXCEPT ![c] = Phase(s)]
    BY <1>2 DEF Sorts
  <2>. HIDE DEF r
  <2>. QED
    BY <1>1, <1>2, <1>3, <1>4, <2>1 DEF Moves, CallOK, Places
<1>. QED
  BY <1>2, <1>3, <1>4, <1>5

\* What the steps of the loop over the candidates leave alone.
SameList(c, r) == r.sort = call[c].sort /\ r.now = call[c].now

\* A step of the loop that only writes fields the invariant does not read.
LEMMA LoopMoves ==
    ASSUME IInv, NEW c \in Callers,
           NEW r \in Call, SameList(c, r), r.next \in {call[c].next, call[c].next + 1},
           NEW p \in Places \ {"scan", "sort"},
           p \notin {"idle", "next"} =>
                r.next = call[c].next /\ r.next <= Len(Candidates(c)),
           p = "throttle" => Limited(Target(c)),
           call' = [call EXCEPT ![c] = r], pc' = [pc EXCEPT ![c] = p]
    PROVE  Moves(c, r, p)
<1>1. CursorOK(r.sort) /\ r.next >= 1
  BY Types DEF SameList
<1>2. Places \ {"scan", "sort"} = {"idle", "next", "throttle", "admitted", "await", "leave"}
  BY DEF Places
<1>. QED
  BY <1>1, <1>2 DEF Moves, CallOK, SameList, Target, Candidates

LEMMA AskLimiterMoves ==
    ASSUME IInv, NEW c \in Callers, AskLimiter(c)
    PROVE  \E r : /\ Moves(c, r, "throttle")
                  /\ SameList(c, r) /\ r.next = call[c].next /\ r.asked = clock
<1>. DEFINE r == [call[c] EXCEPT !.asked = clock]
<1>1. r \in Call /\ SameList(c, r) /\ r.next = call[c].next /\ r.asked = clock
  BY Types DEF Call, SameList
<1>2. /\ call' = [call EXCEPT ![c] = r] /\ pc' = [pc EXCEPT ![c] = "throttle"]
      /\ Limited(Target(c)) /\ call[c].next <= Len(Candidates(c))
  BY Types DEF AskLimiter, Exhausted
<1>. HIDE DEF r
<1>3. Moves(c, r, "throttle")
  BY <1>1, <1>2, LoopMoves DEF Places
<1>. QED
  BY <1>1, <1>3

\* At the limiter: the target is a limited endpoint.
LEMMA AtLimiter ==
    ASSUME IInv, NEW c \in Callers, pc[c] = "throttle"
    PROVE  /\ call[c].next <= Len(Candidates(c))
           /\ Target(c) \in Endpoints /\ Limited(Target(c))
           /\ Rps[Target(c)] \in Nat
           /\ call[c].asked \in Nat
           /\ limiter[Target(c)] \in Bucket
<1>1. call[c].next <= Len(Candidates(c)) /\ Limited(Target(c)) /\ call[c].asked \in Nat
  BY Types DEF CallOK, Target, Candidates
<1>2. Target(c) \in Endpoints
  BY <1>1, TargetType
<1>. QED
  BY <1>1, <1>2, RpcPoolAssumption DEF Limited, IInv, TypeOK

LEMMA ThrottleMoves ==
    ASSUME IInv, NEW c \in Callers, Throttle(c)
    PROVE  \E r : Moves(c, r, "next") /\ SameList(c, r) /\ r.asked = call[c].asked
<1>1. call[c] \in Call /\ Target(c) \in Endpoints /\ call[c].next \in Nat
  BY Types, AtLimiter DEF Throttle
<1>2. PICK k \in Nat : k = call[c].next + 1
  BY <1>1
<1>. DEFINE r == [call[c] EXCEPT !.throttled = @ \cup {Target(c)}, !.next = k]
<1>3. r \in Call /\ SameList(c, r) /\ r.next = k /\ r.asked = call[c].asked
  BY <1>1 DEF Call, SameList
<1>4. call' = [call EXCEPT ![c] = r] /\ pc' = [pc EXCEPT ![c] = "next"]
  BY <1>1, <1>2 DEF Throttle
<1>. HIDE DEF r
<1>5. Moves(c, r, "next")
  BY <1>2, <1>3, <1>4, LoopMoves DEF Places
<1>. QED
  BY <1>3, <1>5

LEMMA GrantMoves ==
    ASSUME IInv, NEW c \in Callers, Grant(c)
    PROVE  Moves(c, call[c], "admitted")
<1>1. call[c] \in Call /\ call' = [call EXCEPT ![c] = call[c]]
  BY Types DEF Grant, IInv, TypeOK
<1>2. call[c].next <= Len(Candidates(c)) /\ pc' = [pc EXCEPT ![c] = "admitted"]
  BY AtLimiter DEF Grant
<1>. QED
  BY <1>1, <1>2, LoopMoves DEF Places, SameList

\* Past the throttle, and at the await, the target is an endpoint.
LEMMA AtTarget ==
    ASSUME IInv, NEW c \in Callers, PastThrottle(c) \/ pc[c] \in {"await", "leave"}
    PROVE  call[c].next <= Len(Candidates(c)) /\ Target(c) \in Endpoints
<1>1. call[c].next <= Len(Candidates(c))
  BY Types DEF CallOK, PastThrottle, Exhausted, Candidates
<1>. QED
  BY <1>1, TargetType

LEMMA DispatchMoves ==
    ASSUME IInv, NEW c \in Callers, Dispatch(c)
    PROVE  \E r : Moves(c, r, "await") /\ SameList(c, r) /\ r.next = call[c].next
<1>1. PICK k \in Nat : k = call[c].tried + 1
  BY Types
<1>. DEFINE r == [call[c] EXCEPT !.tried = k]
<1>2. r \in Call /\ SameList(c, r) /\ r.next = call[c].next
  BY Types DEF Call, SameList
<1>3. /\ call' = [call EXCEPT ![c] = r] /\ pc' = [pc EXCEPT ![c] = "await"]
      /\ call[c].next <= Len(Candidates(c))
  BY <1>1, AtTarget DEF Dispatch
<1>. HIDE DEF r
<1>4. Moves(c, r, "await")
  BY <1>2, <1>3, LoopMoves DEF Places
<1>. QED
  BY <1>2, <1>4

\* Whatever the upstream says, the call knows what to make of it.
LEMMA VerdictType ==
    ASSUME NEW mode, NEW reply
    PROVE  Verdict(mode, reply) \in Verdicts
<1>1. AcceptedBy(mode) \subseteq Verdicts
  BY DEF AcceptedBy, Verdicts
<1>. QED
  BY <1>1 DEF Verdict, Verdicts

(***************************************************************************)
(* The outcome of a request is noted by the call and in the record of the  *)
(* endpoint that was asked, and the two agree.                             *)
(***************************************************************************)
LEMMA AnswerMoves ==
    ASSUME IInv, NEW c \in Callers, Answer(c)
    PROVE  /\ Target(c) \in Endpoints
           /\ \E r : /\ Moves(c, r, "leave") /\ SameList(c, r) /\ r.next = call[c].next
                    /\ \E h \in Health :
                          /\ health' = [health EXCEPT ![Target(c)] = h]
                          /\ h = IF r.verdict = "failed"
                                 THEN RecordFailure(health[Target(c)], clock)
                                 ELSE RecordSuccess(health[Target(c)])
<1>1. /\ Target(c) \in Endpoints /\ health[Target(c)] \in Health /\ clock \in Nat
      /\ call[c].next <= Len(Candidates(c))
  BY AtTarget DEF Answer, IInv, TypeOK
<1>2. PICK reply :
          /\ call' = [call EXCEPT ![c].verdict = Verdict(call[c].mode, reply)]
          /\ health' = [health EXCEPT ![Target(c)] =
                IF Verdict(call[c].mode, reply) = "failed"
                THEN RecordFailure(health[Target(c)], clock)
                ELSE RecordSuccess(health[Target(c)])]
  BY DEF Answer
<1>3. PICK verdict \in Verdicts : verdict = Verdict(call[c].mode, reply)
  BY VerdictType
<1>4. PICK h \in Health : h = IF verdict = "failed"
                             THEN RecordFailure(health[Target(c)], clock)
                             ELSE RecordSuccess(health[Target(c)])
  BY <1>1, RecordType
<1>. DEFINE r == [call[c] EXCEPT !.verdict = verdict]
<1>5. r \in Call /\ SameList(c, r) /\ r.next = call[c].next /\ r.verdict = verdict
  BY Types DEF Call, SameList
<1>6. call' = [call EXCEPT ![c] = r] /\ pc' = [pc EXCEPT ![c] = "leave"]
  BY <1>2, <1>3 DEF Answer
<1>7. health' = [health EXCEPT ![Target(c)] = h]
  BY <1>2, <1>3, <1>4
<1>. HIDE DEF r
<1>8. Moves(c, r, "leave")
  BY <1>1, <1>5, <1>6, LoopMoves DEF Places
<1>. QED
  BY <1>1, <1>4, <1>5, <1>7, <1>8

LEMMA EndMoves ==
    ASSUME IInv, NEW c \in Callers,
           ReturnAnswer(c) \/ FailOver(c) \/ GiveUp(c) \/ Drop(c)
    PROVE  \E r, p : Moves(c, r, p) /\ SameList(c, r) /\ p \in {"idle", "next"}
<1>1. CASE FailOver(c)
  <2>1. Target(c) \in Endpoints
    BY <1>1, AtTarget DEF FailOver
  <2>2. PICK k \in Nat : k = call[c].next + 1
    BY Types
  <2>. DEFINE r == [call[c] EXCEPT !.failed = @ \cup {Target(c)}, !.next = k]
  <2>3. r \in Call /\ SameList(c, r) /\ r.next = k
    BY <2>1, Types DEF Call, SameList
  <2>4. call' = [call EXCEPT ![c] = r] /\ pc' = [pc EXCEPT ![c] = "next"]
    BY <1>1, <2>2 DEF FailOver
  <2>. HIDE DEF r
  <2>5. Moves(c, r, "next")
    BY <2>2, <2>3, <2>4, LoopMoves DEF Places
  <2>. QED
    BY <2>3, <2>5
<1>2. CASE ReturnAnswer(c) \/ GiveUp(c) \/ Drop(c)
  <2>1. PICK outcome \in Outcomes :
            /\ call' = [call EXCEPT ![c].outcome = outcome]
            /\ pc' = [pc EXCEPT ![c] = "idle"]
    <3>1. CASE ReturnAnswer(c)
      <4>1. call[c].verdict \in Outcomes
        BY <3>1, Types DEF ReturnAnswer, Call, Verdicts, Outcomes
      <4>. QED
        BY <3>1, <4>1 DEF ReturnAnswer
    <3>2. CASE GiveUp(c)
      BY <3>2 DEF GiveUp, Outcomes
    <3>3. CASE Drop(c)
      BY <3>3 DEF Drop, Outcomes
    <3>. QED
      BY <1>2, <3>1, <3>2, <3>3
  <2>. DEFINE r == [call[c] EXCEPT !.outcome = outcome]
  <2>2. r \in Call /\ SameList(c, r) /\ r.next = call[c].next
    BY Types DEF Call, SameList
  <2>3. call' = [call EXCEPT ![c] = r]
    BY <2>1
  <2>. HIDE DEF r
  <2>4. Moves(c, r, "idle")
    BY <2>1, <2>2, <2>3, LoopMoves DEF Places
  <2>. QED
    BY <2>2, <2>4
<1>. QED
  BY <1>1, <1>2

-----------------------------------------------------------------------------
\* A limiter asked at any instant read from the clock stays a bucket.
LEMMA BucketType ==
    ASSUME NEW rps \in Nat, NEW now \in Nat, NEW b \in Bucket
    PROVE  /\ Refill(b, rps, now) \in Bucket
           /\ HasToken(Refill(b, rps, now)) => Take(Refill(b, rps, now)) \in Bucket
<1>1. Rate(rps) \in Nat /\ Capacity(rps) \in Nat /\ Token \in Nat
  BY RateType
<1>2. Refill(b, rps, now) \in Bucket
  <2>1. CASE now > b.lastRefill
    <3>1. (now - b.lastRefill) * Rate(rps) \in Nat
      BY <1>1, <2>1, CreditType DEF Bucket
    <3>. DEFINE full == b.tokens + (now - b.lastRefill) * Rate(rps)
    <3>2. full \in Nat
      BY <3>1 DEF Bucket
    <3>3. Refill(b, rps, now) =
              [tokens |-> IF full < Capacity(rps) THEN full ELSE Capacity(rps), lastRefill |-> now]
      BY <2>1 DEF Refill
    <3>. QED
      BY <1>1, <3>2, <3>3 DEF Bucket
  <2>2. CASE ~(now > b.lastRefill)
    BY <2>2 DEF Refill
  <2>. QED
    BY <2>1, <2>2
<1>3. \A d \in Bucket : HasToken(d) => Take(d) \in Bucket
  BY <1>1 DEF HasToken, Take, Bucket
<1>. QED
  BY <1>2, <1>3

\* The inductive invariant is kept by every step.
LEMMA NextIInv == IInv /\ [Next]_vars => IInv'
<1>. SUFFICES ASSUME IInv, [Next]_vars PROVE IInv'
  OBVIOUS
<1>. USE DEF IInv
<1>1. /\ clock \in Nat
      /\ health \in [Endpoints -> Health]
      /\ limiter \in [Endpoints -> Bucket]
      /\ inFlight \in [Endpoints -> Nat]
      /\ begun \in [Callers -> Nat]
      /\ sent \in [Endpoints -> Nat]
      /\ served \in [Endpoints -> Nat]
      /\ dropped \in [Endpoints -> Nat]
  BY DEF TypeOK
\* The common case: a caller moves without touching a guard.
<1>2. ASSUME NEW c \in Callers, NEW r, NEW p, Moves(c, r, p),
             \A e \in Endpoints : Holds(r, p, e) <=> Holds(call[c], pc[c], e),
             UNCHANGED inFlight,
             clock' \in Nat, health' \in [Endpoints -> Health],
             limiter' \in [Endpoints -> Bucket], begun' \in [Callers -> Nat],
             sent' \in [Endpoints -> Nat], served' \in [Endpoints -> Nat],
             dropped' \in [Endpoints -> Nat]
      PROVE  IInv'
  <2>1. \A e \in Endpoints : One(Holds(r, p, e)) = One(Holds(call[c], pc[c], e))
    BY <1>2 DEF One
  <2>2. InFlightExact'
    BY <1>1, <1>2, <2>1, GuardsMatch
  <2>. QED
    BY <1>1, <1>2, <2>2, MovesType DEF TypeOK
<1>3. ASSUME NEW c \in Callers, Begin(c)
      PROVE  IInv'
  <2>1. PICK r : Moves(c, r, "scan")
    BY <1>3, BeginMoves
  <2>2. begun' \in [Callers -> Nat]
    BY <1>1, <1>3 DEF Begin
  <2>3. UNCHANGED <<clock, shared, counts>> /\ pc[c] = "idle"
    BY <1>3 DEF Begin
  <2>. QED
    BY <1>1, <1>2, <2>1, <2>2, <2>3 DEF Holds, shared, counts
<1>4. ASSUME NEW c \in Callers,
             SkipIncapable(c) \/ SkipCooling(c) \/ Admit(c) \/ SortReads(c) \/ SortCompares(c)
      PROVE  IInv'
  <2>1. PICK r, p : Moves(c, r, p) /\ p \in {"scan", "sort", "next"}
    BY <1>4, SkipMoves, AdmitMoves, SortMoves
  <2>2. UNCHANGED <<clock, shared, begun, counts>> /\ pc[c] \in {"scan", "sort"}
    BY <1>4 DEF SkipIncapable, SkipCooling, Admit, SortReads, SortCompares, Scanned, Sorts
  <2>. QED
    BY <1>1, <1>2, <2>1, <2>2 DEF Holds, shared, counts
<1>5. ASSUME NEW c \in Callers, AskLimiter(c)
      PROVE  IInv'
  <2>1. PICK r : Moves(c, r, "throttle")
    BY <1>5, AskLimiterMoves
  <2>2. UNCHANGED <<clock, shared, begun, counts>> /\ pc[c] = "next"
    BY <1>5 DEF AskLimiter
  <2>. QED
    BY <1>1, <1>2, <2>1, <2>2 DEF Holds, shared, counts
<1>6. ASSUME NEW c \in Callers, Throttle(c) \/ Grant(c)
      PROVE  IInv'
  <2>1. pc[c] = "throttle" /\ UNCHANGED <<clock, health, inFlight, begun, counts>>
    BY <1>6 DEF Throttle, Grant
  <2>2. PICK r, p : Moves(c, r, p) /\ p \in {"next", "admitted"}
    BY <1>6, ThrottleMoves, GrantMoves
  <2>3. /\ Target(c) \in Endpoints /\ Rps[Target(c)] \in Nat
        /\ call[c].asked \in Nat /\ limiter[Target(c)] \in Bucket
    BY <2>1, AtLimiter
  <2>4. limiter' \in [Endpoints -> Bucket]
    BY <1>1, <1>6, <2>3, BucketType DEF Throttle, Grant
  <2>. QED
    BY <1>1, <1>2, <2>1, <2>2, <2>4 DEF Holds, counts
<1>7. ASSUME NEW c \in Callers, Dispatch(c)
      PROVE  IInv'
  <2>1. PICK r : Moves(c, r, "await") /\ SameList(c, r) /\ r.next = call[c].next
    BY <1>7, DispatchMoves
  <2>2. Target(c) \in Endpoints /\ pc[c] \in {"admitted", "next"}
    BY <1>7, AtTarget DEF Dispatch, PastThrottle
  <2>3. inFlight' = [inFlight EXCEPT ![Target(c)] = @ + 1] /\ sent' \in [Endpoints -> Nat]
    BY <1>1, <1>7, <2>2 DEF Dispatch
  <2>4. InFlightExact' /\ inFlight' \in [Endpoints -> Nat]
    <3>1. \A e \in Endpoints : /\ Holds(r, "await", e) <=> e = Target(c)
                              /\ ~Holds(call[c], pc[c], e)
      BY <2>1, <2>2 DEF Holds, SameList, Target, Candidates
    <3>2. inFlight' \in [Endpoints -> Int]
      BY <1>1, <2>2, <2>3
    <3>3. \A e \in Endpoints : inFlight'[e] = inFlight[e] + One(e = Target(c))
      BY <1>1, <2>2, <2>3 DEF One
    <3>. QED
      BY <1>1, <2>1, <3>1, <3>2, <3>3, GuardsMatch DEF One
  <2>5. UNCHANGED <<clock, health, limiter, begun, served, dropped>>
    BY <1>7 DEF Dispatch
  <2>. QED
    BY <1>1, <2>1, <2>3, <2>4, <2>5, MovesType DEF TypeOK
<1>8. ASSUME NEW c \in Callers, Answer(c)
      PROVE  IInv'
  <2>1. PICK r : Moves(c, r, "leave") /\ SameList(c, r) /\ r.next = call[c].next
    BY <1>8, AnswerMoves
  <2>2. pc[c] = "await" /\ UNCHANGED <<clock, limiter, inFlight, begun, counts>>
    BY <1>8 DEF Answer
  <2>3. health' \in [Endpoints -> Health]
    BY <1>1, <1>8, AnswerMoves
  <2>4. \A e \in Endpoints : Holds(r, "leave", e) <=> Holds(call[c], pc[c], e)
    BY <2>1, <2>2 DEF Holds, SameList
  <2>. QED
    BY <1>1, <1>2, <2>1, <2>2, <2>3, <2>4 DEF counts
<1>9. ASSUME NEW c \in Callers, ReturnAnswer(c) \/ FailOver(c) \/ Drop(c)
      PROVE  IInv'
  <2>1. PICK r, p : Moves(c, r, p) /\ p \in {"idle", "next"}
    BY <1>9, EndMoves
  <2>2. /\ pc[c] \in {"await", "leave"}
        /\ inFlight' = [inFlight EXCEPT ![Target(c)] = @ - 1]
        /\ UNCHANGED <<clock, health, limiter, begun, sent>>
    BY <1>9 DEF ReturnAnswer, FailOver, Drop, counts
  <2>3. Target(c) \in Endpoints
    BY <2>2, AtTarget
  <2>4. served' \in [Endpoints -> Nat] /\ dropped' \in [Endpoints -> Nat]
    BY <1>1, <1>9, <2>3 DEF ReturnAnswer, FailOver, Drop, counts
  <2>5. \A e \in Endpoints : /\ Holds(call[c], pc[c], e) <=> e = Target(c)
                            /\ ~Holds(r, p, e)
    BY <2>1, <2>2 DEF Holds, Target, Candidates
  <2>6. InFlightExact' /\ inFlight' \in [Endpoints -> Nat]
    <3>1. inFlight' \in [Endpoints -> Int]
      BY <1>1, <2>2, <2>3
    <3>2. \A e \in Endpoints : inFlight'[e] + One(e = Target(c)) = inFlight[e]
      BY <1>1, <2>2, <2>3 DEF One
    <3>. QED
      BY <1>1, <2>1, <2>5, <3>1, <3>2, GuardsMatch DEF One
  <2>. QED
    BY <1>1, <2>1, <2>2, <2>4, <2>6, MovesType DEF TypeOK
<1>10. ASSUME NEW c \in Callers, GiveUp(c)
       PROVE  IInv'
  <2>1. PICK r, p : Moves(c, r, p) /\ p \in {"idle", "next"}
    BY <1>10, EndMoves
  <2>2. pc[c] \in {"next", "admitted"} /\ UNCHANGED <<clock, shared, begun, counts>>
    BY <1>10 DEF GiveUp, PastThrottle
  <2>. QED
    BY <1>1, <1>2, <2>1, <2>2 DEF Holds, shared, counts
<1>11. CASE Tick
  BY <1>1, <1>11 DEF Tick, TypeOK, InFlightExact, Holding, Target, Candidates, shared, counts
<1>12. CASE UNCHANGED vars
  BY <1>12 DEF vars, TypeOK, InFlightExact, Holding, Target, Candidates, shared, counts
<1>. QED
  BY <1>3, <1>4, <1>5, <1>6, <1>7, <1>8, <1>9, <1>10, <1>11, <1>12
     DEF Next, Proceed, Stopped

LEMMA Invariance == Spec => []IInv
  BY InitIInv, NextIInv, PTL DEF Spec

(***************************************************************************)
(* Every variable keeps its type in every reachable state; in particular   *)
(* no in-flight counter ever wraps below zero (mod.rs:52-68).              *)
(***************************************************************************)
THEOREM TypeCorrect == Spec => []TypeOK
<1>1. IInv => TypeOK
  BY DEF IInv
<1>. QED
  BY <1>1, Invariance, PTL

(***************************************************************************)
(* The load that routing reads is always the number of calls that hold a   *)
(* request at the endpoint, dropped futures included (mod.rs:52-68).       *)
(***************************************************************************)
THEOREM LoadIsExact == Spec => []InFlightExact
<1>1. IInv => InFlightExact
  BY DEF IInv
<1>. QED
  BY <1>1, Invariance, PTL

-----------------------------------------------------------------------------
(***************************************************************************)
(* Cooldown.  A call lists only endpoints that were eligible at the        *)
(* instant it began; one of them can have failed since, but then its last  *)
(* failure is no earlier than that instant.                                *)
(***************************************************************************)
Rested(h, now) == IsAvailableAt(h, now) \/ now <= h.lastFailure

RestInv ==
    \A c \in Callers :
        /\ call[c].now <= clock
        /\ \A j \in 1 .. Len(Candidates(c)) :
              Rested(health[Candidates(c)[j]], call[c].now)

\* The clock moves with Tick alone, and forwards.
LEMMA ClockForward ==
    ASSUME [Next]_vars
    PROVE  clock' \in {clock, clock + 1}
<1>1. ASSUME NEW c \in Callers, Proceed(c)
      PROVE  clock' = clock
  BY <1>1 DEF Proceed, SkipIncapable, SkipCooling, Admit, Scanned, SortReads, SortCompares,
     Sorts, AskLimiter, Throttle, Grant, Dispatch, ReturnAnswer, FailOver, GiveUp
<1>2. ASSUME NEW c \in Callers, Begin(c) \/ Answer(c) \/ Drop(c)
      PROVE  clock' = clock
  BY <1>2 DEF Begin, Answer, Drop
<1>3. CASE Tick \/ Stopped \/ UNCHANGED vars
  BY <1>3 DEF Tick, Stopped, vars
<1>. QED
  BY <1>1, <1>2, <1>3 DEF Next

\* No step spoils an endpoint for the calls that began earlier.
LEMMA RestKept ==
    ASSUME IInv, [Next]_vars, NEW e \in Endpoints,
           NEW now \in Nat, now <= clock, Rested(health[e], now)
    PROVE  Rested(health'[e], now)
<1>1. clock \in Nat /\ health \in [Endpoints -> Health]
  BY DEF IInv, TypeOK
<1>2. ASSUME NEW c \in Callers, Answer(c)
      PROVE  Rested(health'[e], now)
  <2>2. PICK h \in Health :
            /\ h \in {RecordFailure(health[Target(c)], clock), RecordSuccess(health[Target(c)])}
            /\ health' = [health EXCEPT ![Target(c)] = h]
    BY <1>2, AnswerMoves
  <2>3. Target(c) \in Endpoints /\ health[Target(c)] \in Health
    BY <1>1, <1>2, AnswerMoves
  <2>4. Rested(h, now)
    <3>1. CASE h = RecordFailure(health[Target(c)], clock)
      BY <1>1, <2>3, <3>1, RecordType DEF Rested
    <3>2. CASE h = RecordSuccess(health[Target(c)])
      BY <2>3, <3>2, SuccessRestores DEF Rested
    <3>. QED
      BY <2>2, <3>1, <3>2
  <2>. QED
    BY <1>1, <2>2, <2>3, <2>4
<1>3. CASE UNCHANGED health
  BY <1>3
<1>4. CASE \E c \in Callers : Begin(c) \/ Proceed(c) \/ Drop(c)
  BY <1>3, <1>4 DEF Begin, Drop, Proceed, SkipIncapable, SkipCooling, Admit, Scanned,
     SortReads, SortCompares, Sorts, AskLimiter, Throttle, Grant, Dispatch,
     ReturnAnswer, FailOver, GiveUp, shared
<1>5. CASE Tick \/ Stopped \/ UNCHANGED vars
  BY <1>3, <1>5 DEF Tick, Stopped, vars, shared
<1>. QED
  BY <1>2, <1>4, <1>5 DEF Next

\* A step either starts a call with an empty list, or lists nothing new but
\* an endpoint that is eligible.
LEMMA ListStep ==
    ASSUME IInv, [Next]_vars, NEW d \in Callers
    PROVE  \/ call'[d].now = clock /\ call'[d].sort.order = <<>>
           \/ /\ call'[d].now = call[d].now
              /\ \A j \in 1 .. Len(call'[d].sort.order) :
                    LET e == call'[d].sort.order[j]
                    IN  \/ \E i \in 1 .. Len(Candidates(d)) : e = Candidates(d)[i]
                        \/ e \in Endpoints /\ IsAvailableAt(health[e], call[d].now)
<1>1. CASE call'[d].now = call[d].now /\ call'[d].sort.order = Candidates(d)
  BY <1>1
<1>2. ASSUME NEW c \in Callers, NEW r, NEW p, Moves(c, r, p),
             r.now = call[c].now, r.sort = call[c].sort
      PROVE  call'[d].now = call[d].now /\ call'[d].sort.order = Candidates(d)
  BY <1>2, MovesType DEF Candidates
<1>3. ASSUME NEW c \in Callers, c # d, NEW r, NEW p, Moves(c, r, p)
      PROVE  call'[d].now = call[d].now /\ call'[d].sort.order = Candidates(d)
  BY <1>3, MovesType DEF Candidates
<1>4. ASSUME NEW c \in Callers, Begin(c)
      PROVE  \/ call'[d].now = clock /\ call'[d].sort.order = <<>>
             \/ call'[d].now = call[d].now /\ call'[d].sort.order = Candidates(d)
  BY <1>3, <1>4, BeginMoves, MovesType
<1>5. ASSUME NEW c \in Callers, SkipIncapable(c) \/ SkipCooling(c)
      PROVE  call'[d].now = call[d].now /\ call'[d].sort.order = Candidates(d)
  BY <1>2, <1>5, SkipMoves
<1>6. ASSUME Admit(d)
      PROVE  /\ call'[d].now = call[d].now
             /\ \A j \in 1 .. Len(call'[d].sort.order) :
                    LET e == call'[d].sort.order[j]
                    IN  \/ \E i \in 1 .. Len(Candidates(d)) : e = Candidates(d)[i]
                        \/ e \in Endpoints /\ IsAvailableAt(health[e], call[d].now)
  <2>. DEFINE e == call[d].scan
  <2>1. PICK r, p : /\ Moves(d, r, p)
                    /\ r.sort.order = Append(Candidates(d), e) /\ r.now = call[d].now
    BY <1>6, AdmitMoves
  <2>2. e \in Endpoints /\ IsAvailableAt(health[e], call[d].now)
    BY <1>6, AdmitMoves DEF Admit
  <2>3. call'[d].sort.order = Append(Candidates(d), e) /\ call'[d].now = call[d].now
    BY <2>1, MovesType
  <2>4. \A q \in Seq(Endpoints) : \A x : \A j \in 1 .. Len(Append(q, x)) :
            (\E i \in 1 .. Len(q) : Append(q, x)[j] = q[i]) \/ Append(q, x)[j] = x
    OBVIOUS
  <2>5. Candidates(d) \in Seq(Endpoints)
    BY Types
  <2>. QED
    BY <2>2, <2>3, <2>4, <2>5
<1>7. ASSUME SortReads(d) \/ SortCompares(d)
      PROVE  /\ call'[d].now = call[d].now
             /\ \A j \in 1 .. Len(call'[d].sort.order) :
                    \E i \in 1 .. Len(Candidates(d)) : call'[d].sort.order[j] = Candidates(d)[i]
  <2>1. PICK r, p : /\ Moves(d, r, p)
                    /\ SameCandidates(call[d].sort, r.sort) /\ r.now = call[d].now
    BY <1>7, SortMoves
  <2>2. call'[d] = r
    BY <2>1, MovesType
  <2>3. \A j \in 1 .. Len(r.sort.order) :
            \E i \in 1 .. Len(Candidates(d)) : r.sort.order[j] = Candidates(d)[i]
    BY <2>1 DEF SameCandidates, Candidates
  <2>. QED
    BY <2>1, <2>2, <2>3
<1>8. ASSUME NEW c \in Callers, c # d, Admit(c) \/ SortReads(c) \/ SortCompares(c)
      PROVE  call'[d].now = call[d].now /\ call'[d].sort.order = Candidates(d)
  BY <1>3, <1>8, AdmitMoves, SortMoves
<1>9. ASSUME NEW c \in Callers,
             AskLimiter(c) \/ Throttle(c) \/ Grant(c) \/ Dispatch(c) \/ Answer(c)
               \/ ReturnAnswer(c) \/ FailOver(c) \/ GiveUp(c) \/ Drop(c)
      PROVE  call'[d].now = call[d].now /\ call'[d].sort.order = Candidates(d)
  BY <1>2, <1>9, AskLimiterMoves, ThrottleMoves, GrantMoves, DispatchMoves,
     AnswerMoves, EndMoves DEF SameList
<1>10. CASE Tick \/ Stopped \/ UNCHANGED vars
  BY <1>10 DEF Tick, Stopped, vars, Candidates
<1>. QED
  BY <1>1, <1>4, <1>5, <1>6, <1>7, <1>8, <1>9, <1>10 DEF Next, Proceed

LEMMA InitRestInv == Init => RestInv
<1>. SUFFICES ASSUME Init PROVE RestInv
  OBVIOUS
<1>1. (CHOOSE m \in Methods : TRUE) \in Methods
  BY RpcPoolAssumption
<1>2. \A c \in Callers : call[c].now = 0 /\ Candidates(c) = <<>>
  BY <1>1, FreshCallType DEF Init, Candidates
<1>. QED
  BY <1>2 DEF Init, RestInv

LEMMA NextRestInv == IInv /\ RestInv /\ [Next]_vars => RestInv'
<1>. SUFFICES ASSUME IInv, RestInv, [Next]_vars, NEW d \in Callers
              PROVE  /\ call'[d].now <= clock'
                     /\ \A j \in 1 .. Len(call'[d].sort.order) :
                          Rested(health'[call'[d].sort.order[j]], call'[d].now)
  BY DEF RestInv, Candidates
<1>1. /\ clock \in Nat /\ call[d].now \in Nat /\ call[d].now <= clock
      /\ Candidates(d) \in Seq(Endpoints)
  BY Types DEF RestInv
<1>2. clock' \in Nat /\ clock <= clock'
  BY <1>1, ClockForward
<1>3. CASE call'[d].now = clock /\ call'[d].sort.order = <<>>
  BY <1>1, <1>2, <1>3
<1>4. CASE /\ call'[d].now = call[d].now
           /\ \A j \in 1 .. Len(call'[d].sort.order) :
                 LET e == call'[d].sort.order[j]
                 IN  \/ \E i \in 1 .. Len(Candidates(d)) : e = Candidates(d)[i]
                     \/ e \in Endpoints /\ IsAvailableAt(health[e], call[d].now)
  <2>1. ASSUME NEW j \in 1 .. Len(call'[d].sort.order)
        PROVE  Rested(health'[call'[d].sort.order[j]], call'[d].now)
    <3>. DEFINE e == call'[d].sort.order[j]
    <3>1. e \in Endpoints /\ Rested(health[e], call[d].now)
      BY <1>1, <1>4 DEF RestInv, Rested
    <3>. QED
      BY <1>1, <1>4, <3>1, RestKept
  <2>. QED
    BY <1>1, <1>2, <1>4, <2>1
<1>. QED
  BY <1>3, <1>4, ListStep

(***************************************************************************)
(* The calls that still list an endpoint in cooldown began no later than   *)
(* the failure that demoted it (mod.rs:247-251).                           *)
(***************************************************************************)
THEOREM CoolingRests == Spec => []CoolingEndpointRests
<1>1. IInv /\ RestInv => CoolingEndpointRests
  <2>. SUFFICES ASSUME IInv, RestInv, NEW c \in Callers,
                       NEW i \in call[c].next .. Len(Candidates(c)),
                       ~IsAvailableAt(health[Candidates(c)[i]], clock)
                PROVE  call[c].now <= health[Candidates(c)[i]].lastFailure
    BY DEF CoolingEndpointRests, Listed
  <2>1. /\ i \in 1 .. Len(Candidates(c)) /\ Candidates(c) \in Seq(Endpoints)
        /\ call[c].now \in Nat /\ clock \in Nat
    BY Types
  <2>2. Candidates(c)[i] \in Endpoints
    BY <2>1
  <2>3. health[Candidates(c)[i]] \in Health
    BY <2>2 DEF IInv, TypeOK
  <2>4. /\ call[c].now <= clock
        /\ Rested(health[Candidates(c)[i]], call[c].now)
    BY <2>1 DEF RestInv
  <2>5. ~IsAvailableAt(health[Candidates(c)[i]], call[c].now)
    BY <2>1, <2>3, <2>4, AvailabilityMonotone
  <2>. QED
    BY <2>4, <2>5 DEF Rested
<1>. QED
  BY <1>1, Invariance, InitRestInv, NextRestInv, PTL DEF Spec

-----------------------------------------------------------------------------
(***************************************************************************)
(* The throttle.  A token taken has been spent on a request already, or is *)
(* held by a call that was granted it and has not sent its request yet.    *)
(***************************************************************************)
HasGrant(r, p, e) == p = "admitted" /\ r.sort.order[r.next] = e

Granted(e) == {c \in Callers : HasGrant(call[c], pc[c], e)}

Spent(e) == sent[e] + Cardinality(Granted(e))

ThrottleInv ==
    /\ \A c \in Callers : pc[c] = "throttle" => call[c].asked <= clock
    /\ \A e \in Endpoints : Limited(e) =>
          /\ limiter[e].tokens <= Capacity(Rps[e])
          /\ limiter[e].lastRefill <= clock
          /\ Spent(e) * Token + limiter[e].tokens
               <= Capacity(Rps[e]) + Rate(Rps[e]) * limiter[e].lastRefill

LEMMA GrantedStep ==
    ASSUME IInv, NEW c \in Callers, NEW r, NEW p, Moves(c, r, p), NEW e
    PROVE  /\ Cardinality(Granted(e)) \in Nat /\ Cardinality(Granted(e)') \in Nat
           /\ Cardinality(Granted(e)') + One(HasGrant(call[c], pc[c], e))
                = Cardinality(Granted(e)) + One(HasGrant(r, p, e))
<1>1. /\ Granted(e) = {d \in Callers : HasGrant(call[d], pc[d], e)}
      /\ Granted(e)' = {d \in Callers : HasGrant(call'[d], pc'[d], e)}
  BY DEF Granted
<1>2. IsFiniteSet(Granted(e))
  BY <1>1, RpcPoolAssumption, FS_Subset
<1>3. Granted(e)' \ {c} = Granted(e) \ {c}
  BY <1>1, MovesType
<1>4. /\ c \in Granted(e) <=> HasGrant(call[c], pc[c], e)
      /\ c \in Granted(e)' <=> HasGrant(r, p, e)
  BY <1>1, MovesType
<1>. QED
  BY <1>2, <1>3, <1>4, OneMoved DEF One

LEMMA GrantedType ==
    ASSUME NEW e
    PROVE  Cardinality(Granted(e)) \in Nat
<1>1. IsFiniteSet(Granted(e))
  BY RpcPoolAssumption, FS_Subset DEF Granted
<1>. QED
  BY <1>1, FS_CardinalityType

\* Arithmetic: a product grows with its factor, and one more is one more.
LEMMA ProductGrows ==
    ASSUME NEW m \in Nat, NEW n \in Nat, m <= n, NEW k \in Nat
    PROVE  /\ m * k \in Nat /\ n * k \in Nat /\ m * k <= n * k
           /\ k * m \in Nat /\ k * n \in Nat /\ k * m <= k * n
           /\ (m + 1) * k = m * k + k
  OBVIOUS

(***************************************************************************)
(* What a step does to the spending at e: it spends nothing and leaves the *)
(* bucket alone, or its caller is at the limiter of e.                     *)
(***************************************************************************)
LEMMA SpendStep ==
    ASSUME IInv, [Next]_vars, NEW e \in Endpoints, Limited(e)
    PROVE  \/ Spent(e)' \in Nat /\ Spent(e)' <= Spent(e) /\ limiter'[e] = limiter[e]
           \/ \E c \in Callers :
                /\ pc[c] = "throttle" /\ e = Target(c)
                /\ LET b == Refill(limiter[e], Rps[e], call[c].asked)
                   IN  \/ Spent(e)' = Spent(e) /\ limiter'[e] = b
                       \/ /\ Spent(e)' = Spent(e) + 1
                          /\ HasToken(b) /\ limiter'[e] = Take(b)
<1>1. /\ sent \in [Endpoints -> Nat] /\ limiter \in [Endpoints -> Bucket]
      /\ Cardinality(Granted(e)) \in Nat
  BY GrantedType DEF IInv, TypeOK
<1>2. ASSUME NEW c \in Callers, NEW r, NEW p, Moves(c, r, p), ~HasGrant(r, p, e),
             UNCHANGED <<limiter, sent>>
      PROVE  Spent(e)' \in Nat /\ Spent(e)' <= Spent(e) /\ limiter'[e] = limiter[e]
  BY <1>1, <1>2, GrantedStep DEF Spent, One
<1>3. ASSUME NEW c \in Callers, Begin(c)
      PROVE  Spent(e)' \in Nat /\ Spent(e)' <= Spent(e) /\ limiter'[e] = limiter[e]
  BY <1>2, <1>3, BeginMoves DEF Begin, shared, counts, HasGrant
<1>4. ASSUME NEW c \in Callers,
             SkipIncapable(c) \/ SkipCooling(c) \/ Admit(c) \/ SortReads(c) \/ SortCompares(c)
      PROVE  Spent(e)' \in Nat /\ Spent(e)' <= Spent(e) /\ limiter'[e] = limiter[e]
  <2>1. PICK r, p : Moves(c, r, p) /\ p \in {"scan", "sort", "next"}
    BY <1>4, SkipMoves, AdmitMoves, SortMoves
  <2>2. UNCHANGED <<limiter, sent>>
    BY <1>4 DEF SkipIncapable, SkipCooling, Admit, SortReads, SortCompares, Scanned, Sorts,
       shared, counts
  <2>. QED
    BY <1>2, <2>1, <2>2 DEF HasGrant
<1>5. ASSUME NEW c \in Callers, AskLimiter(c) \/ Answer(c)
      PROVE  Spent(e)' \in Nat /\ Spent(e)' <= Spent(e) /\ limiter'[e] = limiter[e]
  <2>1. PICK r, p : Moves(c, r, p) /\ p \in {"throttle", "leave"}
    BY <1>5, AskLimiterMoves, AnswerMoves
  <2>2. UNCHANGED <<limiter, sent>>
    BY <1>5 DEF AskLimiter, Answer, shared, counts
  <2>. QED
    BY <1>2, <2>1, <2>2 DEF HasGrant
<1>6. ASSUME NEW c \in Callers, ReturnAnswer(c) \/ FailOver(c) \/ GiveUp(c) \/ Drop(c)
      PROVE  Spent(e)' \in Nat /\ Spent(e)' <= Spent(e) /\ limiter'[e] = limiter[e]
  <2>1. PICK r, p : Moves(c, r, p) /\ p \in {"idle", "next"}
    BY <1>6, EndMoves
  <2>2. UNCHANGED <<limiter, sent>>
    BY <1>6 DEF ReturnAnswer, FailOver, GiveUp, Drop, shared, counts
  <2>. QED
    BY <1>2, <2>1, <2>2 DEF HasGrant
<1>7. ASSUME NEW c \in Callers, Throttle(c) \/ Grant(c)
      PROVE  \/ Spent(e)' \in Nat /\ Spent(e)' <= Spent(e) /\ limiter'[e] = limiter[e]
             \/ /\ pc[c] = "throttle" /\ e = Target(c)
                /\ LET b == Refill(limiter[e], Rps[e], call[c].asked)
                   IN  \/ Spent(e)' = Spent(e) /\ limiter'[e] = b
                       \/ /\ Spent(e)' = Spent(e) + 1
                          /\ HasToken(b) /\ limiter'[e] = Take(b)
  <2>. DEFINE b == Refill(limiter[e], Rps[e], call[c].asked)
  <2>1. pc[c] = "throttle" /\ sent' = sent /\ Target(c) \in Endpoints
    BY <1>7, AtLimiter DEF Throttle, Grant, counts
  <2>2. CASE Throttle(c)
    <3>1. PICK r : Moves(c, r, "next")
      BY <2>2, ThrottleMoves
    <3>2. Spent(e)' = Spent(e)
      BY <1>1, <2>1, <3>1, GrantedStep DEF Spent, One, HasGrant
    <3>3. limiter' = [limiter EXCEPT ![Target(c)] = Refill(@, Rps[Target(c)], call[c].asked)]
      BY <2>2 DEF Throttle
    <3>4. limiter'[e] = IF e = Target(c) THEN b ELSE limiter[e]
      BY <1>1, <2>1, <3>3
    <3>. QED
      BY <1>1, <2>1, <3>2, <3>4 DEF Spent
  <2>3. CASE Grant(c)
    <3>1. Moves(c, call[c], "admitted")
      BY <2>3, GrantMoves
    <3>2. /\ limiter' = [limiter EXCEPT ![Target(c)] =
                            Take(Refill(@, Rps[Target(c)], call[c].asked))]
          /\ HasToken(Refill(limiter[Target(c)], Rps[Target(c)], call[c].asked))
      BY <2>3 DEF Grant
    <3>3. CASE e = Target(c)
      <4>1. HasGrant(call[c], "admitted", e) /\ ~HasGrant(call[c], pc[c], e)
        BY <2>1, <3>3 DEF HasGrant, Target, Candidates
      <4>2. Cardinality(Granted(e)') = Cardinality(Granted(e)) + 1
        BY <3>1, <4>1, GrantedStep DEF One
      <4>3. Spent(e)' = Spent(e) + 1
        BY <1>1, <2>1, <4>2 DEF Spent
      <4>4. limiter'[e] = Take(b) /\ HasToken(b)
        BY <1>1, <3>2, <3>3
      <4>. QED
        BY <2>1, <3>3, <4>3, <4>4
    <3>4. CASE e # Target(c)
      <4>1. ~HasGrant(call[c], "admitted", e)
        BY <3>4 DEF HasGrant, Target, Candidates
      <4>2. Cardinality(Granted(e)') <= Cardinality(Granted(e)) /\ Cardinality(Granted(e)') \in Nat
        BY <3>1, <4>1, GrantedStep DEF One
      <4>3. limiter'[e] = limiter[e]
        BY <1>1, <3>2, <3>4
      <4>. QED
        BY <1>1, <2>1, <4>2, <4>3 DEF Spent
    <3>. QED
      BY <3>3, <3>4
  <2>. QED
    BY <1>7, <2>2, <2>3
<1>8. ASSUME NEW c \in Callers, Dispatch(c)
      PROVE  Spent(e)' \in Nat /\ Spent(e)' <= Spent(e) /\ limiter'[e] = limiter[e]
  <2>1. PICK r : Moves(c, r, "await")
    BY <1>8, DispatchMoves
  <2>2. /\ sent' = [sent EXCEPT ![Target(c)] = @ + 1] /\ limiter' = limiter
        /\ Target(c) \in Endpoints
    BY <1>8, AtTarget DEF Dispatch
  <2>3. e = Target(c) => HasGrant(call[c], pc[c], e)
    BY <1>8 DEF Dispatch, PastThrottle, HasGrant, Target, Candidates
  <2>4. ~HasGrant(r, "await", e)
    BY DEF HasGrant
  <2>5. Cardinality(Granted(e)') + One(HasGrant(call[c], pc[c], e)) = Cardinality(Granted(e))
        /\ Cardinality(Granted(e)') \in Nat
    BY <1>1, <2>1, <2>4, GrantedStep DEF One
  <2>6. sent'[e] = sent[e] + One(e = Target(c))
    BY <1>1, <2>2 DEF One
  <2>. QED
    BY <1>1, <2>2, <2>3, <2>5, <2>6 DEF Spent, One
<1>9. CASE Tick \/ Stopped \/ UNCHANGED vars
  <2>1. UNCHANGED <<limiter, sent, call, pc>>
    BY <1>9 DEF Tick, Stopped, vars, shared, counts
  <2>2. Spent(e)' = Spent(e)
    BY <2>1 DEF Spent, Granted
  <2>. QED
    BY <1>1, <2>1, <2>2 DEF Spent
<1>. QED
  BY <1>3, <1>4, <1>5, <1>6, <1>7, <1>8, <1>9 DEF Next, Proceed

LEMMA InitThrottleInv == Init => ThrottleInv
<1>. SUFFICES ASSUME Init PROVE ThrottleInv
  OBVIOUS
<1>1. \A c \in Callers : pc[c] # "throttle"
  BY DEF Init
<1>2. ASSUME NEW e \in Endpoints, Limited(e)
      PROVE  /\ limiter[e].tokens <= Capacity(Rps[e])
             /\ limiter[e].lastRefill <= clock
             /\ Spent(e) * Token + limiter[e].tokens
                  <= Capacity(Rps[e]) + Rate(Rps[e]) * limiter[e].lastRefill
  <2>1. Rps[e] \in Nat
    BY <1>2, RpcPoolAssumption DEF Limited
  <2>2. /\ Rate(Rps[e]) \in Nat /\ Capacity(Rps[e]) \in Nat /\ Token \in Nat
    BY <2>1, RateType
  <2>3. limiter[e] = [tokens |-> Capacity(Rps[e]), lastRefill |-> 0] /\ clock = 0
    BY <1>2 DEF Init, FullBucket
  <2>4. Granted(e) = {}
    BY DEF Init, Granted, HasGrant
  <2>5. Spent(e) = 0
    BY <2>4, FS_EmptySet DEF Init, Spent
  <2>. QED
    BY <2>2, <2>3, <2>5
<1>. QED
  BY <1>1, <1>2 DEF ThrottleInv

\* An instant read at the limiter is never ahead of the clock.
LEMMA NextAsked ==
    ASSUME IInv, ThrottleInv, [Next]_vars, NEW d \in Callers, pc'[d] = "throttle"
    PROVE  call'[d].asked <= clock'
<1>1. clock \in Nat /\ clock' \in Nat /\ clock <= clock'
  BY ClockForward DEF IInv, TypeOK
<1>2. ASSUME NEW c \in Callers, NEW r, NEW p, Moves(c, r, p), p # "throttle"
      PROVE  call'[d] = call[d] /\ pc[d] = "throttle"
  BY <1>2, MovesType
<1>3. ASSUME NEW c \in Callers, AskLimiter(c)
      PROVE  \/ call'[d].asked = clock
             \/ call'[d] = call[d] /\ pc[d] = "throttle"
  BY <1>3, AskLimiterMoves, MovesType
<1>4. ASSUME NEW c \in Callers, Begin(c) \/ Grant(c) \/ Dispatch(c) \/ Answer(c) \/ Throttle(c)
      PROVE  call'[d] = call[d] /\ pc[d] = "throttle"
  BY <1>2, <1>4, BeginMoves, GrantMoves, DispatchMoves, AnswerMoves, ThrottleMoves
<1>5. ASSUME NEW c \in Callers,
             SkipIncapable(c) \/ SkipCooling(c) \/ Admit(c) \/ SortReads(c) \/ SortCompares(c)
               \/ ReturnAnswer(c) \/ FailOver(c) \/ GiveUp(c) \/ Drop(c)
      PROVE  call'[d] = call[d] /\ pc[d] = "throttle"
  <2>1. PICK r, p : Moves(c, r, p) /\ p \in {"scan", "sort", "next", "idle"}
    BY <1>5, SkipMoves, AdmitMoves, SortMoves, EndMoves
  <2>. QED
    BY <1>2, <2>1
<1>6. ASSUME Tick \/ Stopped \/ UNCHANGED vars
      PROVE  call'[d] = call[d] /\ pc[d] = "throttle"
  BY <1>6 DEF Tick, Stopped, vars
<1>7. \/ call'[d].asked = clock
      \/ call'[d] = call[d] /\ pc[d] = "throttle"
  BY <1>3, <1>4, <1>5, <1>6 DEF Next, Proceed
<1>8. call[d].asked \in Nat /\ (pc[d] = "throttle" => call[d].asked <= clock)
  BY Types DEF ThrottleInv
<1>. QED
  BY <1>1, <1>7, <1>8

LEMMA NextThrottleInv == IInv /\ ThrottleInv /\ [Next]_vars => ThrottleInv'
<1>. SUFFICES ASSUME IInv, ThrottleInv, [Next]_vars, NEW e \in Endpoints, Limited(e)
              PROVE  /\ limiter'[e].tokens <= Capacity(Rps[e])
                     /\ limiter'[e].lastRefill <= clock'
                     /\ Spent(e)' * Token + limiter'[e].tokens
                          <= Capacity(Rps[e]) + Rate(Rps[e]) * limiter'[e].lastRefill
  BY NextAsked DEF ThrottleInv, Limited
<1>1. Rps[e] \in Nat
  BY RpcPoolAssumption DEF Limited
<1>2. /\ Rate(Rps[e]) \in Nat /\ Capacity(Rps[e]) \in Nat /\ Token \in Nat
  BY <1>1, RateType
<1>3. /\ clock \in Nat /\ clock' \in Nat /\ clock <= clock'
      /\ Spent(e) \in Nat
      /\ limiter[e] \in [tokens: 0 .. Capacity(Rps[e]), lastRefill: Nat]
  <2>1. limiter[e] \in Bucket /\ sent[e] \in Nat /\ clock \in Nat
    BY DEF IInv, TypeOK
  <2>2. limiter[e].tokens <= Capacity(Rps[e])
    BY DEF ThrottleInv
  <2>. QED
    BY <1>2, <2>1, <2>2, ClockForward, GrantedType DEF Bucket, Spent
<1>4. /\ limiter[e].lastRefill <= clock
      /\ Spent(e) * Token + limiter[e].tokens
           <= Capacity(Rps[e]) + Rate(Rps[e]) * limiter[e].lastRefill
  BY DEF ThrottleInv
<1>5. CASE Spent(e)' \in Nat /\ Spent(e)' <= Spent(e) /\ limiter'[e] = limiter[e]
  <2>1. Spent(e)' * Token <= Spent(e) * Token
        /\ Spent(e)' * Token \in Nat /\ Spent(e) * Token \in Nat
    BY <1>2, <1>3, <1>5, ProductGrows
  <2>2. Rate(Rps[e]) * limiter[e].lastRefill \in Nat /\ limiter[e].tokens \in Nat
        /\ limiter[e].tokens <= Capacity(Rps[e]) /\ limiter[e].lastRefill \in Nat
    BY <1>2, <1>3
  <2>. QED
    BY <1>2, <1>3, <1>4, <1>5, <2>1, <2>2
<1>6. ASSUME NEW c \in Callers, pc[c] = "throttle", e = Target(c),
             LET b == Refill(limiter[e], Rps[e], call[c].asked)
             IN  \/ Spent(e)' = Spent(e) /\ limiter'[e] = b
                 \/ /\ Spent(e)' = Spent(e) + 1
                    /\ HasToken(b) /\ limiter'[e] = Take(b)
      PROVE  /\ limiter'[e].tokens <= Capacity(Rps[e])
             /\ limiter'[e].lastRefill <= clock'
             /\ Spent(e)' * Token + limiter'[e].tokens
                  <= Capacity(Rps[e]) + Rate(Rps[e]) * limiter'[e].lastRefill
  <2>. DEFINE b == Refill(limiter[e], Rps[e], call[c].asked)
              owed == Spent(e) * Token
              from == Rate(Rps[e]) * limiter[e].lastRefill
              to   == Rate(Rps[e]) * b.lastRefill
  <2>1. call[c].asked \in Nat /\ call[c].asked <= clock
    BY <1>6, Types DEF ThrottleInv
  <2>2. /\ b \in [tokens: 0 .. Capacity(Rps[e]), lastRefill: Nat]
        /\ b.lastRefill = limiter[e].lastRefill \/ b.lastRefill = call[c].asked
        /\ b.tokens <= limiter[e].tokens + (to - from)
    BY <1>1, <1>3, <2>1, RefillBounds
  <2>3. b.lastRefill <= clock' /\ b.tokens \in 0 .. Capacity(Rps[e])
    BY <1>3, <1>4, <2>1, <2>2
  <2>4. owed \in Nat /\ from \in Nat /\ to \in Nat /\ limiter[e].tokens \in Nat
    BY <1>2, <1>3, <2>2
  <2>5. (Spent(e) + 1) * Token = owed + Token
    BY <1>2, <1>3, ProductGrows
  <2>6. owed + b.tokens <= Capacity(Rps[e]) + to
    <3>1. owed + limiter[e].tokens <= Capacity(Rps[e]) + from
      BY <1>4
    <3>. HIDE DEF b, owed, from, to
    <3>. QED
      BY <1>2, <2>2, <2>3, <2>4, <3>1
  <2>7. CASE Spent(e)' = Spent(e) /\ limiter'[e] = b
    <3>. HIDE DEF b
    <3>. QED
      BY <2>3, <2>6, <2>7
  <2>8. CASE Spent(e)' = Spent(e) + 1 /\ HasToken(b) /\ limiter'[e] = Take(b)
    <3>1. /\ Take(b).tokens = b.tokens - Token
          /\ Take(b).lastRefill = b.lastRefill
      BY <1>1, <2>2, <2>8, TakeBounds
    <3>2. /\ limiter'[e].tokens = b.tokens - Token
          /\ limiter'[e].lastRefill = b.lastRefill
          /\ Spent(e)' * Token = owed + Token
      BY <2>5, <2>8, <3>1
    <3>3. Rate(Rps[e]) * limiter'[e].lastRefill = to
      BY <3>2
    <3>. HIDE DEF b, owed, to
    <3>. QED
      BY <1>2, <2>3, <2>4, <2>6, <3>2, <3>3
  <2>. QED
    BY <1>6, <2>7, <2>8
<1>. QED
  BY <1>5, <1>6, SpendStep

(***************************************************************************)
(* Whatever the order in which callers read the clock and get the lock, an *)
(* endpoint is sent no more than its burst and its rate allow              *)
(* (mod.rs:286-294).                                                       *)
(***************************************************************************)
THEOREM ThrottleHolds == Spec => []ThrottleKept
<1>1. IInv /\ ThrottleInv => ThrottleKept
  <2>. SUFFICES ASSUME IInv, ThrottleInv, NEW e \in Endpoints, Limited(e)
                PROVE  sent[e] * Token <= Capacity(Rps[e]) + Rate(Rps[e]) * clock
    BY DEF ThrottleKept
  <2>1. Rps[e] \in Nat
    BY RpcPoolAssumption DEF Limited
  <2>2. Rate(Rps[e]) \in Nat /\ Capacity(Rps[e]) \in Nat /\ Token \in Nat
    BY <2>1, RateType
  <2>3. /\ sent[e] \in Nat /\ clock \in Nat
        /\ limiter[e].tokens \in Nat /\ limiter[e].lastRefill \in Nat
    BY DEF IInv, TypeOK, Bucket
  <2>4. Spent(e) \in Nat /\ sent[e] <= Spent(e)
    BY <2>3, GrantedType DEF Spent
  <2>5. /\ sent[e] * Token \in Nat /\ Spent(e) * Token \in Nat
        /\ sent[e] * Token <= Spent(e) * Token
    BY <2>2, <2>3, <2>4, ProductGrows
  <2>6. /\ limiter[e].lastRefill <= clock
        /\ Spent(e) * Token + limiter[e].tokens
             <= Capacity(Rps[e]) + Rate(Rps[e]) * limiter[e].lastRefill
    BY DEF ThrottleInv
  <2>7. /\ Rate(Rps[e]) * limiter[e].lastRefill \in Nat /\ Rate(Rps[e]) * clock \in Nat
        /\ Rate(Rps[e]) * limiter[e].lastRefill <= Rate(Rps[e]) * clock
    BY <2>2, <2>3, <2>6, ProductGrows
  <2>. QED
    BY <2>2, <2>3, <2>5, <2>6, <2>7
<1>. QED
  BY <1>1, Invariance, InitThrottleInv, NextThrottleInv, PTL DEF Spec

-----------------------------------------------------------------------------
(***************************************************************************)
(* The books.  Every action moves at most one caller, and what it writes   *)
(* to the counters of an endpoint is what it does to the callers that      *)
(* await it or return its answer.                                          *)
(***************************************************************************)
Awaits(r, p, e) == p = "await" /\ r.sort.order[r.next] = e

Returns(r, p, e) == p = "leave" /\ r.verdict # "failed" /\ r.sort.order[r.next] = e

LEMMA BooksStep ==
    ASSUME IInv, NEW c \in Callers, NEW r, NEW p, Moves(c, r, p), NEW e
    PROVE  /\ Cardinality(Awaiting(e)) \in Nat /\ Cardinality(Awaiting(e)') \in Nat
           /\ Cardinality(Awaiting(e)') + One(Awaits(call[c], pc[c], e))
                = Cardinality(Awaiting(e)) + One(Awaits(r, p, e))
           /\ Cardinality(Returning(e)) \in Nat /\ Cardinality(Returning(e)') \in Nat
           /\ Cardinality(Returning(e)') + One(Returns(call[c], pc[c], e))
                = Cardinality(Returning(e)) + One(Returns(r, p, e))
<1>1. /\ Awaiting(e) = {d \in Callers : Awaits(call[d], pc[d], e)}
      /\ Awaiting(e)' = {d \in Callers : Awaits(call'[d], pc'[d], e)}
  BY DEF Awaiting, Awaits, Holding, Target, Candidates
<1>2. /\ Returning(e) = {d \in Callers : Returns(call[d], pc[d], e)}
      /\ Returning(e)' = {d \in Callers : Returns(call'[d], pc'[d], e)}
  BY DEF Returning, Returns, Holding, Target, Candidates
<1>3. IsFiniteSet(Awaiting(e)) /\ IsFiniteSet(Returning(e))
  BY <1>1, <1>2, RpcPoolAssumption, FS_Subset
<1>4. /\ Awaiting(e)' \ {c} = Awaiting(e) \ {c}
      /\ c \in Awaiting(e) <=> Awaits(call[c], pc[c], e)
      /\ c \in Awaiting(e)' <=> Awaits(r, p, e)
  BY <1>1, MovesType
<1>5. /\ Returning(e)' \ {c} = Returning(e) \ {c}
      /\ c \in Returning(e) <=> Returns(call[c], pc[c], e)
      /\ c \in Returning(e)' <=> Returns(r, p, e)
  BY <1>2, MovesType
<1>6. /\ Cardinality(Awaiting(e)) \in Nat /\ Cardinality(Awaiting(e)') \in Nat
      /\ Cardinality(Awaiting(e)') + One(Awaits(call[c], pc[c], e))
           = Cardinality(Awaiting(e)) + One(Awaits(r, p, e))
  BY <1>3, <1>4, OneMoved DEF One
<1>7. /\ Cardinality(Returning(e)) \in Nat /\ Cardinality(Returning(e)') \in Nat
      /\ Cardinality(Returning(e)') + One(Returns(call[c], pc[c], e))
           = Cardinality(Returning(e)) + One(Returns(r, p, e))
  BY <1>3, <1>5, OneMoved DEF One
<1>. QED
  BY <1>6, <1>7

\* The two equations of EveryRequestAccounted for one endpoint.
Balanced(e) ==
    /\ sent[e] = health[e].successes + health[e].failures
                   + Cardinality(Awaiting(e)) + dropped[e]
    /\ health[e].successes = served[e] + Cardinality(Returning(e))

LEMMA NextBalanced ==
    ASSUME IInv, [Next]_vars, NEW e \in Endpoints, Balanced(e)
    PROVE  Balanced(e)'
<1>1. /\ health \in [Endpoints -> Health]
      /\ sent \in [Endpoints -> Nat] /\ served \in [Endpoints -> Nat]
      /\ dropped \in [Endpoints -> Nat]
      /\ health[e].successes \in Nat /\ health[e].failures \in Nat
  BY DEF IInv, TypeOK, Health
\* A caller that was and is neither awaiting nor returning.
<1>2. ASSUME NEW c \in Callers, NEW r, NEW p, Moves(c, r, p),
             pc[c] \notin {"await", "leave"}, p \notin {"await", "leave"},
             UNCHANGED <<health, sent, served, dropped>>
      PROVE  Balanced(e)'
  <2>1. /\ ~Awaits(call[c], pc[c], e) /\ ~Awaits(r, p, e)
        /\ ~Returns(call[c], pc[c], e) /\ ~Returns(r, p, e)
    BY <1>2 DEF Awaits, Returns
  <2>2. /\ Cardinality(Awaiting(e)') = Cardinality(Awaiting(e))
        /\ Cardinality(Returning(e)') = Cardinality(Returning(e))
    BY <1>2, <2>1, BooksStep DEF One
  <2>. QED
    BY <1>2, <2>2 DEF Balanced
<1>3. ASSUME NEW c \in Callers,
             SkipIncapable(c) \/ SkipCooling(c) \/ Admit(c) \/ SortReads(c) \/ SortCompares(c)
      PROVE  Balanced(e)'
  <2>1. PICK r, p : Moves(c, r, p) /\ p \in {"scan", "sort", "next"}
    BY <1>3, SkipMoves, AdmitMoves, SortMoves
  <2>2. pc[c] \in {"scan", "sort"} /\ UNCHANGED <<health, sent, served, dropped>>
    BY <1>3 DEF SkipIncapable, SkipCooling, Admit, SortReads, SortCompares, Scanned, Sorts,
       shared, counts
  <2>. QED
    BY <1>2, <2>1, <2>2
<1>4. ASSUME NEW c \in Callers,
             Begin(c) \/ AskLimiter(c) \/ Throttle(c) \/ Grant(c) \/ GiveUp(c)
      PROVE  Balanced(e)'
  <2>1. PICK r, p : Moves(c, r, p) /\ p \notin {"await", "leave"}
    BY <1>4, BeginMoves, AskLimiterMoves, ThrottleMoves, GrantMoves, EndMoves
  <2>2. /\ pc[c] \in {"idle", "next", "throttle", "admitted"}
        /\ UNCHANGED <<health, sent, served, dropped>>
    BY <1>4 DEF Begin, AskLimiter, Throttle, Grant, GiveUp, PastThrottle, shared, counts
  <2>. QED
    BY <1>2, <2>1, <2>2
<1>5. ASSUME NEW c \in Callers, Dispatch(c)
      PROVE  Balanced(e)'
  <2>1. PICK r : Moves(c, r, "await") /\ SameList(c, r) /\ r.next = call[c].next
    BY <1>5, DispatchMoves
  <2>2. /\ pc[c] \in {"admitted", "next"} /\ Target(c) \in Endpoints
        /\ sent' = [sent EXCEPT ![Target(c)] = @ + 1]
        /\ UNCHANGED <<health, served, dropped>>
    BY <1>5, AtTarget DEF Dispatch, PastThrottle
  <2>3. /\ ~Awaits(call[c], pc[c], e) /\ ~Returns(call[c], pc[c], e)
        /\ Awaits(r, "await", e) <=> e = Target(c)
        /\ ~Returns(r, "await", e)
    BY <2>1, <2>2 DEF Awaits, Returns, SameList, Target, Candidates
  <2>4. sent'[e] = sent[e] + One(e = Target(c))
    BY <1>1, <2>2 DEF One
  <2>5. /\ Cardinality(Awaiting(e)') = Cardinality(Awaiting(e)) + One(e = Target(c))
        /\ Cardinality(Returning(e)') = Cardinality(Returning(e))
        /\ Cardinality(Awaiting(e)) \in Nat /\ One(e = Target(c)) \in Nat
    BY <2>1, <2>3, BooksStep DEF One
  <2>. QED
    BY <1>1, <2>2, <2>4, <2>5 DEF Balanced
<1>6. ASSUME NEW c \in Callers, Answer(c)
      PROVE  Balanced(e)'
  <2>1. PICK r : /\ Moves(c, r, "leave") /\ SameList(c, r) /\ r.next = call[c].next
                 /\ \E h \in Health :
                       /\ health' = [health EXCEPT ![Target(c)] = h]
                       /\ h = IF r.verdict = "failed"
                              THEN RecordFailure(health[Target(c)], clock)
                              ELSE RecordSuccess(health[Target(c)])
    BY <1>6, AnswerMoves
  <2>2. pc[c] = "await" /\ UNCHANGED <<sent, served, dropped>>
    BY <1>6 DEF Answer, counts
  <2>3. /\ Awaits(call[c], pc[c], e) <=> e = Target(c)
        /\ ~Awaits(r, "leave", e)
        /\ ~Returns(call[c], pc[c], e)
        /\ Returns(r, "leave", e) <=> e = Target(c) /\ r.verdict # "failed"
    BY <2>1, <2>2 DEF Awaits, Returns, SameList, Target, Candidates
  <2>4. CASE e # Target(c)
    <3>1. health'[e] = health[e]
      BY <1>1, <2>1, <2>4
    <3>2. /\ Cardinality(Awaiting(e)') = Cardinality(Awaiting(e))
          /\ Cardinality(Returning(e)') = Cardinality(Returning(e))
      BY <2>1, <2>3, <2>4, BooksStep DEF One
    <3>. QED
      BY <2>2, <3>1, <3>2 DEF Balanced
  <2>5. CASE e = Target(c) /\ r.verdict = "failed"
    <3>1. health'[e] = RecordFailure(health[e], clock)
      BY <1>1, <2>1, <2>5
    <3>2. /\ health'[e].successes = health[e].successes
          /\ health'[e].failures = health[e].failures + 1
      BY <1>1, <3>1, Types, RecordCounts
    <3>3. /\ Cardinality(Awaiting(e)') + 1 = Cardinality(Awaiting(e))
          /\ Cardinality(Awaiting(e)') \in Nat
          /\ Cardinality(Returning(e)') = Cardinality(Returning(e))
      BY <2>1, <2>3, <2>5, BooksStep DEF One
    <3>. QED
      BY <1>1, <2>2, <3>2, <3>3 DEF Balanced
  <2>6. CASE e = Target(c) /\ r.verdict # "failed"
    <3>1. health'[e] = RecordSuccess(health[e])
      BY <1>1, <2>1, <2>6
    <3>2. /\ health'[e].successes = health[e].successes + 1
          /\ health'[e].failures = health[e].failures
      BY <1>1, <3>1, Types, RecordCounts
    <3>3. /\ Cardinality(Awaiting(e)') + 1 = Cardinality(Awaiting(e))
          /\ Cardinality(Awaiting(e)') \in Nat
          /\ Cardinality(Returning(e)') = Cardinality(Returning(e)) + 1
          /\ Cardinality(Returning(e)) \in Nat
      BY <2>1, <2>3, <2>6, BooksStep DEF One
    <3>. QED
      BY <1>1, <2>2, <3>2, <3>3 DEF Balanced
  <2>. QED
    BY <2>4, <2>5, <2>6
<1>7. ASSUME NEW c \in Callers, ReturnAnswer(c) \/ FailOver(c) \/ Drop(c)
      PROVE  Balanced(e)'
  <2>1. PICK r, p : Moves(c, r, p) /\ p \in {"idle", "next"}
    BY <1>7, EndMoves
  <2>2. ~Awaits(r, p, e) /\ ~Returns(r, p, e)
    BY <2>1 DEF Awaits, Returns
  <2>3. /\ pc[c] \in {"await", "leave"} /\ Target(c) \in Endpoints
        /\ UNCHANGED <<health, sent>>
    BY <1>7, AtTarget DEF ReturnAnswer, FailOver, Drop, counts
  <2>4. CASE ReturnAnswer(c)
    <3>1. /\ ~Awaits(call[c], pc[c], e)
          /\ Returns(call[c], pc[c], e) <=> e = Target(c)
      BY <2>4 DEF ReturnAnswer, Awaits, Returns, Target, Candidates
    <3>2. served' = [served EXCEPT ![Target(c)] = @ + 1] /\ dropped' = dropped
      BY <2>4 DEF ReturnAnswer
    <3>3. served'[e] = served[e] + One(e = Target(c))
      BY <1>1, <2>3, <3>2 DEF One
    <3>4. /\ Cardinality(Awaiting(e)') = Cardinality(Awaiting(e))
          /\ Cardinality(Returning(e)') + One(e = Target(c)) = Cardinality(Returning(e))
          /\ Cardinality(Returning(e)') \in Nat /\ One(e = Target(c)) \in Nat
      BY <2>1, <2>2, <3>1, BooksStep DEF One
    <3>. QED
      BY <1>1, <2>3, <3>2, <3>3, <3>4 DEF Balanced
  <2>5. CASE FailOver(c)
    <3>1. ~Awaits(call[c], pc[c], e) /\ ~Returns(call[c], pc[c], e)
      BY <2>5 DEF FailOver, Awaits, Returns
    <3>2. UNCHANGED <<served, dropped>>
      BY <2>5 DEF FailOver, counts
    <3>3. /\ Cardinality(Awaiting(e)') = Cardinality(Awaiting(e))
          /\ Cardinality(Returning(e)') = Cardinality(Returning(e))
      BY <2>1, <2>2, <3>1, BooksStep DEF One
    <3>. QED
      BY <2>3, <3>2, <3>3 DEF Balanced
  <2>6. CASE Drop(c)
    <3>1. /\ Awaits(call[c], pc[c], e) <=> e = Target(c)
          /\ ~Returns(call[c], pc[c], e)
      BY <2>6 DEF Drop, Awaits, Returns, Target, Candidates
    <3>2. dropped' = [dropped EXCEPT ![Target(c)] = @ + 1] /\ served' = served
      BY <2>6 DEF Drop
    <3>3. dropped'[e] = dropped[e] + One(e = Target(c))
      BY <1>1, <2>3, <3>2 DEF One
    <3>4. /\ Cardinality(Awaiting(e)') + One(e = Target(c)) = Cardinality(Awaiting(e))
          /\ Cardinality(Awaiting(e)') \in Nat /\ One(e = Target(c)) \in Nat
          /\ Cardinality(Returning(e)') = Cardinality(Returning(e))
      BY <2>1, <2>2, <3>1, BooksStep DEF One
    <3>. QED
      BY <1>1, <2>3, <3>2, <3>3, <3>4 DEF Balanced
  <2>. QED
    BY <1>7, <2>4, <2>5, <2>6
<1>8. CASE Tick \/ Stopped \/ UNCHANGED vars
  <2>1. UNCHANGED <<health, sent, served, dropped, call, pc>>
    BY <1>8 DEF Tick, Stopped, vars, shared, counts
  <2>. QED
    BY <2>1 DEF Balanced, Awaiting, Returning, Holding, Target, Candidates
<1>. QED
  BY <1>3, <1>4, <1>5, <1>6, <1>7, <1>8 DEF Next, Proceed

(***************************************************************************)
(* Each request is recorded exactly once, or is awaited, or was dropped,   *)
(* and the successes on record are the answers callers got                 *)
(* (mod.rs:301-389).                                                       *)
(***************************************************************************)
THEOREM BooksBalance == Spec => []EveryRequestAccounted
<1>1. Init => EveryRequestAccounted
  <2>1. ASSUME Init, NEW e \in Endpoints
        PROVE  Awaiting(e) = {} /\ Returning(e) = {}
    BY <2>1 DEF Init, Awaiting, Returning, Holding
  <2>2. Cardinality({}) = 0
    BY FS_EmptySet
  <2>. QED
    BY <2>1, <2>2 DEF Init, EveryRequestAccounted, FreshHealth
<1>2. IInv /\ EveryRequestAccounted /\ [Next]_vars => EveryRequestAccounted'
  BY NextBalanced DEF EveryRequestAccounted, Balanced
<1>. QED
  BY <1>1, <1>2, Invariance, PTL DEF Spec

-----------------------------------------------------------------------------
(***************************************************************************)
(* What one call makes of its candidates: it asks no endpoint twice, gives *)
(* up only when nothing is left, keeps the tiers, and so implements        *)
(* FailoverCall.                                                           *)
(***************************************************************************)

\* The candidates not dealt with yet.
From(q, n) == {q[i] : i \in n .. Len(q)}
Ahead(r)   == From(r.sort.order, r.next)

\* The endpoints passed over.
Excused(r) == r.incapable \cup r.cooling \cup r.throttled

\* The dispatches that are not failures.
Pending(r, p) ==
    IF p \in {"await", "leave"} \/ r.outcome \in {"Result", "RpcError", "Dropped"} THEN 1 ELSE 0

(***************************************************************************)
(* The ledger a call keeps: every endpoint it has looked at is still ahead *)
(* or has failed or is excused, and only one of these.                     *)
(***************************************************************************)
Partitioned(r) ==
    /\ Distinct(r.sort.order)
    /\ Ahead(r) \cup r.failed \cup Excused(r) = 1 .. (r.scan - 1)
    /\ Ahead(r) \cap (r.failed \cup Excused(r)) = {}
    /\ r.failed \cap Excused(r) = {}

Counted(r, p) ==
    /\ r.tried = Cardinality(r.failed) + Pending(r, p)
    /\ MaxRetries # 0 => r.tried <= MaxRetries

\* How far a call is, by the place where it stands.
Staged(r, p) ==
    /\ p # "idle" => r.outcome = "none"
    /\ p = "scan" => Increasing(r.sort.order) /\ r.sort.left = NoKey
    /\ p \in {"scan", "sort"} => r.next = 1
    /\ p \notin {"idle", "scan"} => r.scan = N + 1
    /\ r.outcome \in {"NoCandidates", "AllFailed"} =>
          /\ p = "idle" /\ r.scan = N + 1
          /\ Ahead(r) = {} \/ (MaxRetries # 0 /\ r.tried = MaxRetries)

(***************************************************************************)
(* The inductive invariant of this module.  AskedOnce says nothing of the  *)
(* candidates ahead, so it is not inductive: a call could come to ask an   *)
(* endpoint that has failed already.  The partition rules that out.        *)
(***************************************************************************)
LedgerOK(r, p) == Partitioned(r) /\ Counted(r, p) /\ Staged(r, p)

LedgerInv == \A c \in Callers : LedgerOK(call[c], pc[c])

-----------------------------------------------------------------------------
\* Lists of candidates, as the scan and the loop use them.

LEMMA FromAll ==
    ASSUME NEW q
    PROVE  From(q, 1) = Elements(q)
  BY DEF From, Elements

LEMMA FromAdvance ==
    ASSUME NEW q \in Seq(Endpoints), Distinct(q), NEW n \in 1 .. Len(q)
    PROVE  /\ q[n] \in From(q, n) /\ q[n] \in Endpoints
           /\ From(q, n + 1) = From(q, n) \ {q[n]}
<1>1. n \in n .. Len(q) /\ q[n] \in Endpoints
  OBVIOUS
<1>2. ASSUME NEW x \in From(q, n + 1)
      PROVE  x \in From(q, n) \ {q[n]}
  <2>1. PICK i \in (n + 1) .. Len(q) : x = q[i]
    BY <1>2 DEF From
  <2>2. i \in n .. Len(q) /\ i \in 1 .. Len(q) /\ i # n
    BY <2>1
  <2>. QED
    BY <2>1, <2>2 DEF From, Distinct
<1>3. ASSUME NEW x \in From(q, n) \ {q[n]}
      PROVE  x \in From(q, n + 1)
  <2>1. PICK i \in n .. Len(q) : x = q[i]
    BY <1>3 DEF From
  <2>2. i # n
    BY <1>3, <2>1
  <2>3. i \in (n + 1) .. Len(q)
    BY <2>1, <2>2
  <2>. QED
    BY <2>1, <2>3 DEF From
<1>4. q[n] \in From(q, n)
  BY <1>1 DEF From
<1>. QED
  BY <1>1, <1>2, <1>3, <1>4

\* The scan pushes the candidates in index order.
LEMMA AppendListed ==
    ASSUME NEW q \in Seq(Endpoints), NEW e \in Endpoints,
           \A i \in 1 .. Len(q) : q[i] < e, Increasing(q)
    PROVE  /\ Append(q, e) \in Seq(Endpoints)
           /\ Elements(Append(q, e)) = Elements(q) \cup {e}
           /\ Increasing(Append(q, e))
<1>1. /\ Append(q, e) \in Seq(Endpoints) /\ Len(q) \in Nat
      /\ Len(Append(q, e)) = Len(q) + 1
      /\ Append(q, e)[Len(q) + 1] = e
      /\ \A i \in 1 .. Len(q) : Append(q, e)[i] = q[i]
  OBVIOUS
<1>2. 1 .. Len(Append(q, e)) = (1 .. Len(q)) \cup {Len(q) + 1}
  BY <1>1
<1>. DEFINE s == Append(q, e)
<1>. HIDE DEF s
<1>3. Elements(s) = Elements(q) \cup {e}
  BY <1>1, <1>2 DEF Elements, s
<1>4. ASSUME NEW i \in 1 .. Len(s), NEW j \in 1 .. Len(s), i < j
      PROVE  s[i] < s[j]
  BY <1>1, <1>4 DEF Increasing, s
<1>. QED
  BY <1>1, <1>3, <1>4 DEF Increasing, s

-----------------------------------------------------------------------------
(***************************************************************************)
(* The ledger over one step of a call, as a fact about its locals: o are   *)
(* the old ones and r the new ones.                                        *)
(***************************************************************************)

LEMMA FreshLedger ==
    ASSUME NEW mode \in {"call", "forward"}, NEW method \in Methods, NEW now \in Nat
    PROVE  /\ LedgerOK(FreshCall(mode, method, now), "scan")
           /\ LedgerOK(FreshCall(mode, method, now), "idle")
<1>. DEFINE r == FreshCall(mode, method, now)
<1>1. /\ r.sort.order = <<>> /\ r.sort.left = NoKey /\ r.next = 1 /\ r.scan = 1
      /\ r.failed = {} /\ r.incapable = {} /\ r.cooling = {} /\ r.throttled = {}
      /\ r.tried = 0 /\ r.outcome = "none"
  BY DEF FreshCall, StartCursor
<1>. HIDE DEF r
<1>2. Len(r.sort.order) = 0
  BY <1>1
<1>3. Ahead(r) = {} /\ Excused(r) = {} /\ Distinct(r.sort.order) /\ Increasing(r.sort.order)
  BY <1>1, <1>2 DEF Ahead, From, Excused, Distinct, Increasing
<1>4. Partitioned(r)
  BY <1>1, <1>3 DEF Partitioned
<1>5. Pending(r, "scan") = 0 /\ Pending(r, "idle") = 0
  BY <1>1 DEF Pending
<1>6. Counted(r, "scan") /\ Counted(r, "idle")
  BY <1>1, <1>5, FS_EmptySet, RpcPoolAssumption DEF Counted
<1>7. Staged(r, "scan") /\ Staged(r, "idle")
  BY <1>1, <1>3 DEF Staged
<1>. QED
  BY <1>4, <1>6, <1>7 DEF LedgerOK, r

\* What a call has failed with is a finite set, to be counted.
LEMMA FailedFinite ==
    ASSUME NEW o \in Call
    PROVE  IsFiniteSet(o.failed) /\ Cardinality(o.failed) \in Nat
<1>1. IsFiniteSet(Endpoints)
  BY RoutingAssumption, FS_Interval DEF Endpoints
<1>2. o.failed \subseteq Endpoints
  BY DEF Call
<1>. QED
  BY <1>1, <1>2, FS_Subset, FS_CardinalityType

\* The entry looked at is a new one.
LEMMA EntryIsNew ==
    ASSUME NEW o \in Call, LedgerOK(o, "scan"), o.scan \in Endpoints
    PROVE  /\ o.scan \notin Ahead(o) \cup o.failed \cup Excused(o)
           /\ (1 .. (o.scan - 1)) \cup {o.scan} = 1 .. o.scan
           /\ Ahead(o) = Elements(o.sort.order)
           /\ \A i \in 1 .. Len(o.sort.order) : o.sort.order[i] < o.scan
<1>1. o.scan \in 1 .. N
  BY DEF Endpoints
<1>2. (1 .. (o.scan - 1)) \cup {o.scan} = 1 .. o.scan /\ o.scan \notin 1 .. (o.scan - 1)
  BY <1>1, RoutingAssumption
<1>3. Ahead(o) = Elements(o.sort.order)
  BY FromAll DEF LedgerOK, Staged, Ahead
<1>4. Ahead(o) \cup o.failed \cup Excused(o) = 1 .. (o.scan - 1)
  BY DEF LedgerOK, Partitioned
<1>5. \A i \in 1 .. Len(o.sort.order) : o.sort.order[i] \in 1 .. (o.scan - 1)
  BY <1>3, <1>4 DEF Elements
<1>. QED
  BY <1>2, <1>3, <1>4, <1>5

\* The fields the scan and the sort leave alone.
SameLoop(o, r) ==
    /\ r.next = o.next /\ r.failed = o.failed /\ r.throttled = o.throttled
    /\ r.tried = o.tried /\ r.outcome = o.outcome

\* The fields the loop over the candidates leaves alone.
SameScan(o, r) ==
    /\ r.scan = o.scan /\ r.incapable = o.incapable /\ r.cooling = o.cooling
    /\ r.sort = o.sort /\ r.method = o.method /\ r.mode = o.mode

\* The scan files its entry under exactly one heading (mod.rs:241-252).
LEMMA ScanLedger ==
    ASSUME NEW o \in Call, LedgerOK(o, "scan"), o.scan \in Endpoints,
           NEW r, SameLoop(o, r), r.scan = o.scan + 1, r.sort.left = o.sort.left,
           \/ /\ r.sort.order = o.sort.order
              /\ r.incapable \cup r.cooling = o.incapable \cup o.cooling \cup {o.scan}
           \/ /\ r.sort.order = Append(o.sort.order, o.scan)
              /\ r.incapable = o.incapable /\ r.cooling = o.cooling,
           NEW p \in {"scan", "sort", "next"}, p # "scan" => o.scan = N
    PROVE  LedgerOK(r, p)
<1>. DEFINE e == o.scan
<1>1. /\ e \notin Ahead(o) \cup o.failed \cup Excused(o)
      /\ (1 .. (e - 1)) \cup {e} = 1 .. e
      /\ Ahead(o) = Elements(o.sort.order)
      /\ \A i \in 1 .. Len(o.sort.order) : o.sort.order[i] < e
  BY EntryIsNew
<1>2. o.sort.order \in Seq(Endpoints) /\ e \in Nat /\ r.scan - 1 = e
  BY RoutingAssumption DEF Call, Cursors, Endpoints
<1>3. /\ Distinct(o.sort.order)
      /\ Ahead(o) \cup o.failed \cup Excused(o) = 1 .. (e - 1)
      /\ Ahead(o) \cap (o.failed \cup Excused(o)) = {}
      /\ o.failed \cap Excused(o) = {}
      /\ Increasing(o.sort.order) /\ o.sort.left = NoKey
      /\ o.next = 1 /\ o.outcome = "none"
  BY DEF LedgerOK, Partitioned, Staged
<1>4. /\ Increasing(r.sort.order) /\ Distinct(r.sort.order)
      /\ \/ Ahead(r) = Ahead(o) /\ Excused(r) = Excused(o) \cup {e}
         \/ Ahead(r) = Ahead(o) \cup {e} /\ Excused(r) = Excused(o)
  <2>1. Ahead(r) = Elements(r.sort.order)
    BY <1>3, FromAll DEF Ahead, SameLoop
  <2>2. CASE /\ r.sort.order = o.sort.order
             /\ r.incapable \cup r.cooling = o.incapable \cup o.cooling \cup {e}
    <3>1. Ahead(r) = Ahead(o)
      BY <1>1, <2>1, <2>2
    <3>2. Excused(r) = Excused(o) \cup {e}
      BY <2>2 DEF Excused, SameLoop
    <3>. QED
      BY <1>3, <2>2, <3>1, <3>2
  <2>3. CASE /\ r.sort.order = Append(o.sort.order, e)
             /\ r.incapable = o.incapable /\ r.cooling = o.cooling
    <3>1. /\ r.sort.order \in Seq(Endpoints)
          /\ Elements(r.sort.order) = Elements(o.sort.order) \cup {e}
          /\ Increasing(r.sort.order)
      <4>1. /\ Append(o.sort.order, e) \in Seq(Endpoints)
            /\ Elements(Append(o.sort.order, e)) = Elements(o.sort.order) \cup {e}
            /\ Increasing(Append(o.sort.order, e))
        BY <1>1, <1>2, <1>3, AppendListed
      <4>. QED
        BY <2>3, <4>1
    <3>2. Excused(r) = Excused(o)
      BY <2>3 DEF Excused, SameLoop
    <3>. QED
      BY <1>1, <2>1, <3>1, <3>2, IncreasingIsDistinct
  <2>. QED
    BY <2>2, <2>3
<1>5. Partitioned(r)
  BY <1>1, <1>2, <1>3, <1>4 DEF Partitioned, SameLoop
<1>6. Counted(r, p)
  <2>1. Pending(r, p) = Pending(o, "scan")
    BY DEF Pending, SameLoop
  <2>. QED
    BY <2>1 DEF LedgerOK, Counted, SameLoop
<1>7. Staged(r, p)
  BY <1>2, <1>3, <1>4, RoutingAssumption DEF Staged, SameLoop
<1>. QED
  BY <1>5, <1>6, <1>7 DEF LedgerOK

\* The sort permutes the candidates and touches nothing else.
LEMMA SortLedger ==
    ASSUME NEW o \in Call, LedgerOK(o, "sort"),
           NEW r, SameLoop(o, r),
           r.scan = o.scan, r.incapable = o.incapable, r.cooling = o.cooling,
           Elements(r.sort.order) = Elements(o.sort.order), Distinct(r.sort.order),
           NEW p \in {"sort", "next"}
    PROVE  LedgerOK(r, p)
<1>1. o.next = 1 /\ o.outcome = "none" /\ o.scan = N + 1
  BY DEF LedgerOK, Staged
<1>2. Ahead(r) = Ahead(o) /\ Excused(r) = Excused(o)
  BY <1>1, FromAll DEF Ahead, Excused, SameLoop
<1>3. Partitioned(r)
  BY <1>2 DEF LedgerOK, Partitioned, SameLoop
<1>4. Pending(r, p) = Pending(o, "sort")
  BY DEF Pending, SameLoop
<1>5. Counted(r, p)
  BY <1>4 DEF LedgerOK, Counted, SameLoop
<1>6. Staged(r, p)
  BY <1>1 DEF Staged, SameLoop
<1>. QED
  BY <1>3, <1>5, <1>6 DEF LedgerOK

\* A step that touches nothing the ledger is about.
LEMMA SameLedger ==
    ASSUME NEW o \in Call, NEW old \in Places \ {"idle", "scan"}, LedgerOK(o, old),
           NEW r, SameLoop(o, r), SameScan(o, r),
           NEW p \in Places \ {"idle", "scan", "sort"}, Pending(r, p) = Pending(o, old)
    PROVE  LedgerOK(r, p)
<1>1. Ahead(r) = Ahead(o) /\ Excused(r) = Excused(o)
  BY DEF Ahead, Excused, SameLoop, SameScan
<1>2. Partitioned(r)
  BY <1>1 DEF LedgerOK, Partitioned, SameLoop, SameScan
<1>3. Counted(r, p)
  BY DEF LedgerOK, Counted, SameLoop
<1>4. Staged(r, p)
  BY DEF LedgerOK, Staged, SameLoop, SameScan
<1>. QED
  BY <1>2, <1>3, <1>4 DEF LedgerOK

\* The candidate at `next' is dealt with: it failed or had no token.
LEMMA AdvanceLedger ==
    ASSUME NEW o \in Call, NEW old \in {"throttle", "leave"}, LedgerOK(o, old),
           o.next \in 1 .. Len(o.sort.order),
           NEW r, SameScan(o, r), r.next = o.next + 1,
           r.tried = o.tried, r.outcome = o.outcome,
           LET e == o.sort.order[o.next]
           IN  IF old = "leave"
               THEN r.failed = o.failed \cup {e} /\ r.throttled = o.throttled
               ELSE r.failed = o.failed /\ r.throttled = o.throttled \cup {e}
    PROVE  LedgerOK(r, "next")
<1>. DEFINE e == o.sort.order[o.next]
<1>1. o.sort.order \in Seq(Endpoints) /\ Distinct(o.sort.order)
  BY DEF Call, Cursors, LedgerOK, Partitioned
<1>2. e \in Ahead(o) /\ Ahead(r) = Ahead(o) \ {e}
  BY <1>1, FromAdvance DEF Ahead, SameScan
<1>3. /\ Ahead(o) \cup o.failed \cup Excused(o) = 1 .. (o.scan - 1)
      /\ Ahead(o) \cap (o.failed \cup Excused(o)) = {}
      /\ o.failed \cap Excused(o) = {}
      /\ o.outcome = "none" /\ o.scan = N + 1
  BY DEF LedgerOK, Partitioned, Staged
<1>4. e \notin o.failed \cup Excused(o)
  BY <1>2, <1>3
<1>5. IF old = "leave"
      THEN r.failed = o.failed \cup {e} /\ Excused(r) = Excused(o)
      ELSE r.failed = o.failed /\ Excused(r) = Excused(o) \cup {e}
  BY DEF Excused, SameScan
<1>6. r.scan = o.scan /\ r.sort = o.sort
  BY DEF SameScan
<1>. HIDE DEF e
<1>7. Partitioned(r)
  <2>1. Distinct(r.sort.order)
    BY <1>1, <1>6
  <2>2. CASE old = "leave"
    BY <1>2, <1>3, <1>4, <1>5, <1>6, <2>1, <2>2 DEF Partitioned
  <2>3. CASE old # "leave"
    BY <1>2, <1>3, <1>4, <1>5, <1>6, <2>1, <2>3 DEF Partitioned
  <2>. QED
    BY <2>2, <2>3
<1>8. Counted(r, "next")
  <2>1. /\ Pending(o, old) = (IF old = "leave" THEN 1 ELSE 0)
        /\ Pending(r, "next") = 0
    BY <1>3 DEF Pending
  <2>2. Cardinality(r.failed) = Cardinality(o.failed) + (IF old = "leave" THEN 1 ELSE 0)
    BY <1>4, <1>5, FailedFinite, FS_AddElement
  <2>3. o.tried = Cardinality(o.failed) + Pending(o, old) /\ (MaxRetries # 0 => o.tried <= MaxRetries)
    BY DEF LedgerOK, Counted
  <2>. QED
    BY <2>1, <2>2, <2>3, FailedFinite DEF Counted
<1>9. Staged(r, "next")
  BY <1>3, <1>6 DEF Staged
<1>. QED
  BY <1>7, <1>8, <1>9 DEF LedgerOK

\* One more request is out, within the budget (mod.rs:296-301).
LEMMA DispatchLedger ==
    ASSUME NEW o \in Call, NEW old \in {"next", "admitted"}, LedgerOK(o, old),
           ~(MaxRetries # 0 /\ o.tried >= MaxRetries),
           NEW r, SameScan(o, r), r.next = o.next, r.failed = o.failed,
           r.throttled = o.throttled, r.tried = o.tried + 1, r.outcome = o.outcome
    PROVE  LedgerOK(r, "await")
<1>1. o.outcome = "none" /\ o.scan = N + 1
  BY DEF LedgerOK, Staged
<1>2. Ahead(r) = Ahead(o) /\ Excused(r) = Excused(o)
  BY DEF Ahead, Excused, SameScan
<1>3. Partitioned(r)
  BY <1>2 DEF LedgerOK, Partitioned, SameScan
<1>4. Pending(o, old) = 0 /\ Pending(r, "await") = 1
  BY <1>1 DEF Pending
<1>5. Counted(r, "await")
  <2>1. o.tried = Cardinality(o.failed) + 0 /\ o.tried \in Nat
    BY <1>4 DEF LedgerOK, Counted, Call
  <2>2. MaxRetries # 0 => o.tried + 1 <= MaxRetries
    BY <2>1, RpcPoolAssumption
  <2>. QED
    BY <1>4, <2>1, <2>2, FailedFinite DEF Counted
<1>6. Staged(r, "await")
  BY <1>1 DEF Staged, SameScan
<1>. QED
  BY <1>3, <1>5, <1>6 DEF LedgerOK

\* The call ends with the answer of the endpoint asked, or is dropped.
LEMMA AnsweredLedger ==
    ASSUME NEW o \in Call, NEW old \in {"await", "leave"}, LedgerOK(o, old),
           NEW how \in {"Result", "RpcError", "Dropped"},
           NEW r, r = [o EXCEPT !.outcome = how]
    PROVE  LedgerOK(r, "idle")
<1>1. /\ SameScan(o, r) /\ r.next = o.next /\ r.failed = o.failed
      /\ r.throttled = o.throttled /\ r.tried = o.tried /\ r.outcome = how
  BY DEF Call, SameScan
<1>2. Ahead(r) = Ahead(o) /\ Excused(r) = Excused(o)
  BY <1>1 DEF Ahead, Excused, SameScan
<1>3. Partitioned(r)
  BY <1>1, <1>2 DEF LedgerOK, Partitioned, SameScan
<1>4. Pending(r, "idle") = 1 /\ Pending(o, old) = 1
  BY <1>1 DEF Pending
<1>5. Counted(r, "idle")
  BY <1>1, <1>4 DEF LedgerOK, Counted
<1>6. Staged(r, "idle")
  BY <1>1 DEF Staged
<1>. QED
  BY <1>3, <1>5, <1>6 DEF LedgerOK

\* The call ends in an error: nothing is ahead, or the budget is spent.
LEMMA RefusedLedger ==
    ASSUME NEW o \in Call, NEW old \in {"next", "admitted"}, LedgerOK(o, old),
           o.next > Len(o.sort.order) \/ (MaxRetries # 0 /\ o.tried >= MaxRetries),
           NEW how \in {"NoCandidates", "AllFailed"},
           NEW r, r = [o EXCEPT !.outcome = how]
    PROVE  LedgerOK(r, "idle")
<1>1. /\ SameScan(o, r) /\ r.next = o.next /\ r.failed = o.failed
      /\ r.throttled = o.throttled /\ r.tried = o.tried /\ r.outcome = how
  BY DEF Call, SameScan
<1>2. Ahead(r) = Ahead(o) /\ Excused(r) = Excused(o)
  BY <1>1 DEF Ahead, Excused, SameScan
<1>3. Partitioned(r)
  BY <1>1, <1>2 DEF LedgerOK, Partitioned, SameScan
<1>4. o.outcome = "none" /\ o.scan = N + 1
  BY DEF LedgerOK, Staged
<1>5. Pending(r, "idle") = 0 /\ Pending(o, old) = 0
  BY <1>1, <1>4 DEF Pending
<1>6. Counted(r, "idle")
  BY <1>1, <1>5 DEF LedgerOK, Counted
<1>7. Ahead(o) = {} \/ (MaxRetries # 0 /\ o.tried = MaxRetries)
  <2>1. CASE o.next > Len(o.sort.order)
    <3>1. o.next \in Nat /\ Len(o.sort.order) \in Nat
      BY DEF Call, Cursors
    <3>2. o.next .. Len(o.sort.order) = {}
      BY <2>1, <3>1
    <3>. QED
      BY <3>2 DEF Ahead, From
  <2>2. CASE MaxRetries # 0 /\ o.tried >= MaxRetries
    <3>1. o.tried \in Nat /\ o.tried <= MaxRetries
      BY <2>2 DEF Call, LedgerOK, Counted
    <3>. QED
      BY <2>2, <3>1, RpcPoolAssumption
  <2>. QED
    BY <2>1, <2>2
<1>8. Staged(r, "idle")
  BY <1>1, <1>2, <1>4, <1>7 DEF Staged, SameScan
<1>. QED
  BY <1>3, <1>6, <1>8 DEF LedgerOK

-----------------------------------------------------------------------------
(***************************************************************************)
(* What each step of a call leaves its locals at: a fact per field, and    *)
(* the other calls untouched.                                              *)
(***************************************************************************)
OthersKept(c) == \A d \in Callers \ {c} : call'[d] = call[d] /\ pc'[d] = pc[d]

\* The ledgers are kept apart: a step is about one call.
LEMMA LedgerKept ==
    ASSUME LedgerInv, NEW c \in Callers, OthersKept(c), LedgerOK(call'[c], pc'[c])
    PROVE  LedgerInv'
  BY DEF LedgerInv, OthersKept

\* The parts of Call a step of the scan leaves alone.
SameRequest(o, r) == r.mode = o.mode /\ r.method = o.method /\ r.verdict = o.verdict

LEMMA ScannedFields ==
    ASSUME IInv, NEW c \in Callers, pc[c] = "scan",
           NEW q \in Call, q.scan = call[c].scan, Scanned(c, q)
    PROVE  /\ OthersKept(c)
           /\ pc'[c] \in {"scan", "sort", "next"} /\ (pc'[c] # "scan" => call[c].scan = N)
           /\ SameLoop(q, call'[c]) /\ SameRequest(q, call'[c])
           /\ call'[c].scan = call[c].scan + 1 /\ call'[c].sort = q.sort
           /\ call'[c].incapable = q.incapable /\ call'[c].cooling = q.cooling
<1>1. call \in [Callers -> Call] /\ pc \in [Callers -> Places] /\ CallOK(call[c], "scan")
  BY Types DEF IInv, TypeOK
<1>2. PICK k : k = q.scan + 1
  OBVIOUS
<1>. DEFINE r == [q EXCEPT !.scan = k]
            p == IF q.scan < N THEN "scan" ELSE Phase(q.sort)
<1>3. call' = [call EXCEPT ![c] = r] /\ pc' = [pc EXCEPT ![c] = p]
  BY <1>2 DEF Scanned
<1>4. /\ SameLoop(q, r) /\ SameRequest(q, r) /\ r.scan = k /\ r.sort = q.sort
      /\ r.incapable = q.incapable /\ r.cooling = q.cooling
  BY DEF Call, SameLoop, SameRequest
<1>5. p \in {"scan", "sort", "next"} /\ (p # "scan" => call[c].scan = N)
  <2>1. q.scan \in 1 .. N
    BY <1>1 DEF CallOK, Endpoints
  <2>2. p # "scan" => q.scan = N
    BY <2>1, RoutingAssumption
  <2>. QED
    BY <2>2 DEF Phase
<1>. HIDE DEF r, p
<1>. QED
  BY <1>1, <1>2, <1>3, <1>4, <1>5 DEF OthersKept

\* The entry looked at goes under one of three headings.
LEMMA ScanFields ==
    ASSUME IInv, NEW c \in Callers, SkipIncapable(c) \/ SkipCooling(c) \/ Admit(c)
    PROVE  /\ pc[c] = "scan" /\ call[c] \in Call /\ call[c].scan \in Endpoints
           /\ OthersKept(c)
           /\ pc'[c] \in {"scan", "sort", "next"} /\ (pc'[c] # "scan" => call[c].scan = N)
           /\ SameLoop(call[c], call'[c]) /\ SameRequest(call[c], call'[c])
           /\ call'[c].scan = call[c].scan + 1
           /\ call'[c].sort.left = call[c].sort.left
           /\ \/ /\ SkipIncapable(c) /\ call'[c].sort.order = Candidates(c)
                 /\ call'[c].incapable = call[c].incapable \cup {call[c].scan}
                 /\ call'[c].cooling = call[c].cooling
              \/ /\ SkipCooling(c) /\ call'[c].sort.order = Candidates(c)
                 /\ call'[c].incapable = call[c].incapable
                 /\ call'[c].cooling = call[c].cooling \cup {call[c].scan}
              \/ /\ Admit(c) /\ call'[c].sort.order = Append(Candidates(c), call[c].scan)
                 /\ call'[c].incapable = call[c].incapable
                 /\ call'[c].cooling = call[c].cooling
<1>. DEFINE o == call[c]
            e == call[c].scan
<1>1. pc[c] = "scan" /\ o \in Call /\ o.sort \in Cursors /\ e \in Endpoints
      /\ Candidates(c) \in Seq(Endpoints)
  BY Types DEF SkipIncapable, SkipCooling, Admit, CallOK
<1>2. CASE SkipIncapable(c)
  <2>. DEFINE q == [o EXCEPT !.incapable = @ \cup {e}]
  <2>1. /\ q \in Call /\ SameLoop(o, q) /\ SameRequest(o, q) /\ q.scan = e
        /\ q.sort = o.sort /\ q.incapable = o.incapable \cup {e} /\ q.cooling = o.cooling
    BY <1>1 DEF Call, SameLoop, SameRequest
  <2>2. Scanned(c, q)
    BY <1>2 DEF SkipIncapable
  <2>. HIDE DEF q
  <2>. QED
    BY <1>1, <1>2, <2>1, <2>2, ScannedFields DEF SameLoop, SameRequest, Candidates
<1>3. CASE SkipCooling(c)
  <2>. DEFINE q == [o EXCEPT !.cooling = @ \cup {e}]
  <2>1. /\ q \in Call /\ SameLoop(o, q) /\ SameRequest(o, q) /\ q.scan = e
        /\ q.sort = o.sort /\ q.cooling = o.cooling \cup {e} /\ q.incapable = o.incapable
    BY <1>1 DEF Call, SameLoop, SameRequest
  <2>2. Scanned(c, q)
    BY <1>3 DEF SkipCooling
  <2>. HIDE DEF q
  <2>. QED
    BY <1>1, <1>3, <2>1, <2>2, ScannedFields DEF SameLoop, SameRequest, Candidates
<1>4. CASE Admit(c)
  <2>1. PICK order \in Seq(Endpoints) : order = Append(Candidates(c), e)
    <3>1. \A x \in Seq(Endpoints), d \in Endpoints : Append(x, d) \in Seq(Endpoints)
      OBVIOUS
    <3>. QED
      BY <1>1, <3>1
  <2>. DEFINE s == [o.sort EXCEPT !.order = order]
              q == [o EXCEPT !.sort = s]
  <2>2. s \in Cursors /\ s.order = order /\ s.left = o.sort.left
    BY <1>1 DEF Cursors
  <2>3. /\ q \in Call /\ SameLoop(o, q) /\ SameRequest(o, q) /\ q.scan = e
        /\ q.sort = s /\ q.cooling = o.cooling /\ q.incapable = o.incapable
    BY <1>1, <2>2 DEF Call, SameLoop, SameRequest
  <2>4. Scanned(c, q)
    BY <1>4, <2>1 DEF Admit, Candidates
  <2>. HIDE DEF s, q
  <2>. QED
    BY <1>1, <1>4, <2>1, <2>2, <2>3, <2>4, ScannedFields DEF SameLoop, SameRequest, Candidates
<1>. QED
  BY <1>2, <1>3, <1>4

\* One step of the sort: a new cursor and nothing else.
LEMMA SortFields ==
    ASSUME IInv, NEW c \in Callers, SortReads(c) \/ SortCompares(c)
    PROVE  /\ pc[c] = "sort" /\ call[c] \in Call /\ Sorting(call[c].sort)
           /\ OthersKept(c) /\ pc'[c] \in {"sort", "next"}
           /\ SameLoop(call[c], call'[c]) /\ SameRequest(call[c], call'[c])
           /\ call'[c].scan = call[c].scan
           /\ call'[c].incapable = call[c].incapable /\ call'[c].cooling = call[c].cooling
           /\ \/ SortReads(c) /\ call'[c].sort = ReadLeft(call[c].sort, inFlight)
              \/ SortCompares(c) /\ call'[c].sort = Compare(call[c].sort, inFlight)
<1>1. /\ call \in [Callers -> Call] /\ pc \in [Callers -> Places] /\ call[c] \in Call
      /\ pc[c] = "sort" /\ Sorting(call[c].sort)
  BY Types DEF SortReads, SortCompares, Sorts, CallOK, IInv, TypeOK
<1>2. PICK s : /\ Sorts(c, s)
               /\ \/ SortReads(c) /\ s = ReadLeft(call[c].sort, inFlight)
                  \/ SortCompares(c) /\ s = Compare(call[c].sort, inFlight)
  BY DEF SortReads, SortCompares
<1>. DEFINE r == [call[c] EXCEPT !.sort = s]
<1>3. /\ SameLoop(call[c], r) /\ SameRequest(call[c], r) /\ r.sort = s
      /\ r.scan = call[c].scan
      /\ r.incapable = call[c].incapable /\ r.cooling = call[c].cooling
  BY <1>1 DEF Call, SameLoop, SameRequest
<1>4. call' = [call EXCEPT ![c] = r] /\ pc' = [pc EXCEPT ![c] = Phase(s)]
  BY <1>2 DEF Sorts
<1>5. Phase(s) \in {"sort", "next"}
  BY DEF Phase
<1>. HIDE DEF r
<1>. QED
  BY <1>1, <1>2, <1>3, <1>4, <1>5 DEF OthersKept

\* A token is asked for or given; nothing of the ledger changes.
LEMMA TokenFields ==
    ASSUME IInv, NEW c \in Callers, AskLimiter(c) \/ Grant(c)
    PROVE  /\ pc[c] \in {"next", "throttle"} /\ pc'[c] \in {"throttle", "admitted"}
           /\ call[c] \in Call /\ OthersKept(c)
           /\ SameLoop(call[c], call'[c]) /\ SameScan(call[c], call'[c])
           /\ call'[c].verdict = call[c].verdict
<1>1. call \in [Callers -> Call] /\ pc \in [Callers -> Places] /\ call[c] \in Call
  BY Types DEF IInv, TypeOK
<1>2. CASE AskLimiter(c)
  <2>. DEFINE r == [call[c] EXCEPT !.asked = clock]
  <2>1. SameLoop(call[c], r) /\ SameScan(call[c], r) /\ r.verdict = call[c].verdict
    BY <1>1 DEF Call, SameLoop, SameScan
  <2>2. /\ pc[c] = "next" /\ call' = [call EXCEPT ![c] = r]
        /\ pc' = [pc EXCEPT ![c] = "throttle"]
    BY <1>2 DEF AskLimiter
  <2>. HIDE DEF r
  <2>. QED
    BY <1>1, <2>1, <2>2 DEF OthersKept
<1>3. CASE Grant(c)
  BY <1>1, <1>3 DEF Grant, OthersKept, SameLoop, SameScan
<1>. QED
  BY <1>2, <1>3

\* The candidate at `next' has no token, or its failure is noted.
LEMMA AdvanceFields ==
    ASSUME IInv, NEW c \in Callers, Throttle(c) \/ FailOver(c)
    PROVE  /\ pc[c] \in {"throttle", "leave"} /\ pc'[c] = "next"
           /\ call[c] \in Call /\ OthersKept(c)
           /\ call[c].next \in 1 .. Len(Candidates(c)) /\ Target(c) \in Endpoints
           /\ SameScan(call[c], call'[c])
           /\ call'[c].next = call[c].next + 1 /\ call'[c].tried = call[c].tried
           /\ call'[c].outcome = call[c].outcome /\ call'[c].verdict = call[c].verdict
           /\ \/ /\ Throttle(c) /\ pc[c] = "throttle"
                 /\ call'[c].throttled = call[c].throttled \cup {Target(c)}
                 /\ call'[c].failed = call[c].failed
              \/ /\ FailOver(c) /\ pc[c] = "leave" /\ call[c].verdict = "failed"
                 /\ call'[c].failed = call[c].failed \cup {Target(c)}
                 /\ call'[c].throttled = call[c].throttled
<1>1. call \in [Callers -> Call] /\ pc \in [Callers -> Places] /\ call[c] \in Call
  BY Types DEF IInv, TypeOK
<1>2. call[c].next \in 1 .. Len(Candidates(c)) /\ Target(c) \in Endpoints
  <2>1. call[c].next <= Len(Candidates(c)) /\ Target(c) \in Endpoints
    BY AtLimiter, AtTarget DEF Throttle, FailOver
  <2>. QED
    BY <2>1, Types
<1>3. PICK k : k = call[c].next + 1
  OBVIOUS
<1>4. CASE Throttle(c)
  <2>. DEFINE r == [call[c] EXCEPT !.throttled = @ \cup {Target(c)}, !.next = k]
  <2>1. /\ SameScan(call[c], r) /\ r.next = k /\ r.failed = call[c].failed
        /\ r.throttled = call[c].throttled \cup {Target(c)} /\ r.tried = call[c].tried
        /\ r.outcome = call[c].outcome /\ r.verdict = call[c].verdict
    BY <1>1 DEF Call, SameScan
  <2>2. /\ pc[c] = "throttle" /\ call' = [call EXCEPT ![c] = r]
        /\ pc' = [pc EXCEPT ![c] = "next"]
    BY <1>1, <1>3, <1>4 DEF Throttle
  <2>. HIDE DEF r
  <2>. QED
    BY <1>1, <1>2, <1>3, <1>4, <2>1, <2>2 DEF OthersKept
<1>5. CASE FailOver(c)
  <2>. DEFINE r == [call[c] EXCEPT !.failed = @ \cup {Target(c)}, !.next = k]
  <2>1. /\ SameScan(call[c], r) /\ r.next = k /\ r.throttled = call[c].throttled
        /\ r.failed = call[c].failed \cup {Target(c)} /\ r.tried = call[c].tried
        /\ r.outcome = call[c].outcome /\ r.verdict = call[c].verdict
    BY <1>1 DEF Call, SameScan
  <2>2. /\ pc[c] = "leave" /\ call[c].verdict = "failed"
        /\ call' = [call EXCEPT ![c] = r] /\ pc' = [pc EXCEPT ![c] = "next"]
    BY <1>1, <1>3, <1>5 DEF FailOver
  <2>. HIDE DEF r
  <2>. QED
    BY <1>1, <1>2, <1>3, <1>5, <2>1, <2>2 DEF OthersKept
<1>. QED
  BY <1>4, <1>5

LEMMA DispatchFields ==
    ASSUME IInv, NEW c \in Callers, Dispatch(c)
    PROVE  /\ pc[c] \in {"next", "admitted"} /\ pc'[c] = "await" /\ ~BudgetSpent(c)
           /\ call[c] \in Call /\ OthersKept(c)
           /\ call[c].next \in 1 .. Len(Candidates(c)) /\ Target(c) \in Endpoints
           /\ SameScan(call[c], call'[c])
           /\ call'[c].next = call[c].next /\ call'[c].failed = call[c].failed
           /\ call'[c].throttled = call[c].throttled
           /\ call'[c].tried = call[c].tried + 1 /\ call'[c].outcome = call[c].outcome
<1>1. call \in [Callers -> Call] /\ pc \in [Callers -> Places] /\ call[c] \in Call
  BY Types DEF IInv, TypeOK
<1>2. call[c].next \in 1 .. Len(Candidates(c)) /\ Target(c) \in Endpoints
  <2>1. call[c].next <= Len(Candidates(c)) /\ Target(c) \in Endpoints
    BY AtTarget DEF Dispatch
  <2>. QED
    BY <2>1, Types
<1>3. PICK k : k = call[c].tried + 1
  OBVIOUS
<1>. DEFINE r == [call[c] EXCEPT !.tried = k]
<1>4. /\ SameScan(call[c], r) /\ r.next = call[c].next /\ r.failed = call[c].failed
      /\ r.throttled = call[c].throttled /\ r.tried = k /\ r.outcome = call[c].outcome
  BY <1>1 DEF Call, SameScan
<1>5. /\ pc[c] \in {"next", "admitted"} /\ ~BudgetSpent(c)
      /\ call' = [call EXCEPT ![c] = r] /\ pc' = [pc EXCEPT ![c] = "await"]
  BY <1>3 DEF Dispatch, PastThrottle
<1>. HIDE DEF r
<1>. QED
  BY <1>1, <1>2, <1>3, <1>4, <1>5 DEF OthersKept

LEMMA AnswerFields ==
    ASSUME IInv, NEW c \in Callers, Answer(c)
    PROVE  /\ pc[c] = "await" /\ pc'[c] = "leave"
           /\ call[c] \in Call /\ OthersKept(c)
           /\ SameLoop(call[c], call'[c]) /\ SameScan(call[c], call'[c])
           /\ \E reply \in Upstream[Target(c)] :
                /\ call'[c].verdict = Verdict(call[c].mode, reply)
                /\ health' = [health EXCEPT ![Target(c)] =
                      IF call'[c].verdict = "failed"
                      THEN RecordFailure(health[Target(c)], clock)
                      ELSE RecordSuccess(health[Target(c)])]
<1>1. call \in [Callers -> Call] /\ pc \in [Callers -> Places] /\ call[c] \in Call
  BY Types DEF IInv, TypeOK
<1>2. PICK reply \in Upstream[Target(c)] :
        /\ call' = [call EXCEPT ![c].verdict = Verdict(call[c].mode, reply)]
        /\ health' = [health EXCEPT ![Target(c)] =
              IF Verdict(call[c].mode, reply) = "failed"
              THEN RecordFailure(health[Target(c)], clock)
              ELSE RecordSuccess(health[Target(c)])]
  BY DEF Answer
<1>3. PICK v : v = Verdict(call[c].mode, reply)
  OBVIOUS
<1>. DEFINE r == [call[c] EXCEPT !.verdict = v]
<1>4. SameLoop(call[c], r) /\ SameScan(call[c], r) /\ r.verdict = v
  BY <1>1 DEF Call, SameLoop, SameScan
<1>5. call' = [call EXCEPT ![c] = r] /\ pc' = [pc EXCEPT ![c] = "leave"] /\ pc[c] = "await"
  BY <1>2, <1>3 DEF Answer
<1>. HIDE DEF r
<1>6. call'[c] = r /\ pc'[c] = "leave" /\ OthersKept(c)
  BY <1>1, <1>5 DEF OthersKept
<1>. QED
  BY <1>1, <1>2, <1>3, <1>4, <1>5, <1>6

\* The call ends.
LEMMA EndFields ==
    ASSUME IInv, NEW c \in Callers, ReturnAnswer(c) \/ GiveUp(c) \/ Drop(c)
    PROVE  /\ pc'[c] = "idle" /\ call[c] \in Call /\ OthersKept(c)
           /\ call'[c] = [call[c] EXCEPT !.outcome = call'[c].outcome]
           /\ \/ /\ ReturnAnswer(c) /\ pc[c] = "leave"
                 /\ call'[c].outcome = call[c].verdict
                 /\ call'[c].outcome \in {"Result", "RpcError"}
              \/ /\ Drop(c) /\ pc[c] = "await" /\ call'[c].outcome = "Dropped"
              \/ /\ GiveUp(c) /\ pc[c] \in {"next", "admitted"}
                 /\ Exhausted(c) \/ BudgetSpent(c)
                 /\ call'[c].outcome =
                      IF call[c].failed = {} THEN "NoCandidates" ELSE "AllFailed"
<1>1. call \in [Callers -> Call] /\ pc \in [Callers -> Places] /\ call[c] \in Call
  BY Types DEF IInv, TypeOK
<1>2. PICK how :
        /\ call' = [call EXCEPT ![c].outcome = how]
        /\ pc' = [pc EXCEPT ![c] = "idle"]
        /\ \/ /\ ReturnAnswer(c) /\ pc[c] = "leave"
              /\ how = call[c].verdict /\ how # "failed"
           \/ Drop(c) /\ pc[c] = "await" /\ how = "Dropped"
           \/ /\ GiveUp(c) /\ pc[c] \in {"next", "admitted"}
              /\ Exhausted(c) \/ BudgetSpent(c)
              /\ how = IF call[c].failed = {} THEN "NoCandidates" ELSE "AllFailed"
  BY DEF ReturnAnswer, Drop, GiveUp, PastThrottle
<1>. DEFINE r == [call[c] EXCEPT !.outcome = how]
<1>3. r.outcome = how
  BY <1>1 DEF Call
<1>4. call' = [call EXCEPT ![c] = r]
  BY <1>2
<1>5. call[c].verdict \in {"Result", "RpcError", "failed"}
  BY <1>1 DEF Call, Verdicts
<1>6. call'[c] = r /\ pc'[c] = "idle" /\ OthersKept(c)
  <2>. HIDE DEF r
  <2>. QED
    BY <1>1, <1>2, <1>4 DEF OthersKept
<1>7. call'[c].outcome = how /\ call'[c] = [call[c] EXCEPT !.outcome = call'[c].outcome]
  BY <1>3, <1>6
<1>. HIDE DEF r
<1>. QED
  BY <1>1, <1>2, <1>5, <1>6, <1>7

LEMMA BeginFields ==
    ASSUME IInv, NEW c \in Callers, Begin(c)
    PROVE  /\ pc[c] = "idle" /\ pc'[c] = "scan" /\ OthersKept(c)
           /\ \E mode \in {"call", "forward"}, method \in Methods :
                call'[c] = FreshCall(mode, method, clock)
<1>1. call \in [Callers -> Call] /\ pc \in [Callers -> Places]
  BY DEF IInv, TypeOK
<1>. QED
  BY <1>1, RpcPoolAssumption DEF Begin, OthersKept

\* A step of the system is a step of one call, or the clock's.
LEMMA OneCallSteps ==
    ASSUME [Next]_vars
    PROVE  \/ \E c \in Callers :
                \/ Begin(c)
                \/ SkipIncapable(c) \/ SkipCooling(c) \/ Admit(c)
                \/ SortReads(c) \/ SortCompares(c)
                \/ AskLimiter(c) \/ Grant(c)
                \/ Throttle(c) \/ FailOver(c)
                \/ Dispatch(c) \/ Answer(c)
                \/ ReturnAnswer(c) \/ GiveUp(c) \/ Drop(c)
           \/ UNCHANGED <<health, pc, call>>
  BY DEF Next, Proceed, Tick, Stopped, vars, shared

-----------------------------------------------------------------------------
LEMMA InitLedger == Init => LedgerInv
<1>. SUFFICES ASSUME Init PROVE LedgerInv
  OBVIOUS
<1>1. (CHOOSE m \in Methods : TRUE) \in Methods
  BY RpcPoolAssumption
<1>2. LedgerOK(FreshCall("call", CHOOSE m \in Methods : TRUE, 0), "idle")
  BY <1>1, FreshLedger
<1>. QED
  BY <1>2 DEF Init, LedgerInv

LEMMA NextLedger == IInv /\ LedgerInv /\ [Next]_vars => LedgerInv'
<1>. SUFFICES ASSUME IInv, LedgerInv, [Next]_vars PROVE LedgerInv'
  OBVIOUS
<1>1. ASSUME NEW c \in Callers, Begin(c)
      PROVE  LedgerInv'
  <2>1. clock \in Nat
    BY DEF IInv, TypeOK
  <2>. QED
    BY <1>1, <2>1, BeginFields, FreshLedger, LedgerKept
<1>2. ASSUME NEW c \in Callers, SkipIncapable(c) \/ SkipCooling(c) \/ Admit(c)
      PROVE  LedgerInv'
  <2>1. /\ pc[c] = "scan" /\ call[c] \in Call /\ call[c].scan \in Endpoints
        /\ OthersKept(c)
        /\ pc'[c] \in {"scan", "sort", "next"} /\ (pc'[c] # "scan" => call[c].scan = N)
        /\ SameLoop(call[c], call'[c]) /\ call'[c].scan = call[c].scan + 1
        /\ call'[c].sort.left = call[c].sort.left
        /\ \/ /\ call'[c].sort.order = call[c].sort.order
              /\ call'[c].incapable \cup call'[c].cooling
                   = call[c].incapable \cup call[c].cooling \cup {call[c].scan}
           \/ /\ call'[c].sort.order = Append(call[c].sort.order, call[c].scan)
              /\ call'[c].incapable = call[c].incapable
              /\ call'[c].cooling = call[c].cooling
    BY <1>2, ScanFields DEF Candidates
  <2>2. LedgerOK(call[c], "scan")
    BY <2>1 DEF LedgerInv
  <2>3. LedgerOK(call'[c], pc'[c])
    BY <2>1, <2>2, ScanLedger
  <2>. QED
    BY <2>1, <2>3, LedgerKept
<1>3. ASSUME NEW c \in Callers, SortReads(c) \/ SortCompares(c)
      PROVE  LedgerInv'
  <2>1. /\ pc[c] = "sort" /\ call[c] \in Call /\ OthersKept(c)
        /\ pc'[c] \in {"sort", "next"} /\ SameLoop(call[c], call'[c])
        /\ call'[c].scan = call[c].scan
        /\ call'[c].incapable = call[c].incapable /\ call'[c].cooling = call[c].cooling
    BY <1>3, SortFields
  <2>2. LedgerOK(call[c], "sort") /\ Distinct(call[c].sort.order)
    BY <2>1 DEF LedgerInv, LedgerOK, Partitioned
  <2>3. /\ call[c].sort \in Cursors /\ CursorOK(call[c].sort) /\ Sorting(call[c].sort)
        /\ inFlight \in [Endpoints -> Nat]
    BY <1>3, Types, SortFields DEF IInv, TypeOK
  <2>4. call'[c].sort \in {ReadLeft(call[c].sort, inFlight), Compare(call[c].sort, inFlight)}
    BY <1>3, SortFields
  <2>5. /\ Elements(call'[c].sort.order) = Elements(call[c].sort.order)
        /\ Distinct(call'[c].sort.order)
    BY <2>2, <2>3, <2>4, ReadLeftKeeps, ComparePermutes
  <2>6. LedgerOK(call'[c], pc'[c])
    BY <2>1, <2>2, <2>5, SortLedger
  <2>. QED
    BY <2>1, <2>6, LedgerKept
<1>4. ASSUME NEW c \in Callers, AskLimiter(c) \/ Grant(c)
      PROVE  LedgerInv'
  <2>1. /\ pc[c] \in Places \ {"idle", "scan"} /\ pc'[c] \in Places \ {"idle", "scan", "sort"}
        /\ call[c] \in Call /\ OthersKept(c)
        /\ SameLoop(call[c], call'[c]) /\ SameScan(call[c], call'[c])
        /\ Pending(call'[c], pc'[c]) = Pending(call[c], pc[c])
    BY <1>4, TokenFields DEF Places, Pending, SameLoop
  <2>. QED
    BY <2>1, SameLedger, LedgerKept DEF LedgerInv
<1>5. ASSUME NEW c \in Callers, Throttle(c) \/ FailOver(c)
      PROVE  LedgerInv'
  <2>1. /\ pc[c] \in {"throttle", "leave"} /\ pc'[c] = "next"
        /\ call[c] \in Call /\ OthersKept(c)
        /\ call[c].next \in 1 .. Len(call[c].sort.order)
        /\ SameScan(call[c], call'[c]) /\ call'[c].next = call[c].next + 1
        /\ call'[c].tried = call[c].tried /\ call'[c].outcome = call[c].outcome
    BY <1>5, AdvanceFields DEF Candidates
  <2>2. LET e == call[c].sort.order[call[c].next]
        IN  IF pc[c] = "leave"
            THEN /\ call'[c].failed = call[c].failed \cup {e}
                 /\ call'[c].throttled = call[c].throttled
            ELSE /\ call'[c].failed = call[c].failed
                 /\ call'[c].throttled = call[c].throttled \cup {e}
    BY <1>5, AdvanceFields DEF Target, Candidates
  <2>3. LedgerOK(call'[c], pc'[c])
    BY <2>1, <2>2, AdvanceLedger DEF LedgerInv
  <2>. QED
    BY <2>1, <2>3, LedgerKept
<1>6. ASSUME NEW c \in Callers, Dispatch(c)
      PROVE  LedgerInv'
  BY <1>6, DispatchFields, DispatchLedger, LedgerKept DEF LedgerInv, BudgetSpent
<1>7. ASSUME NEW c \in Callers, Answer(c)
      PROVE  LedgerInv'
  <2>1. /\ pc[c] = "await" /\ pc'[c] = "leave" /\ call[c] \in Call /\ OthersKept(c)
        /\ SameLoop(call[c], call'[c]) /\ SameScan(call[c], call'[c])
        /\ Pending(call'[c], "leave") = Pending(call[c], "await")
    BY <1>7, AnswerFields DEF Pending
  <2>2. "await" \in Places \ {"idle", "scan"} /\ "leave" \in Places \ {"idle", "scan", "sort"}
    BY DEF Places
  <2>. QED
    BY <2>1, <2>2, SameLedger, LedgerKept DEF LedgerInv
<1>8. ASSUME NEW c \in Callers, ReturnAnswer(c) \/ GiveUp(c) \/ Drop(c)
      PROVE  LedgerInv'
  <2>1. /\ pc'[c] = "idle" /\ call[c] \in Call /\ OthersKept(c)
        /\ call'[c] = [call[c] EXCEPT !.outcome = call'[c].outcome]
    BY <1>8, EndFields
  <2>2. LedgerOK(call[c], pc[c])
    BY DEF LedgerInv
  <2>3. CASE ReturnAnswer(c) \/ Drop(c)
    <3>1. /\ pc[c] \in {"await", "leave"}
          /\ call'[c].outcome \in {"Result", "RpcError", "Dropped"}
      BY <2>3, EndFields DEF ReturnAnswer, Drop
    <3>. QED
      BY <2>1, <2>2, <3>1, AnsweredLedger, LedgerKept
  <2>4. CASE GiveUp(c)
    <3>1. /\ pc[c] \in {"next", "admitted"}
          /\ call'[c].outcome \in {"NoCandidates", "AllFailed"}
          /\ \/ call[c].next > Len(call[c].sort.order)
             \/ MaxRetries # 0 /\ call[c].tried >= MaxRetries
      BY <2>4, EndFields DEF GiveUp, PastThrottle, Exhausted, BudgetSpent, Candidates
    <3>. QED
      BY <2>1, <2>2, <3>1, RefusedLedger, LedgerKept
  <2>. QED
    BY <1>8, <2>3, <2>4
<1>9. CASE UNCHANGED <<health, pc, call>>
  BY <1>9 DEF LedgerInv
<1>. QED
  BY <1>1, <1>2, <1>3, <1>4, <1>5, <1>6, <1>7, <1>8, <1>9, OneCallSteps

LEMMA Ledger == Spec => [](IInv /\ LedgerInv)
<1>1. Init => IInv /\ LedgerInv
  BY InitIInv, InitLedger
<1>2. IInv /\ LedgerInv /\ [Next]_vars => (IInv /\ LedgerInv)'
  BY NextIInv, NextLedger
<1>. QED
  BY <1>1, <1>2, PTL DEF Spec

(***************************************************************************)
(* No endpoint is asked twice by one call, and never more of them than the *)
(* retry budget allows (mod.rs:284-299).                                   *)
(***************************************************************************)
THEOREM AsksOnce == Spec => []AskedOnce
<1>1. LedgerInv => AskedOnce
  BY DEF LedgerInv, LedgerOK, Counted, Pending, AskedOnce
<1>. QED
  BY <1>1, Ledger, PTL

(***************************************************************************)
(* A call ends in an error only when every endpoint was skipped for a      *)
(* documented reason or failed this very call, or the retry budget was     *)
(* used up to the last (mod.rs:284-298, 393-414).                          *)
(***************************************************************************)
THEOREM ErrorsAreEarned == Spec => []ErrorOnlyWhenExhausted
<1>1. ASSUME IInv, LedgerInv, NEW c \in Callers,
             call[c].outcome \in {"NoCandidates", "AllFailed"}
      PROVE  \/ call[c].incapable \cup call[c].cooling \cup call[c].throttled
                  \cup call[c].failed = Endpoints
             \/ MaxRetries # 0 /\ Cardinality(call[c].failed) = MaxRetries
  <2>1. LedgerOK(call[c], pc[c])
    BY <1>1 DEF LedgerInv
  <2>2. pc[c] = "idle" /\ call[c].scan = N + 1
    BY <1>1, <2>1 DEF LedgerOK, Staged
  <2>3. CASE Ahead(call[c]) = {}
    <3>1. 1 .. (call[c].scan - 1) = Endpoints
      BY <2>2, RoutingAssumption DEF Endpoints
    <3>. QED
      BY <2>1, <2>3, <3>1 DEF LedgerOK, Partitioned, Excused
  <2>4. CASE MaxRetries # 0 /\ call[c].tried = MaxRetries
    <3>1. Pending(call[c], pc[c]) = 0
      BY <1>1, <2>2 DEF Pending
    <3>2. call[c].tried = Cardinality(call[c].failed) + 0
      BY <2>1, <3>1 DEF LedgerOK, Counted
    <3>3. Cardinality(call[c].failed) \in Nat
      BY <1>1, Types, FailedFinite
    <3>. QED
      BY <2>4, <3>2, <3>3
  <2>. QED
    BY <1>1, <2>1, <2>3, <2>4 DEF LedgerOK, Staged
<1>2. IInv /\ LedgerInv => ErrorOnlyWhenExhausted
  BY <1>1 DEF ErrorOnlyWhenExhausted
<1>. QED
  BY <1>2, Ledger, PTL

-----------------------------------------------------------------------------
(***************************************************************************)
(* Tiers.  TiersInOrder is not inductive by itself: it says nothing of the *)
(* key the sort has read and holds.  That key may have gone out of date,   *)
(* but it still is a key of the candidate it was read for.                 *)
(***************************************************************************)
Capped == {e \in Endpoints : Cap[e] # Uncapped}

TierOK(r) ==
    /\ TiersKept(r.sort.order, Capped)
    /\ r.sort.left # NoKey => \E n \in Nat : r.sort.left = Key(r.sort.order[r.sort.hole], n)

TierInv == \A c \in Callers : TierOK(call[c])

LEMMA FreshTiers ==
    ASSUME NEW mode, NEW method, NEW now
    PROVE  TierOK(FreshCall(mode, method, now))
<1>. DEFINE r == FreshCall(mode, method, now)
<1>1. r.sort.order = <<>> /\ r.sort.left = NoKey
  BY DEF FreshCall, StartCursor
<1>. HIDE DEF r
<1>2. Len(r.sort.order) = 0
  BY <1>1
<1>. QED
  BY <1>1, <1>2 DEF TierOK, TiersKept, r

LEMMA TiersOfOthers ==
    ASSUME TierInv, NEW c \in Callers, OthersKept(c), TierOK(call'[c])
    PROVE  TierInv'
  BY DEF TierInv, OthersKept

LEMMA InitTiers == Init => TierInv
  BY FreshTiers DEF Init, TierInv

LEMMA NextTiers == IInv /\ LedgerInv /\ TierInv /\ [Next]_vars => TierInv'
<1>. SUFFICES ASSUME IInv, LedgerInv, TierInv, [Next]_vars PROVE TierInv'
  OBVIOUS
<1>1. ASSUME NEW c \in Callers, Begin(c)
      PROVE  TierInv'
  BY <1>1, BeginFields, FreshTiers, TiersOfOthers
<1>2. ASSUME NEW c \in Callers, SkipIncapable(c) \/ SkipCooling(c) \/ Admit(c)
      PROVE  TierInv'
  <2>1. /\ pc[c] = "scan" /\ call[c] \in Call /\ OthersKept(c)
        /\ call[c].scan \in Endpoints
        /\ call'[c].sort.left = call[c].sort.left
        /\ \/ call'[c].sort.order = call[c].sort.order
           \/ call'[c].sort.order = Append(call[c].sort.order, call[c].scan)
    BY <1>2, ScanFields DEF Candidates
  <2>2. LedgerOK(call[c], "scan")
    BY <2>1 DEF LedgerInv
  <2>3. call'[c].sort.left = NoKey /\ Increasing(call[c].sort.order)
    BY <2>1, <2>2 DEF LedgerOK, Staged
  <2>4. call[c].sort.order \in Seq(Endpoints)
    BY Types DEF Candidates
  <2>5. /\ Append(call[c].sort.order, call[c].scan) \in Seq(Endpoints)
        /\ Increasing(Append(call[c].sort.order, call[c].scan))
    BY <2>1, <2>2, <2>3, <2>4, EntryIsNew, AppendListed
  <2>6. TiersKept(call'[c].sort.order, Capped)
    BY <2>1, <2>3, <2>4, <2>5, IndexOrderKeepsTiers
  <2>. QED
    BY <2>1, <2>3, <2>6, TiersOfOthers DEF TierOK
<1>3. ASSUME NEW c \in Callers, SortReads(c) \/ SortCompares(c)
      PROVE  TierInv'
  <2>. DEFINE s == call[c].sort
  <2>1. /\ OthersKept(c) /\ Sorting(s) /\ s \in Cursors /\ CursorOK(s)
        /\ inFlight \in [Endpoints -> Nat] /\ TierOK(call[c])
    BY <1>3, SortFields, Types DEF IInv, TypeOK, TierInv
  <2>2. CASE SortReads(c) /\ call'[c].sort = ReadLeft(s, inFlight)
    <3>1. s.hole \in 1 .. Len(s.order) /\ s.order \in Seq(Endpoints)
      BY <2>1 DEF CursorOK, Sorting, Cursors
    <3>2. inFlight[s.order[s.hole]] \in Nat
      BY <2>1, <3>1
    <3>3. /\ ReadLeft(s, inFlight).order = s.order /\ ReadLeft(s, inFlight).hole = s.hole
          /\ ReadLeft(s, inFlight).left = Key(s.order[s.hole], inFlight[s.order[s.hole]])
      BY <2>1 DEF ReadLeft, Cursors
    <3>4. TierOK(call'[c])
      BY <2>1, <2>2, <3>2, <3>3 DEF TierOK
    <3>. QED
      BY <2>1, <3>4, TiersOfOthers
  <2>3. CASE SortCompares(c) /\ call'[c].sort = Compare(s, inFlight)
    <3>1. PICK n \in Nat : s.left = Key(s.order[s.hole], n)
      BY <2>1, <2>3 DEF SortCompares, TierOK
    <3>2. TiersKept(Compare(s, inFlight).order, Capped) /\ Compare(s, inFlight).left = NoKey
      <4>1. \A e \in Endpoints : Saturated(e, inFlight[e]) => e \in Capped
        BY DEF Saturated, Capped
      <4>. QED
        BY <2>1, <3>1, <4>1, CompareKeepsTiers, CompareStep DEF TierOK
    <3>3. TierOK(call'[c])
      BY <2>3, <3>2 DEF TierOK
    <3>. QED
      BY <2>1, <3>3, TiersOfOthers
  <2>. QED
    BY <1>3, <2>2, <2>3, SortFields
<1>4. ASSUME NEW c \in Callers, OthersKept(c), call'[c].sort = call[c].sort
      PROVE  TierInv'
  BY <1>4, TiersOfOthers DEF TierInv, TierOK
<1>5. ASSUME NEW c \in Callers,
             \/ AskLimiter(c) \/ Grant(c) \/ Throttle(c) \/ FailOver(c)
             \/ Dispatch(c) \/ Answer(c)
      PROVE  TierInv'
  BY <1>4, <1>5, TokenFields, AdvanceFields, DispatchFields, AnswerFields DEF SameScan
<1>6. ASSUME NEW c \in Callers, ReturnAnswer(c) \/ GiveUp(c) \/ Drop(c)
      PROVE  TierInv'
  <2>1. /\ call[c] \in Call /\ OthersKept(c)
        /\ call'[c] = [call[c] EXCEPT !.outcome = call'[c].outcome]
    BY <1>6, EndFields
  <2>2. call'[c].sort = call[c].sort
    BY <2>1 DEF Call
  <2>. QED
    BY <1>4, <2>1, <2>2
<1>7. CASE UNCHANGED <<health, pc, call>>
  BY <1>7 DEF TierInv
<1>. QED
  BY <1>1, <1>2, <1>3, <1>5, <1>6, <1>7, OneCallSteps

(***************************************************************************)
(* A worse tier stands before an endpoint of a better one only if that one *)
(* has a soft cap, whatever the loads did during the sort                  *)
(* (mod.rs:215-217, 253-263).                                              *)
(***************************************************************************)
THEOREM PrioritiesHold == Spec => []TiersInOrder
<1>1. Init => IInv /\ LedgerInv /\ TierInv
  BY InitIInv, InitLedger, InitTiers
<1>2. IInv /\ LedgerInv /\ TierInv /\ [Next]_vars => (IInv /\ LedgerInv /\ TierInv)'
  BY NextIInv, NextLedger, NextTiers
<1>3. IInv /\ LedgerInv /\ TierInv => TiersInOrder
  <2>1. ASSUME IInv, NEW c \in Callers
        PROVE  DOMAIN Candidates(c) = 1 .. Len(Candidates(c))
    BY <2>1, Types
  <2>. QED
    BY <2>1 DEF TierInv, TierOK, TiersKept, TiersInOrder, Candidates, Capped
<1>. QED
  BY <1>1, <1>2, <1>3, PTL DEF Spec

-----------------------------------------------------------------------------
(***************************************************************************)
(* A reliable endpoint.  Its record never shows a failure, so no call ever *)
(* finds it in cooldown, and no call has it among those that failed or had *)
(* no token: the one reason left to skip it is the capability.             *)
(***************************************************************************)
NeverSpoilt(e) ==
    /\ health[e].fails = 0
    /\ \A c \in Callers :
          /\ e \notin call[c].cooling \cup call[c].throttled \cup call[c].failed
          /\ e \in call[c].incapable => call[c].method \notin Serves[e]
          /\ pc[c] = "leave" /\ Target(c) = e => call[c].verdict # "failed"

\* forward takes every answer that call takes (wire.rs).
LEMMA ForwardTakesMore ==
    ASSUME NEW mode, NEW reply, Verdict("call", reply) # "failed"
    PROVE  Verdict(mode, reply) # "failed"
<1>1. Parse(reply.body) = "Result" /\ reply.delivered
  BY DEF Verdict, AcceptedBy
<1>. QED
  BY <1>1 DEF Verdict, AcceptedBy

LEMMA InitSpoilt == Init => \A e \in Endpoints : NeverSpoilt(e)
  BY DEF Init, NeverSpoilt, FreshHealth, FreshCall

\* What a step must see to in the call that moves; the others are as before.
LEMMA SpareKept ==
    ASSUME NEW e \in Endpoints, NeverSpoilt(e), NEW c \in Callers, OthersKept(c),
           health'[e].fails = 0,
           e \notin call'[c].cooling \cup call'[c].throttled \cup call'[c].failed,
           e \in call'[c].incapable => call'[c].method \notin Serves[e],
           pc'[c] = "leave" /\ Target(c)' = e => call'[c].verdict # "failed"
    PROVE  NeverSpoilt(e)'
<1>1. ASSUME NEW d \in Callers
      PROVE  /\ e \notin call'[d].cooling \cup call'[d].throttled \cup call'[d].failed
             /\ e \in call'[d].incapable => call'[d].method \notin Serves[e]
             /\ pc'[d] = "leave" /\ Target(d)' = e => call'[d].verdict # "failed"
  <2>1. CASE d = c
    BY <2>1
  <2>2. CASE d # c
    <3>1. call'[d] = call[d] /\ pc'[d] = pc[d]
      BY <2>2 DEF OthersKept
    <3>2. Target(d)' = Target(d)
      BY <3>1 DEF Target, Candidates
    <3>. QED
      BY <3>1, <3>2 DEF NeverSpoilt
  <2>. QED
    BY <2>1, <2>2
<1>. QED
  BY <1>1 DEF NeverSpoilt

LEMMA NextSpoilt ==
    ASSUME IInv, [Next]_vars, NEW e \in Endpoints, Reliable(e), NeverSpoilt(e)
    PROVE  NeverSpoilt(e)'
<1>1. /\ health \in [Endpoints -> Health] /\ health[e].fails = 0
      /\ clock \in Nat /\ DemotionThreshold \in Nat
  BY BackoffAssumption DEF NeverSpoilt, IInv, TypeOK
<1>2. ASSUME NEW c \in Callers, Begin(c)
      PROVE  NeverSpoilt(e)'
  <2>1. /\ pc'[c] = "scan" /\ OthersKept(c)
        /\ call'[c].cooling = {} /\ call'[c].throttled = {} /\ call'[c].failed = {}
        /\ call'[c].incapable = {}
    <3>1. PICK mode, method : call'[c] = FreshCall(mode, method, clock)
      BY <1>2, BeginFields
    <3>2. /\ FreshCall(mode, method, clock).cooling = {}
          /\ FreshCall(mode, method, clock).throttled = {}
          /\ FreshCall(mode, method, clock).failed = {}
          /\ FreshCall(mode, method, clock).incapable = {}
      BY DEF FreshCall
    <3>. QED
      BY <1>2, <3>1, <3>2, BeginFields
  <2>2. health' = health
    BY <1>2 DEF Begin, shared
  <2>. QED
    BY <1>1, <2>1, <2>2, SpareKept
<1>3. ASSUME NEW c \in Callers, SkipIncapable(c) \/ SkipCooling(c) \/ Admit(c)
      PROVE  NeverSpoilt(e)'
  <2>1. OthersKept(c) /\ pc'[c] # "leave" /\ SameLoop(call[c], call'[c])
        /\ SameRequest(call[c], call'[c])
    BY <1>3, ScanFields
  <2>2. health' = health
    BY <1>3 DEF SkipIncapable, SkipCooling, Admit, Scanned, shared
  <2>3. e \notin call'[c].cooling
    <3>1. CASE SkipCooling(c)
      <4>1. ~IsAvailableAt(health[call[c].scan], call[c].now)
        BY <3>1 DEF SkipCooling
      <4>2. IsAvailableAt(health[e], call[c].now)
        BY <1>1 DEF IsAvailableAt
      <4>3. call'[c].cooling \in {call[c].cooling, call[c].cooling \cup {call[c].scan}}
        BY <1>3, ScanFields
      <4>. QED
        BY <4>1, <4>2, <4>3 DEF NeverSpoilt
    <3>2. CASE call'[c].cooling = call[c].cooling
      BY <3>2 DEF NeverSpoilt
    <3>. QED
      BY <1>3, <3>1, <3>2, ScanFields
  <2>4. e \in call'[c].incapable => call'[c].method \notin Serves[e]
    <3>1. CASE SkipIncapable(c)
      <4>1. call[c].method \notin Serves[call[c].scan]
        BY <3>1 DEF SkipIncapable
      <4>2. call'[c].incapable \subseteq call[c].incapable \cup {call[c].scan}
        BY <1>3, ScanFields
      <4>. QED
        BY <2>1, <4>1, <4>2 DEF NeverSpoilt, SameRequest
    <3>2. CASE call'[c].incapable = call[c].incapable
      BY <2>1, <3>2 DEF NeverSpoilt, SameRequest
    <3>. QED
      BY <1>3, <3>1, <3>2, ScanFields
  <2>5. e \notin call'[c].throttled \cup call'[c].failed
    BY <2>1 DEF NeverSpoilt, SameLoop
  <2>. QED
    BY <1>1, <2>1, <2>2, <2>3, <2>4, <2>5, SpareKept
\* The common case: the step files no endpoint anywhere.
<1>4. ASSUME NEW c \in Callers, OthersKept(c), health' = health, pc'[c] # "leave",
             call'[c].cooling = call[c].cooling, call'[c].incapable = call[c].incapable,
             call'[c].throttled = call[c].throttled, call'[c].failed = call[c].failed,
             call'[c].method = call[c].method
      PROVE  NeverSpoilt(e)'
  BY <1>1, <1>4, SpareKept DEF NeverSpoilt
<1>5. ASSUME NEW c \in Callers,
             SortReads(c) \/ SortCompares(c) \/ AskLimiter(c) \/ Grant(c) \/ Dispatch(c)
      PROVE  NeverSpoilt(e)'
  <2>1. health' = health
    BY <1>5 DEF SortReads, SortCompares, Sorts, AskLimiter, Grant, Dispatch, shared
  <2>2. /\ OthersKept(c) /\ pc'[c] # "leave"
        /\ call'[c].cooling = call[c].cooling /\ call'[c].incapable = call[c].incapable
        /\ call'[c].throttled = call[c].throttled /\ call'[c].failed = call[c].failed
        /\ call'[c].method = call[c].method
    BY <1>5, SortFields, TokenFields, DispatchFields DEF SameLoop, SameRequest, SameScan
  <2>. QED
    BY <1>4, <2>1, <2>2
<1>6. ASSUME NEW c \in Callers, Throttle(c) \/ FailOver(c)
      PROVE  NeverSpoilt(e)'
  <2>1. /\ OthersKept(c) /\ pc'[c] = "next" /\ SameScan(call[c], call'[c])
        /\ \/ /\ Throttle(c) /\ pc[c] = "throttle"
              /\ call'[c].throttled = call[c].throttled \cup {Target(c)}
              /\ call'[c].failed = call[c].failed
           \/ /\ FailOver(c) /\ pc[c] = "leave" /\ call[c].verdict = "failed"
              /\ call'[c].failed = call[c].failed \cup {Target(c)}
              /\ call'[c].throttled = call[c].throttled
    BY <1>6, AdvanceFields
  <2>2. health' = health
    BY <1>6 DEF Throttle, FailOver
  <2>3. Target(c) # e
    BY <2>1, AtLimiter DEF NeverSpoilt, Reliable
  <2>. QED
    BY <1>1, <2>1, <2>2, <2>3, SpareKept DEF NeverSpoilt, SameScan
<1>7. ASSUME NEW c \in Callers, Answer(c)
      PROVE  NeverSpoilt(e)'
  <2>1. PICK reply \in Upstream[Target(c)] :
          /\ call'[c].verdict = Verdict(call[c].mode, reply)
          /\ health' = [health EXCEPT ![Target(c)] =
                IF call'[c].verdict = "failed"
                THEN RecordFailure(health[Target(c)], clock)
                ELSE RecordSuccess(health[Target(c)])]
    BY <1>7, AnswerFields
  <2>2. /\ OthersKept(c) /\ SameLoop(call[c], call'[c]) /\ SameScan(call[c], call'[c])
        /\ Target(c) \in Endpoints
    BY <1>7, AnswerFields, AtTarget DEF Answer
  <2>3. Target(c) = e => call'[c].verdict # "failed"
    BY <2>1, ForwardTakesMore DEF Reliable
  <2>4. Target(c)' = Target(c)
    BY <2>2 DEF SameLoop, SameScan, Target, Candidates
  <2>5. health'[e].fails = 0
    <3>1. CASE Target(c) = e
      <4>1. health'[e] = RecordSuccess(health[e])
        BY <1>1, <2>1, <2>3, <3>1
      <4>. QED
        BY <1>1, <4>1 DEF RecordSuccess, Health
    <3>2. CASE Target(c) # e
      BY <1>1, <2>1, <3>2
    <3>. QED
      BY <3>1, <3>2
  <2>. QED
    BY <2>2, <2>3, <2>4, <2>5, SpareKept DEF NeverSpoilt, SameLoop, SameScan
<1>8. ASSUME NEW c \in Callers, ReturnAnswer(c) \/ GiveUp(c) \/ Drop(c)
      PROVE  NeverSpoilt(e)'
  <2>1. /\ call[c] \in Call /\ OthersKept(c) /\ pc'[c] = "idle"
        /\ call'[c] = [call[c] EXCEPT !.outcome = call'[c].outcome]
    BY <1>8, EndFields
  <2>2. /\ call'[c].cooling = call[c].cooling /\ call'[c].incapable = call[c].incapable
        /\ call'[c].throttled = call[c].throttled /\ call'[c].failed = call[c].failed
        /\ call'[c].method = call[c].method
    BY <2>1 DEF Call
  <2>3. health' = health
    BY <1>8 DEF ReturnAnswer, GiveUp, Drop, shared
  <2>. QED
    BY <1>4, <2>1, <2>2, <2>3
<1>9. CASE UNCHANGED <<health, pc, call>>
  BY <1>9 DEF NeverSpoilt, Target, Candidates
<1>. QED
  BY <1>2, <1>3, <1>5, <1>6, <1>7, <1>8, <1>9, OneCallSteps

(***************************************************************************)
(* With an endpoint that is always good for an answer and unthrottled, and *)
(* no retry budget, no call that it serves ends in an error, whatever the  *)
(* others do (mod.rs:247-251, 284-414; tests/property.rs:6).               *)
(***************************************************************************)
THEOREM ReliableEndpointServes == Spec => []ReliableEndpointAnswers
<1>. DEFINE Spared == \A e \in Endpoints : Reliable(e) => NeverSpoilt(e)
<1>1. Init => IInv /\ Spared
  BY InitIInv, InitSpoilt
<1>2. IInv /\ Spared /\ [Next]_vars => (IInv /\ Spared)'
  <2>1. ASSUME NEW e \in Endpoints
        PROVE  Reliable(e)' => Reliable(e)
    BY DEF Reliable
  <2>. QED
    BY <2>1, NextIInv, NextSpoilt
<1>3. Spared /\ ErrorOnlyWhenExhausted => ReliableEndpointAnswers
  BY DEF NeverSpoilt, ErrorOnlyWhenExhausted, ReliableEndpointAnswers
<1>. HIDE DEF Spared
<1>. QED
  BY <1>1, <1>2, <1>3, ErrorsAreEarned, PTL DEF Spec

-----------------------------------------------------------------------------
(***************************************************************************)
(* The refinement.  What FailoverCall sees of one call, by its locals and  *)
(* its place.                                                              *)
(***************************************************************************)
PhaseAt(p) ==
    IF p = "idle" THEN "idle" ELSE IF p \in {"await", "leave"} THEN "asking" ELSE "trying"

AskedAt(r, p) ==
    IF p = "idle" THEN {}
    ELSE r.failed \cup (IF p \in {"await", "leave"} THEN {r.sort.order[r.next]} ELSE {})

ExcusedAt(r, p) == IF p = "idle" THEN {} ELSE Excused(r)

LEMMA Mapped ==
    ASSUME NEW c \in Callers
    PROVE  /\ AbstractPhase[c] = PhaseAt(pc[c])
           /\ AbstractAsked[c] = AskedAt(call[c], pc[c])
           /\ AbstractExcused[c] = ExcusedAt(call[c], pc[c])
           /\ AbstractOutcome[c] = call[c].outcome
  BY DEF AbstractPhase, AbstractAsked, AbstractExcused, AbstractOutcome,
         PhaseAt, AskedAt, ExcusedAt, Excused, Target, Candidates

\* A step of one call changes what is seen of that call only.
LEMMA MappedStep ==
    ASSUME NEW c \in Callers, OthersKept(c)
    PROVE  /\ AbstractPhase' = [AbstractPhase EXCEPT ![c] = PhaseAt(pc'[c])]
           /\ AbstractAsked' = [AbstractAsked EXCEPT ![c] = AskedAt(call'[c], pc'[c])]
           /\ AbstractExcused' = [AbstractExcused EXCEPT ![c] = ExcusedAt(call'[c], pc'[c])]
           /\ AbstractOutcome' = [AbstractOutcome EXCEPT ![c] = call'[c].outcome]
<1>1. /\ AbstractPhase = [d \in Callers |-> PhaseAt(pc[d])]
      /\ AbstractPhase' = [d \in Callers |-> PhaseAt(pc'[d])]
  BY DEF AbstractPhase, PhaseAt
<1>2. /\ AbstractAsked = [d \in Callers |-> AskedAt(call[d], pc[d])]
      /\ AbstractAsked' = [d \in Callers |-> AskedAt(call'[d], pc'[d])]
  BY DEF AbstractAsked, AskedAt, Target, Candidates
<1>3. /\ AbstractExcused = [d \in Callers |-> ExcusedAt(call[d], pc[d])]
      /\ AbstractExcused' = [d \in Callers |-> ExcusedAt(call'[d], pc'[d])]
  BY DEF AbstractExcused, ExcusedAt, Excused
<1>4. /\ AbstractOutcome = [d \in Callers |-> call[d].outcome]
      /\ AbstractOutcome' = [d \in Callers |-> call'[d].outcome]
  BY DEF AbstractOutcome
<1>5. \A d \in Callers : d # c => call'[d] = call[d] /\ pc'[d] = pc[d]
  BY DEF OthersKept
<1>6. AbstractPhase' = [AbstractPhase EXCEPT ![c] = PhaseAt(pc'[c])]
  BY <1>1, <1>5
<1>7. AbstractAsked' = [AbstractAsked EXCEPT ![c] = AskedAt(call'[c], pc'[c])]
  BY <1>2, <1>5
<1>8. AbstractExcused' = [AbstractExcused EXCEPT ![c] = ExcusedAt(call'[c], pc'[c])]
  BY <1>3, <1>5
<1>9. AbstractOutcome' = [AbstractOutcome EXCEPT ![c] = call'[c].outcome]
  BY <1>4, <1>5
<1>. QED
  BY <1>6, <1>7, <1>8, <1>9

\* Where nothing new is seen of the call that moves, nothing is seen at all.
LEMMA Unseen ==
    ASSUME NEW c \in Callers, OthersKept(c)
    PROVE  /\ PhaseAt(pc'[c]) = PhaseAt(pc[c]) => AbstractPhase' = AbstractPhase
           /\ AskedAt(call'[c], pc'[c]) = AskedAt(call[c], pc[c]) =>
                 AbstractAsked' = AbstractAsked
           /\ ExcusedAt(call'[c], pc'[c]) = ExcusedAt(call[c], pc[c]) =>
                 AbstractExcused' = AbstractExcused
           /\ call'[c].outcome = call[c].outcome => AbstractOutcome' = AbstractOutcome
<1>1. /\ AbstractPhase = [AbstractPhase EXCEPT ![c] = AbstractPhase[c]]
      /\ AbstractAsked = [AbstractAsked EXCEPT ![c] = AbstractAsked[c]]
      /\ AbstractExcused = [AbstractExcused EXCEPT ![c] = AbstractExcused[c]]
      /\ AbstractOutcome = [AbstractOutcome EXCEPT ![c] = AbstractOutcome[c]]
  BY DEF AbstractPhase, AbstractAsked, AbstractExcused, AbstractOutcome
<1>. QED
  BY <1>1, Mapped, MappedStep

\* The instance counts as this module does.
LEMMA SameCardinality ==
    ASSUME NEW S
    PROVE  Failover!Cardinality(S) = Cardinality(S)
  BY DEF Failover!Cardinality, Cardinality

\* Every endpoint ahead, and the entry being looked at, is untouched.
LEMMA AheadUntouched ==
    ASSUME IInv, LedgerInv, NEW c \in Callers,
           pc[c] \in {"scan", "sort", "next", "throttle", "admitted"}
    PROVE  /\ AbstractPhase[c] = "trying"
           /\ AbstractAsked[c] = call[c].failed
           /\ AbstractExcused[c] = Excused(call[c])
           /\ Failover!Untouched(c) = Endpoints \ (call[c].failed \cup Excused(call[c]))
           /\ \A e \in Endpoints : e \in Ahead(call[c]) => e \in Failover!Untouched(c)
           /\ pc[c] = "scan" => call[c].scan \in Failover!Untouched(c)
           /\ Failover!BudgetUsed(c) <=>
                 MaxRetries # 0 /\ Cardinality(call[c].failed) >= MaxRetries
<1>1. /\ AbstractPhase[c] = "trying" /\ AbstractAsked[c] = call[c].failed
      /\ AbstractExcused[c] = Excused(call[c])
  BY Mapped DEF PhaseAt, AskedAt, ExcusedAt
<1>2. Failover!Untouched(c) = Endpoints \ (call[c].failed \cup Excused(call[c]))
  BY <1>1 DEF Failover!Untouched
<1>3. LedgerOK(call[c], pc[c]) /\ call[c] \in Call
  BY Types DEF LedgerInv
<1>4. \A e \in Endpoints : e \in Ahead(call[c]) => e \in Failover!Untouched(c)
  BY <1>2, <1>3 DEF LedgerOK, Partitioned
<1>5. pc[c] = "scan" => call[c].scan \in Failover!Untouched(c)
  <2>. SUFFICES ASSUME pc[c] = "scan" PROVE call[c].scan \in Failover!Untouched(c)
    OBVIOUS
  <2>1. call[c].scan \in Endpoints
    BY Types DEF CallOK
  <2>. QED
    BY <1>2, <1>3, <2>1, EntryIsNew
<1>. QED
  BY <1>1, <1>2, <1>4, <1>5, SameCardinality DEF Failover!BudgetUsed

\* What the budget says and what the books say is the same.
LEMMA BudgetMatches ==
    ASSUME IInv, LedgerInv, NEW c \in Callers, pc[c] \in {"next", "admitted"}
    PROVE  Failover!BudgetUsed(c) <=> BudgetSpent(c)
<1>1. LedgerOK(call[c], pc[c]) /\ Cardinality(call[c].failed) \in Nat
  BY Types, FailedFinite DEF LedgerInv
<1>2. Pending(call[c], pc[c]) = 0
  BY <1>1 DEF LedgerOK, Staged, Pending
<1>3. call[c].tried = Cardinality(call[c].failed)
  BY <1>1, <1>2 DEF LedgerOK, Counted
<1>. QED
  BY <1>3, AheadUntouched DEF BudgetSpent

LEMMA InitImplements == Init => Failover!Init
<1>. SUFFICES ASSUME Init PROVE Failover!Init
  OBVIOUS
<1>1. \A c \in Callers : pc[c] = "idle" /\ call[c].outcome = "none"
  BY DEF Init, FreshCall
<1>. QED
  BY <1>1 DEF Failover!Init, AbstractPhase, AbstractAsked, AbstractExcused, AbstractOutcome

\* A call enters.
LEMMA BeginImplements ==
    ASSUME IInv, NEW c \in Callers, Begin(c)
    PROVE  Failover!Begin(c)
<1>1. /\ pc[c] = "idle" /\ pc'[c] = "scan" /\ OthersKept(c)
      /\ \E mode, method : call'[c] = FreshCall(mode, method, clock)
  BY BeginFields
<1>2. /\ call'[c].failed = {} /\ call'[c].incapable = {} /\ call'[c].cooling = {}
      /\ call'[c].throttled = {} /\ call'[c].outcome = "none"
  BY <1>1 DEF FreshCall
<1>3. AbstractPhase[c] = "idle" /\ AbstractPhase' = [AbstractPhase EXCEPT ![c] = "trying"]
  BY <1>1, Mapped, MappedStep DEF PhaseAt
<1>4. AbstractOutcome' = [AbstractOutcome EXCEPT ![c] = "none"]
  BY <1>1, <1>2, MappedStep
<1>5. AbstractAsked' = AbstractAsked /\ AbstractExcused' = AbstractExcused
  BY <1>1, <1>2, Unseen DEF AskedAt, ExcusedAt, Excused
<1>. QED
  BY <1>3, <1>4, <1>5 DEF Failover!Begin

\* An endpoint is passed over: by the scan, or for want of a token.
LEMMA ExcuseImplements ==
    ASSUME IInv, LedgerInv, NEW c \in Callers, NEW e \in Endpoints, OthersKept(c),
           pc[c] \in {"scan", "throttle"}, pc'[c] \in {"scan", "sort", "next"},
           e \in Failover!Untouched(c),
           call'[c].failed = call[c].failed, call'[c].outcome = call[c].outcome,
           Excused(call'[c]) = Excused(call[c]) \cup {e}
    PROVE  Failover!Excuse(c, e)
<1>1. AbstractPhase[c] = "trying" /\ AbstractExcused[c] = Excused(call[c])
  BY AheadUntouched
<1>2. /\ PhaseAt(pc'[c]) = PhaseAt(pc[c])
      /\ AskedAt(call'[c], pc'[c]) = AskedAt(call[c], pc[c])
      /\ ExcusedAt(call'[c], pc'[c]) = Excused(call[c]) \cup {e}
  BY DEF PhaseAt, AskedAt, ExcusedAt
<1>3. /\ AbstractPhase' = AbstractPhase /\ AbstractAsked' = AbstractAsked
      /\ AbstractOutcome' = AbstractOutcome
  BY <1>2, Unseen
<1>4. AbstractExcused' = [AbstractExcused EXCEPT ![c] = Excused(call[c]) \cup {e}]
  BY <1>2, MappedStep
<1>. QED
  BY <1>1, <1>3, <1>4 DEF Failover!Excuse

LEMMA ScanImplements ==
    ASSUME IInv, LedgerInv, NEW c \in Callers, SkipIncapable(c) \/ SkipCooling(c) \/ Admit(c)
    PROVE  Failover!Excuse(c, call[c].scan) \/ UNCHANGED Failover!callVars
<1>1. /\ pc[c] = "scan" /\ call[c].scan \in Endpoints /\ OthersKept(c)
      /\ pc'[c] \in {"scan", "sort", "next"} /\ SameLoop(call[c], call'[c])
      /\ \/ Excused(call'[c]) = Excused(call[c]) \cup {call[c].scan}
         \/ Excused(call'[c]) = Excused(call[c])
  BY ScanFields DEF Excused, SameLoop
<1>2. CASE Excused(call'[c]) = Excused(call[c]) \cup {call[c].scan}
  BY <1>1, <1>2, AheadUntouched, ExcuseImplements DEF SameLoop
<1>3. CASE Excused(call'[c]) = Excused(call[c])
  <2>1. /\ PhaseAt(pc'[c]) = PhaseAt(pc[c])
        /\ AskedAt(call'[c], pc'[c]) = AskedAt(call[c], pc[c])
        /\ ExcusedAt(call'[c], pc'[c]) = ExcusedAt(call[c], pc[c])
        /\ call'[c].outcome = call[c].outcome
    BY <1>1, <1>3 DEF PhaseAt, AskedAt, ExcusedAt, SameLoop
  <2>. QED
    BY <1>1, <2>1, Unseen DEF Failover!callVars
<1>. QED
  BY <1>1, <1>2, <1>3

\* The sort, the clock read for the limiter, a token taken and an answer
\* noted are not seen.
LEMMA InnerSteps ==
    ASSUME IInv, NEW c \in Callers,
           SortReads(c) \/ SortCompares(c) \/ AskLimiter(c) \/ Grant(c) \/ Answer(c)
    PROVE  UNCHANGED Failover!callVars
<1>1. /\ OthersKept(c) /\ SameLoop(call[c], call'[c])
      /\ call'[c].incapable = call[c].incapable /\ call'[c].cooling = call[c].cooling
      /\ \/ /\ pc[c] \in {"sort", "next", "throttle"}
            /\ pc'[c] \in {"sort", "next", "throttle", "admitted"}
         \/ pc[c] = "await" /\ pc'[c] = "leave" /\ call'[c].sort = call[c].sort
  BY SortFields, TokenFields, AnswerFields DEF SameScan
<1>2. /\ PhaseAt(pc'[c]) = PhaseAt(pc[c])
      /\ AskedAt(call'[c], pc'[c]) = AskedAt(call[c], pc[c])
      /\ ExcusedAt(call'[c], pc'[c]) = ExcusedAt(call[c], pc[c])
      /\ call'[c].outcome = call[c].outcome
  BY <1>1 DEF PhaseAt, AskedAt, ExcusedAt, Excused, SameLoop
<1>. QED
  BY <1>1, <1>2, Unseen DEF Failover!callVars

\* The candidate that has no token is an untouched endpoint.
LEMMA ThrottleImplements ==
    ASSUME IInv, LedgerInv, NEW c \in Callers, Throttle(c)
    PROVE  Failover!Excuse(c, Target(c))
<1>1. /\ pc[c] = "throttle" /\ pc'[c] = "next" /\ OthersKept(c)
      /\ call[c].next \in 1 .. Len(Candidates(c)) /\ Target(c) \in Endpoints
      /\ SameScan(call[c], call'[c])
      /\ call'[c].throttled = call[c].throttled \cup {Target(c)}
      /\ call'[c].failed = call[c].failed /\ call'[c].outcome = call[c].outcome
  BY AdvanceFields DEF Throttle
<1>2. Target(c) \in Ahead(call[c])
  <2>1. Candidates(c) \in Seq(Endpoints) /\ Distinct(Candidates(c))
    BY Types DEF LedgerInv, LedgerOK, Partitioned, Candidates
  <2>. QED
    BY <1>1, <2>1, FromAdvance DEF Ahead, Target, Candidates
<1>3. Target(c) \in Failover!Untouched(c)
  BY <1>1, <1>2, AheadUntouched
<1>4. Excused(call'[c]) = Excused(call[c]) \cup {Target(c)}
  BY <1>1 DEF Excused, SameScan
<1>. QED
  BY <1>1, <1>3, <1>4, ExcuseImplements

\* The candidate asked is an untouched endpoint, and within the budget.
LEMMA DispatchImplements ==
    ASSUME IInv, LedgerInv, NEW c \in Callers, Dispatch(c)
    PROVE  Failover!Ask(c, Target(c))
<1>1. /\ pc[c] \in {"next", "admitted"} /\ pc'[c] = "await" /\ ~BudgetSpent(c)
      /\ OthersKept(c)
      /\ call[c].next \in 1 .. Len(Candidates(c)) /\ Target(c) \in Endpoints
      /\ SameScan(call[c], call'[c]) /\ call'[c].next = call[c].next
      /\ call'[c].failed = call[c].failed /\ call'[c].throttled = call[c].throttled
      /\ call'[c].outcome = call[c].outcome
  BY DispatchFields
<1>2. Target(c) \in Ahead(call[c])
  <2>1. Candidates(c) \in Seq(Endpoints) /\ Distinct(Candidates(c))
    BY Types DEF LedgerInv, LedgerOK, Partitioned, Candidates
  <2>. QED
    BY <1>1, <2>1, FromAdvance DEF Ahead, Target, Candidates
<1>3. /\ Target(c) \in Failover!Untouched(c) /\ ~Failover!BudgetUsed(c)
      /\ AbstractPhase[c] = "trying" /\ AbstractAsked[c] = call[c].failed
  BY <1>1, <1>2, AheadUntouched, BudgetMatches
<1>4. AbstractPhase' = [AbstractPhase EXCEPT ![c] = "asking"]
  BY <1>1, MappedStep DEF PhaseAt
<1>5. AskedAt(call'[c], pc'[c]) = call[c].failed \cup {Target(c)}
  BY <1>1 DEF AskedAt, SameScan, Target, Candidates
<1>6. AbstractAsked' = [AbstractAsked EXCEPT ![c] = call[c].failed \cup {Target(c)}]
  BY <1>1, <1>5, MappedStep
<1>7. AbstractExcused' = AbstractExcused /\ AbstractOutcome' = AbstractOutcome
  BY <1>1, Unseen DEF ExcusedAt, Excused, SameScan
<1>. QED
  BY <1>3, <1>4, <1>6, <1>7 DEF Failover!Ask

\* The failure was the asked endpoint's, and it stays asked.
LEMMA FailOverImplements ==
    ASSUME IInv, NEW c \in Callers, FailOver(c)
    PROVE  Failover!Fail(c)
<1>1. /\ pc[c] = "leave" /\ pc'[c] = "next" /\ OthersKept(c)
      /\ SameScan(call[c], call'[c])
      /\ call'[c].failed = call[c].failed \cup {Target(c)}
      /\ call'[c].throttled = call[c].throttled /\ call'[c].outcome = call[c].outcome
  BY AdvanceFields DEF FailOver
<1>2. AbstractPhase[c] = "asking" /\ AbstractPhase' = [AbstractPhase EXCEPT ![c] = "trying"]
  BY <1>1, Mapped, MappedStep DEF PhaseAt
<1>3. AskedAt(call'[c], pc'[c]) = AskedAt(call[c], pc[c])
  BY <1>1 DEF AskedAt, Target, Candidates
<1>4. ExcusedAt(call'[c], pc'[c]) = ExcusedAt(call[c], pc[c])
  BY <1>1 DEF ExcusedAt, Excused, SameScan
<1>. QED
  BY <1>1, <1>2, <1>3, <1>4, Unseen DEF Failover!Fail

\* Only an endpoint awaited ends a call with an answer; an error ends one
\* that has nothing left to try, or nothing left to try it with.
LEMMA EndImplements ==
    ASSUME IInv, LedgerInv, NEW c \in Callers, ReturnAnswer(c) \/ GiveUp(c) \/ Drop(c)
    PROVE  \/ \E how \in {"Result", "RpcError"} : Failover!Answer(c, how)
           \/ Failover!Abandon(c) \/ Failover!Refuse(c)
<1>1. pc'[c] = "idle" /\ OthersKept(c)
  BY EndFields
<1>2. Failover!End(c, call'[c].outcome)
  BY <1>1, MappedStep DEF PhaseAt, AskedAt, ExcusedAt, Failover!End
<1>3. CASE ReturnAnswer(c)
  <2>1. pc[c] = "leave" /\ call'[c].outcome \in {"Result", "RpcError"}
    BY <1>3, EndFields DEF ReturnAnswer, Drop, GiveUp, PastThrottle
  <2>2. AbstractPhase[c] = "asking"
    BY <2>1, Mapped DEF PhaseAt
  <2>. QED
    BY <1>2, <2>1, <2>2 DEF Failover!Answer
<1>4. CASE Drop(c)
  <2>1. pc[c] = "await" /\ call'[c].outcome = "Dropped"
    BY <1>4, EndFields DEF ReturnAnswer, Drop, GiveUp, PastThrottle
  <2>2. AbstractPhase[c] = "asking"
    BY <2>1, Mapped DEF PhaseAt
  <2>. QED
    BY <1>2, <2>1, <2>2 DEF Failover!Abandon
<1>5. CASE GiveUp(c)
  <2>1. /\ pc[c] \in {"next", "admitted"}
        /\ Exhausted(c) \/ BudgetSpent(c)
        /\ call'[c].outcome = IF call[c].failed = {} THEN "NoCandidates" ELSE "AllFailed"
    BY <1>5, EndFields DEF ReturnAnswer, Drop, GiveUp, PastThrottle
  <2>2. /\ AbstractPhase[c] = "trying" /\ AbstractAsked[c] = call[c].failed
        /\ Failover!Untouched(c) = Endpoints \ (call[c].failed \cup Excused(call[c]))
    BY <2>1, AheadUntouched
  <2>3. Failover!Untouched(c) = {} \/ Failover!BudgetUsed(c)
    <3>1. CASE Exhausted(c)
      <4>1. LedgerOK(call[c], pc[c]) /\ call[c].scan = N + 1
        BY <2>1 DEF LedgerInv, LedgerOK, Staged
      <4>2. 1 .. (call[c].scan - 1) = Endpoints
        BY <4>1, RoutingAssumption DEF Endpoints
      <4>3. call[c].next .. Len(Candidates(c)) = {}
        BY <3>1, Types DEF Exhausted
      <4>4. Ahead(call[c]) = {}
        BY <4>3 DEF Ahead, From, Candidates
      <4>. QED
        BY <2>2, <4>1, <4>2, <4>4 DEF LedgerOK, Partitioned
    <3>2. CASE BudgetSpent(c)
      BY <2>1, <3>2, BudgetMatches
    <3>. QED
      BY <2>1, <3>1, <3>2
  <2>. QED
    BY <1>2, <2>1, <2>2, <2>3 DEF Failover!Refuse
<1>. QED
  BY <1>3, <1>4, <1>5

LEMMA StepImplements ==
    ASSUME IInv, LedgerInv, [Next]_vars
    PROVE  [Failover!Next]_Failover!callVars
<1>1. ASSUME NEW c \in Callers, Begin(c) \/ FailOver(c)
      PROVE  Failover!Next
  BY <1>1, BeginImplements, FailOverImplements DEF Failover!Next
<1>2. ASSUME NEW c \in Callers, SkipIncapable(c) \/ SkipCooling(c) \/ Admit(c)
      PROVE  [Failover!Next]_Failover!callVars
  BY <1>2, ScanImplements, ScanFields DEF Failover!Next
<1>3. ASSUME NEW c \in Callers, Throttle(c) \/ Dispatch(c)
      PROVE  Failover!Next
  BY <1>3, ThrottleImplements, DispatchImplements, AdvanceFields, DispatchFields
     DEF Failover!Next
<1>4. ASSUME NEW c \in Callers, ReturnAnswer(c) \/ GiveUp(c) \/ Drop(c)
      PROVE  Failover!Next
  BY <1>4, EndImplements DEF Failover!Next
<1>5. CASE UNCHANGED <<health, pc, call>>
  BY <1>5 DEF Failover!callVars, AbstractPhase, AbstractAsked, AbstractExcused,
              AbstractOutcome, Target, Candidates
<1>. QED
  BY <1>1, <1>2, <1>3, <1>4, <1>5, InnerSteps, OneCallSteps

(***************************************************************************)
(* The pool implements FailoverCall: every step of a call is a step of the *)
(* promise, or unseen (mod.rs:267-554).                                    *)
(***************************************************************************)
THEOREM ImplementsFailover == Spec => ImplementsFailoverCall
<1>1. Init => Failover!Init
  BY InitImplements
<1>2. IInv /\ LedgerInv /\ [Next]_vars => [Failover!Next]_Failover!callVars
  BY StepImplements
<1>. QED
  BY <1>1, <1>2, Ledger, PTL DEF Spec, ImplementsFailoverCall, Failover!Spec

-----------------------------------------------------------------------------
(***************************************************************************)
(* No step of a call undoes another.  The ledger is what bounds the scan:  *)
(* the candidates listed are as many different entries already looked at,  *)
(* so the sort starts on a list no longer than the pool.                   *)
(***************************************************************************)
Remaining(r) == IF r.next > Len(r.sort.order) THEN 0 ELSE Len(r.sort.order) + 1 - r.next

\* CallWork, as a function of the locals and the place of a call.
WorkAt(r, p) ==
    CASE p = "idle" -> 0
      [] p = "scan" -> 2 * N * N + 6 * N + 2 - r.scan
      [] p = "sort" -> SortWork(r.sort) + 5 * Remaining(r) + 1
      [] OTHER      -> 5 * Remaining(r) + 1 - Stage[p]

\* The work left at v is some, and less than at u.
Nearer(u, v) == v \in 0 .. (u - 1)

LEMMA WorkOfCall ==
    ASSUME NEW c \in Callers
    PROVE  CallWork(c) = WorkAt(call[c], pc[c]) /\ CallWork(c)' = WorkAt(call'[c], pc'[c])
  BY DEF CallWork, WorkAt, Turns, Remaining, Exhausted, Candidates

LEMMA WorkByPlace ==
    ASSUME NEW r
    PROVE  /\ WorkAt(r, "idle") = 0
           /\ WorkAt(r, "scan") = 2 * N * N + 6 * N + 2 - r.scan
           /\ WorkAt(r, "sort") = SortWork(r.sort) + 5 * Remaining(r) + 1
           /\ WorkAt(r, "next") = 5 * Remaining(r) + 1 - 0
           /\ WorkAt(r, "throttle") = 5 * Remaining(r) + 1 - 1
           /\ WorkAt(r, "admitted") = 5 * Remaining(r) + 1 - 2
           /\ WorkAt(r, "await") = 5 * Remaining(r) + 1 - 3
           /\ WorkAt(r, "leave") = 5 * Remaining(r) + 1 - 4
  BY DEF WorkAt, Stage

LEMMA RemainingType ==
    ASSUME NEW r \in Call
    PROVE  /\ Remaining(r) \in Nat /\ Len(r.sort.order) \in Nat
           /\ r.next = 1 => Remaining(r) = Len(r.sort.order)
           /\ r.next <= Len(r.sort.order) => Remaining(r) = Len(r.sort.order) + 1 - r.next
           /\ r.next <= Len(r.sort.order) => Remaining(r) >= 1
<1>1. PICK n \in Nat : n = Len(r.sort.order)
  BY DEF Call, Cursors
<1>2. r.next \in Nat
  BY DEF Call
<1>3. CASE r.next > n
  <2>1. Remaining(r) = 0
    BY <1>1, <1>3 DEF Remaining
  <2>. QED
    BY <1>1, <1>2, <1>3, <2>1
<1>4. CASE r.next <= n
  <2>1. Remaining(r) = n + 1 - r.next
    BY <1>1, <1>2, <1>4 DEF Remaining
  <2>2. n + 1 - r.next \in Nat /\ n + 1 - r.next >= 1 /\ (r.next = 1 => n + 1 - r.next = n)
    BY <1>2, <1>4
  <2>3. /\ Remaining(r) \in Nat /\ n \in Nat /\ Remaining(r) >= 1
        /\ r.next = 1 => Remaining(r) = n
    BY <2>1, <2>2
  <2>. QED
    BY <1>1, <2>1, <2>3
<1>. QED
  BY <1>2, <1>3, <1>4

\* As many different entries as are listed are below n.
LEMMA ListIsShort ==
    ASSUME NEW q \in Seq(Endpoints), Distinct(q), NEW n \in Nat, Elements(q) \subseteq 1 .. n
    PROVE  Len(q) <= n
<1>1. PICK m \in Nat : m = Len(q)
  OBVIOUS
<1>2. DOMAIN q = 1 .. m /\ q = [i \in 1 .. m |-> q[i]]
  BY <1>1
<1>3. \A i \in 1 .. m : q[i] \in 1 .. n
  BY <1>1 DEF Elements
<1>4. q \in [1 .. m -> 1 .. n]
  BY <1>2, <1>3
<1>5. IsInjective(q)
  BY <1>1, <1>2 DEF Distinct, IsInjective
<1>6. q \in Injection(1 .. m, 1 .. n)
  BY <1>4, <1>5 DEF Injection
<1>7. /\ IsFiniteSet(1 .. n) /\ Cardinality(1 .. n) = n
      /\ Cardinality(1 .. m) = m
  BY FS_Interval
<1>8. Cardinality(1 .. m) <= Cardinality(1 .. n)
  BY <1>6, <1>7, FS_Injection
<1>. QED
  BY <1>1, <1>7, <1>8

\* What a sort of n elements costs to begin with.
LEMMA FirstSortWork ==
    ASSUME NEW s \in Cursors, s.at = 2, CursorOK(s), s.left = NoKey, Sorting(s),
           Len(s.order) <= N
    PROVE  SortWork(s) \in Nat /\ SortWork(s) <= 2 * N * N - 2
<1>1. PICK n \in Nat, k \in Nat : n = Len(s.order) /\ n = k + 2
  <2>1. Len(s.order) \in Nat /\ Len(s.order) - 2 \in Nat
    BY DEF Cursors, Sorting
  <2>2. Len(s.order) = (Len(s.order) - 2) + 2
    BY <2>1
  <2>. QED
    BY <2>1, <2>2
<1>2. s.hole = 2 /\ n <= N /\ N \in Nat /\ s.at = n - k
  BY <1>1, RoutingAssumption DEF CursorOK, Cursors
<1>3. SortWork(s) = Rows(n, k + 1) + 2 * (s.hole - 1) - (IF s.left = NoKey THEN 0 ELSE 1)
  BY <1>1, <1>2, SortWorkIs
<1>4. SortWork(s) = Rows(n, k + 1) + 2
  <2>1. Rows(n, k + 1) \in Int
    BY <1>1, RowsType
  <2>. QED
    BY <1>2, <1>3, <2>1
<1>5. PICK j \in Nat : j = k + 1
  OBVIOUS
<1>6. Rows(n, j) \in Nat /\ Rows(n, j + 1) = Rows(n, j) + 2 * n
  BY RowsType
<1>7. j + 1 = n
  BY <1>1, <1>5
<1>8. Rows(n, n) = 2 * (n * n) /\ n * n \in Nat
  BY <1>1, ProductGrows DEF Rows
<1>9. SortWork(s) = 2 * (n * n) - 2 * n + 2
  BY <1>4, <1>5, <1>6, <1>7, <1>8
<1>10. SortWork(s) \in Nat
  BY <1>4, <1>5, <1>6
<1>11. N * N \in Nat /\ N * n \in Nat /\ n * n <= N * n /\ N * n <= N * N
  BY <1>2, ProductGrows
<1>12. 2 * N * N = 2 * (N * N)
  BY <1>2
<1>13. 2 * n >= 4
  BY <1>1
<1>. QED
  BY <1>8, <1>9, <1>10, <1>11, <1>12, <1>13

\* The scan does not move the cursor of the sort.
LEMMA ScanKeepsCursor ==
    ASSUME IInv, NEW c \in Callers, SkipIncapable(c) \/ SkipCooling(c) \/ Admit(c)
    PROVE  call'[c].sort.at = 2
<1>. DEFINE o == call[c]
            e == call[c].scan
<1>1. /\ pc[c] = "scan" /\ o \in Call /\ o.sort \in Cursors /\ e \in Endpoints
      /\ o.sort.at = 2 /\ Candidates(c) \in Seq(Endpoints)
  BY Types DEF SkipIncapable, SkipCooling, Admit, CallOK
<1>2. ASSUME NEW q \in Call, q.scan = e, Scanned(c, q), q.sort.at = 2
      PROVE  call'[c].sort.at = 2
  BY <1>1, <1>2, ScannedFields
<1>3. CASE SkipIncapable(c)
  <2>. DEFINE q == [o EXCEPT !.incapable = @ \cup {e}]
  <2>1. q \in Call /\ q.scan = e /\ q.sort.at = 2
    BY <1>1 DEF Call
  <2>. QED
    BY <1>2, <1>3, <2>1 DEF SkipIncapable
<1>4. CASE SkipCooling(c)
  <2>. DEFINE q == [o EXCEPT !.cooling = @ \cup {e}]
  <2>1. q \in Call /\ q.scan = e /\ q.sort.at = 2
    BY <1>1 DEF Call
  <2>. QED
    BY <1>2, <1>4, <2>1 DEF SkipCooling
<1>5. CASE Admit(c)
  <2>1. PICK order \in Seq(Endpoints) : order = Append(Candidates(c), e)
    <3>1. \A x \in Seq(Endpoints), d \in Endpoints : Append(x, d) \in Seq(Endpoints)
      OBVIOUS
    <3>. QED
      BY <1>1, <3>1
  <2>. DEFINE s == [o.sort EXCEPT !.order = order]
              q == [o EXCEPT !.sort = s]
  <2>2. s \in Cursors /\ s.at = 2
    BY <1>1 DEF Cursors
  <2>3. q \in Call /\ q.scan = e /\ q.sort.at = 2
    BY <1>1, <2>2 DEF Call
  <2>4. Scanned(c, q)
    BY <1>5, <2>1 DEF Admit, Candidates
  <2>. HIDE DEF s, q
  <2>. QED
    BY <1>2, <2>3, <2>4
<1>. QED
  BY <1>3, <1>4, <1>5

\* What holds of a call after a step.
LEMMA AfterStep ==
    ASSUME IInv', LedgerInv', NEW c \in Callers
    PROVE  /\ call'[c] \in Call /\ pc'[c] \in Places
           /\ CallOK(call'[c], pc'[c]) /\ LedgerOK(call'[c], pc'[c])
  BY DEF IInv, TypeOK, LedgerInv

\* Looking at an entry.  The sort and the loop that follow take fewer steps
\* than the scan had in hand.
LEMMA ScanAdvances ==
    ASSUME IInv, LedgerInv, IInv', LedgerInv', NEW c \in Callers,
           SkipIncapable(c) \/ SkipCooling(c) \/ Admit(c)
    PROVE  Nearer(WorkAt(call[c], pc[c]), WorkAt(call'[c], pc'[c]))
<1>. DEFINE o == call[c]
            r == call'[c]
            all == 2 * N * N
<1>1. /\ pc[c] = "scan" /\ o \in Call /\ o.scan \in Endpoints
      /\ pc'[c] \in {"scan", "sort", "next"} /\ (pc'[c] # "scan" => o.scan = N)
      /\ r.scan = o.scan + 1 /\ r.sort.left = o.sort.left /\ r.next = o.next
  BY ScanFields DEF SameLoop
<1>2. r \in Call /\ CallOK(r, pc'[c]) /\ LedgerOK(r, pc'[c])
  BY AfterStep
<1>3. LedgerOK(o, "scan")
  BY <1>1 DEF LedgerInv
<1>4. r.sort.left = NoKey /\ r.sort.at = 2 /\ r.next = 1
  BY <1>1, <1>3, ScanKeepsCursor DEF LedgerOK, Staged
<1>5. r.sort \in Cursors /\ CursorOK(r.sort) /\ r.sort.order \in Seq(Endpoints)
  BY <1>2 DEF Call, CallOK, Cursors
<1>6. /\ N \in Nat /\ N >= 1 /\ all \in Nat /\ all >= 2
      /\ o.scan \in 1 .. N
  <2>1. N \in Nat /\ N >= 1 /\ o.scan \in 1 .. N
    BY <1>1, RoutingAssumption DEF Endpoints
  <2>2. N * N \in Nat /\ 1 * N <= N * N
    BY <2>1, ProductGrows
  <2>3. all = 2 * (N * N)
    BY <2>1
  <2>. HIDE DEF all
  <2>. QED
    BY <2>1, <2>2, <2>3
<1>7. WorkAt(o, "scan") = all + 6 * N + 2 - o.scan
  BY WorkByPlace
<1>. HIDE DEF o, r, all
<1>8. CASE pc'[c] = "scan"
  <2>1. WorkAt(r, "scan") = all + 6 * N + 2 - r.scan
    BY WorkByPlace DEF all
  <2>2. r.scan \in 1 .. N
    BY <1>2, <1>8 DEF CallOK, Endpoints
  <2>3. Nearer(WorkAt(o, "scan"), WorkAt(r, "scan"))
    BY <1>1, <1>6, <1>7, <2>1, <2>2 DEF Nearer
  <2>. QED
    BY <1>1, <1>8, <2>3 DEF o, r
<1>9. CASE pc'[c] \in {"sort", "next"}
  <2>1. o.scan = N /\ r.scan = N + 1
    BY <1>1, <1>9
  <2>2. Len(r.sort.order) <= N
    <3>1. Distinct(r.sort.order) /\ Ahead(r) \subseteq 1 .. (r.scan - 1)
      BY <1>2 DEF LedgerOK, Partitioned
    <3>2. Ahead(r) = Elements(r.sort.order) /\ r.scan - 1 = N
      BY <1>4, <1>6, <2>1, FromAll DEF Ahead
    <3>. QED
      BY <1>5, <1>6, <3>1, <3>2, ListIsShort
  <2>3. /\ Remaining(r) = Len(r.sort.order) /\ Len(r.sort.order) \in Nat
        /\ Remaining(r) \in 0 .. N
    BY <1>2, <1>4, <1>6, <2>2, RemainingType
  <2>4. CASE pc'[c] = "next"
    <3>1. WorkAt(r, "next") = 5 * Remaining(r) + 1 - 0
      BY WorkByPlace
    <3>2. Nearer(WorkAt(o, "scan"), WorkAt(r, "next"))
      BY <1>6, <1>7, <2>1, <2>3, <3>1 DEF Nearer
    <3>. QED
      BY <1>1, <2>4, <3>2 DEF o, r
  <2>5. CASE pc'[c] = "sort"
    <3>1. Sorting(r.sort)
      BY <1>2, <2>5 DEF CallOK
    <3>2. SortWork(r.sort) \in Nat /\ SortWork(r.sort) <= all - 2
      BY <1>4, <1>5, <2>2, <3>1, FirstSortWork DEF all
    <3>3. WorkAt(r, "sort") = SortWork(r.sort) + 5 * Remaining(r) + 1
      BY WorkByPlace
    <3>4. WorkAt(o, "scan") = all + 5 * N + 2
      BY <1>6, <1>7, <2>1
    <3>5. PICK m \in 0 .. N, w \in Nat :
            m = Remaining(r) /\ w = SortWork(r.sort) /\ w <= all - 2
      BY <2>3, <3>2
    <3>6. WorkAt(r, "sort") = w + 5 * m + 1
      BY <3>3, <3>5
    <3>7. w + 5 * m + 1 \in Nat /\ w + 5 * m + 1 <= all + 5 * N + 1
      BY <1>6, <3>5
    <3>8. w + 5 * m + 1 \in 0 .. ((all + 5 * N + 2) - 1)
      BY <1>6, <3>7
    <3>9. Nearer(WorkAt(o, "scan"), WorkAt(r, "sort"))
      BY <3>4, <3>6, <3>8 DEF Nearer
    <3>. QED
      BY <1>1, <2>5, <3>9 DEF o, r
  <2>. QED
    BY <1>9, <2>4, <2>5
<1>. QED
  BY <1>1, <1>8, <1>9

\* A step of the sort, whatever loads it reads.
LEMMA SortStepAdvances ==
    ASSUME IInv, LedgerInv, IInv', LedgerInv', NEW c \in Callers,
           SortReads(c) \/ SortCompares(c)
    PROVE  Nearer(WorkAt(call[c], pc[c]), WorkAt(call'[c], pc'[c]))
<1>. DEFINE o == call[c]
            r == call'[c]
<1>1. /\ pc[c] = "sort" /\ o \in Call /\ Sorting(o.sort)
      /\ pc'[c] \in {"sort", "next"} /\ r.next = o.next
      /\ \/ SortReads(c) /\ r.sort = ReadLeft(o.sort, inFlight)
         \/ SortCompares(c) /\ r.sort = Compare(o.sort, inFlight)
  BY SortFields DEF SameLoop
<1>2. r \in Call /\ o.sort \in Cursors /\ CursorOK(o.sort) /\ inFlight \in [Endpoints -> Nat]
  BY AfterStep, Types DEF IInv, TypeOK
<1>3. Len(r.sort.order) = Len(o.sort.order)
  BY <1>1, <1>2, ReadLeftKeeps, ComparePermutes
<1>4. Remaining(r) = Remaining(o) /\ Remaining(o) \in Nat
  BY <1>1, <1>3, RemainingType DEF Remaining
<1>5. /\ SortWork(o.sort) \in Nat /\ SortWork(o.sort) > 0
      /\ SortWork(r.sort) \in 0 .. (SortWork(o.sort) - 1)
  <2>1. CASE SortReads(c) /\ r.sort = ReadLeft(o.sort, inFlight)
    <3>1. o.sort.left = NoKey
      BY <2>1 DEF SortReads
    <3>. QED
      BY <1>1, <1>2, <2>1, <3>1, SortAdvances
  <2>2. CASE SortCompares(c) /\ r.sort = Compare(o.sort, inFlight)
    <3>1. o.sort.left # NoKey
      BY <2>2 DEF SortCompares
    <3>. QED
      BY <1>1, <1>2, <2>2, <3>1, SortAdvances
  <2>. QED
    BY <1>1, <2>1, <2>2
<1>6. /\ WorkAt(o, "sort") = SortWork(o.sort) + 5 * Remaining(o) + 1
      /\ WorkAt(r, "sort") = SortWork(r.sort) + 5 * Remaining(r) + 1
      /\ WorkAt(r, "next") = 5 * Remaining(r) + 1 - 0
  BY WorkByPlace
<1>. HIDE DEF o, r
<1>7. Nearer(WorkAt(o, "sort"), WorkAt(r, "sort")) /\ Nearer(WorkAt(o, "sort"), WorkAt(r, "next"))
  BY <1>4, <1>5, <1>6 DEF Nearer
<1>. QED
  BY <1>1, <1>7 DEF o, r

\* The work left in one turn, by the place in it.
LEMMA TurnWork ==
    ASSUME NEW o \in Call, NEW r \in Call, NEW p \in {"throttle", "admitted", "await", "leave"},
           o.next <= Len(o.sort.order)
    PROVE  /\ WorkAt(o, p) \in Nat /\ WorkAt(o, p) > 0
           /\ Nearer(WorkAt(o, p), WorkAt(r, "idle"))
           /\ Nearer(WorkAt(o, "next"), WorkAt(o, p))
           /\ r.sort = o.sort /\ r.next = o.next + 1 =>
                 Nearer(WorkAt(o, p), WorkAt(r, "next"))
<1>1. PICK left \in Nat : left = Remaining(o) /\ left >= 1
  BY RemainingType
<1>2. PICK k \in 1 .. 4 : WorkAt(o, p) = 5 * left + 1 - k
  <2>1. /\ WorkAt(o, "throttle") = 5 * left + 1 - 1
        /\ WorkAt(o, "admitted") = 5 * left + 1 - 2
        /\ WorkAt(o, "await") = 5 * left + 1 - 3
        /\ WorkAt(o, "leave") = 5 * left + 1 - 4
    BY <1>1, WorkByPlace
  <2>. QED
    BY <2>1
<1>3. /\ WorkAt(o, "next") = 5 * left + 1 - 0
      /\ WorkAt(r, "idle") = 0 /\ WorkAt(r, "next") = 5 * Remaining(r) + 1 - 0
  BY <1>1, WorkByPlace
<1>4. ASSUME r.sort = o.sort, r.next = o.next + 1
      PROVE  Remaining(r) = left - 1
  <2>1. PICK n \in Nat, i \in Nat : n = Len(o.sort.order) /\ i = o.next
    BY RemainingType DEF Call
  <2>2. left = n + 1 - i
    BY <1>1, <2>1, RemainingType
  <2>3. i <= n
    BY <2>1
  <2>4. r.next = i + 1 /\ Len(r.sort.order) = n
    BY <1>4, <2>1
  <2>5. CASE i = n
    <3>1. left = 1 /\ i + 1 > n
      BY <2>1, <2>2, <2>5
    <3>. QED
      BY <2>4, <3>1 DEF Remaining
  <2>6. CASE i < n
    <3>1. ~(i + 1 > n)
      BY <2>6
    <3>2. n + 1 - i - 1 = n + 1 - (i + 1)
      OBVIOUS
    <3>. QED
      BY <2>2, <2>4, <3>1, <3>2 DEF Remaining
  <2>. QED
    BY <2>1, <2>3, <2>5, <2>6
<1>5. 5 * left + 1 - k \in 1 .. 5 * left
  BY <1>1, <1>2
<1>6. /\ WorkAt(o, p) \in Nat /\ WorkAt(o, p) > 0
      /\ Nearer(WorkAt(o, p), WorkAt(r, "idle"))
  <2>1. \A w \in 1 .. 5 * left : w \in Nat /\ w > 0 /\ 0 \in 0 .. (w - 1)
    BY <1>1
  <2>. QED
    BY <1>2, <1>3, <1>5, <2>1 DEF Nearer
<1>7. Nearer(WorkAt(o, "next"), WorkAt(o, p))
  BY <1>1, <1>2, <1>3, <1>5 DEF Nearer
<1>8. ASSUME r.sort = o.sort, r.next = o.next + 1
      PROVE  Nearer(WorkAt(o, p), WorkAt(r, "next"))
  <2>1. WorkAt(r, "next") = 5 * (left - 1) + 1 - 0
    BY <1>3, <1>4, <1>8
  <2>2. 5 * (left - 1) + 1 - 0 \in 0 .. ((5 * left + 1 - k) - 1)
    <3>1. PICK j \in Nat : left = j + 1
      <4>1. left - 1 \in Nat /\ left = (left - 1) + 1
        BY <1>1
      <4>. QED
        BY <4>1
    <3>2. 5 * (left - 1) + 1 - 0 = 5 * j + 1 /\ (5 * left + 1 - k) - 1 = 5 * j + 5 - k
      BY <1>2, <3>1
    <3>3. 5 * j + 1 \in 0 .. (5 * j + 5 - k)
      BY <1>2, <3>1
    <3>. QED
      BY <3>2, <3>3
  <2>. QED
    BY <1>2, <2>1, <2>2 DEF Nearer
<1>. QED
  BY <1>6, <1>7, <1>8

\* The steps inside one turn, in their order.
Forward(p, q) ==
    <<p, q>> \in {<<"next", "throttle">>, <<"throttle", "admitted">>, <<"next", "await">>,
                  <<"admitted", "await">>, <<"await", "leave">>}

LEMMA TurnProceeds ==
    ASSUME NEW o \in Call, NEW r \in Call, NEW p, NEW q, Forward(p, q),
           o.next <= Len(o.sort.order), r.sort = o.sort, r.next = o.next
    PROVE  Nearer(WorkAt(o, p), WorkAt(r, q))
<1>1. PICK left \in Nat : left = Remaining(o) /\ left >= 1
  BY RemainingType
<1>2. Remaining(r) = left
  BY <1>1 DEF Remaining
<1>3. /\ WorkAt(o, "next") = 5 * left + 1 - 0
      /\ WorkAt(o, "throttle") = 5 * left + 1 - 1 /\ WorkAt(r, "throttle") = 5 * left + 1 - 1
      /\ WorkAt(o, "admitted") = 5 * left + 1 - 2 /\ WorkAt(r, "admitted") = 5 * left + 1 - 2
      /\ WorkAt(o, "await") = 5 * left + 1 - 3 /\ WorkAt(r, "await") = 5 * left + 1 - 3
      /\ WorkAt(r, "leave") = 5 * left + 1 - 4
  BY <1>1, <1>2, WorkByPlace
<1>4. ASSUME NEW i \in 0 .. 4, NEW j \in 0 .. 4, i < j
      PROVE  Nearer(5 * left + 1 - i, 5 * left + 1 - j)
  <2>1. 5 * left + 1 - j \in Nat /\ 5 * left + 1 - j <= (5 * left + 1 - i) - 1
    BY <1>1, <1>4
  <2>. QED
    BY <1>1, <2>1 DEF Nearer
<1>5. CASE p = "next" /\ q = "throttle"
  BY <1>3, <1>4, <1>5
<1>6. CASE p = "throttle" /\ q = "admitted"
  BY <1>3, <1>4, <1>6
<1>7. CASE p = "next" /\ q = "await"
  BY <1>3, <1>4, <1>7
<1>8. CASE p = "admitted" /\ q = "await"
  BY <1>3, <1>4, <1>8
<1>9. CASE p = "await" /\ q = "leave"
  BY <1>3, <1>4, <1>9
<1>. QED
  BY <1>5, <1>6, <1>7, <1>8, <1>9 DEF Forward

\* The loop over the candidates.
LEMMA LoopAdvances ==
    ASSUME IInv, LedgerInv, IInv', LedgerInv', NEW c \in Callers,
           \/ AskLimiter(c) \/ Grant(c) \/ Throttle(c) \/ FailOver(c)
           \/ Dispatch(c) \/ Answer(c)
    PROVE  Nearer(WorkAt(call[c], pc[c]), WorkAt(call'[c], pc'[c]))
<1>. DEFINE o == call[c]
            r == call'[c]
<1>1. o \in Call /\ r \in Call /\ pc \in [Callers -> Places] /\ call \in [Callers -> Call]
  BY AfterStep DEF IInv, TypeOK
<1>2. CASE AskLimiter(c)
  <2>1. pc[c] = "next" /\ pc'[c] = "throttle"
    BY <1>1, <1>2 DEF AskLimiter
  <2>2. o.next <= Len(o.sort.order)
    BY <1>2, Types DEF AskLimiter, Exhausted, Candidates
  <2>3. r.sort = o.sort /\ r.next = o.next
    BY <1>2, TokenFields DEF SameLoop, SameScan
  <2>. QED
    BY <1>1, <2>1, <2>2, <2>3, TurnProceeds DEF Forward
<1>3. CASE Grant(c)
  <2>1. pc[c] = "throttle" /\ pc'[c] = "admitted"
    BY <1>1, <1>3 DEF Grant
  <2>2. o.next <= Len(o.sort.order)
    BY <2>1, AtLimiter DEF Candidates
  <2>3. r.sort = o.sort /\ r.next = o.next
    BY <1>3, TokenFields DEF SameLoop, SameScan
  <2>. QED
    BY <1>1, <2>1, <2>2, <2>3, TurnProceeds DEF Forward
<1>4. CASE Throttle(c) \/ FailOver(c)
  <2>1. /\ pc[c] \in {"throttle", "leave"} /\ pc'[c] = "next"
        /\ o.next <= Len(o.sort.order)
        /\ r.sort = o.sort /\ r.next = o.next + 1
    BY <1>4, AdvanceFields DEF SameScan, Candidates
  <2>. QED
    BY <1>1, <2>1, TurnWork
<1>5. CASE Dispatch(c)
  <2>1. /\ pc[c] \in {"next", "admitted"} /\ pc'[c] = "await"
        /\ o.next <= Len(o.sort.order)
        /\ r.sort = o.sort /\ r.next = o.next
    BY <1>5, DispatchFields DEF SameScan, Candidates
  <2>2. Forward(pc[c], pc'[c])
    BY <2>1 DEF Forward
  <2>. QED
    BY <1>1, <2>1, <2>2, TurnProceeds
<1>6. CASE Answer(c)
  <2>1. /\ pc[c] = "await" /\ pc'[c] = "leave"
        /\ r.sort = o.sort /\ r.next = o.next
    BY <1>6, AnswerFields DEF SameLoop, SameScan
  <2>2. o.next <= Len(o.sort.order)
    BY <2>1, AtTarget DEF Candidates
  <2>. QED
    BY <1>1, <2>1, <2>2, TurnProceeds DEF Forward
<1>. QED
  BY <1>2, <1>3, <1>4, <1>5, <1>6

\* The end of a call leaves nothing to do.
LEMMA EndAdvances ==
    ASSUME IInv, LedgerInv, IInv', LedgerInv', NEW c \in Callers,
           ReturnAnswer(c) \/ GiveUp(c) \/ Drop(c)
    PROVE  Nearer(WorkAt(call[c], pc[c]), WorkAt(call'[c], pc'[c]))
<1>. DEFINE o == call[c]
            r == call'[c]
<1>1. o \in Call /\ r \in Call /\ pc'[c] = "idle"
      /\ pc[c] \in {"next", "admitted", "await", "leave"}
  BY AfterStep, EndFields
<1>2. CASE pc[c] = "next"
  <2>1. PICK left \in Nat : left = Remaining(o)
    BY <1>1, RemainingType
  <2>2. WorkAt(o, "next") = 5 * left + 1 - 0 /\ WorkAt(r, "idle") = 0
    BY <2>1, WorkByPlace
  <2>3. 0 \in 0 .. ((5 * left + 1 - 0) - 1)
    BY <2>1
  <2>. QED
    BY <1>1, <1>2, <2>2, <2>3 DEF Nearer
<1>3. CASE pc[c] \in {"admitted", "await", "leave"}
  <2>1. o.next <= Len(o.sort.order)
    BY <1>3, AtTarget DEF PastThrottle, Candidates
  <2>. QED
    BY <1>1, <1>3, <2>1, TurnWork
<1>. QED
  BY <1>1, <1>2, <1>3

LEMMA StepAdvances ==
    ASSUME IInv, LedgerInv, IInv', LedgerInv', [Next]_vars,
           NEW c \in Callers, pc[c] # "idle"
    PROVE  \/ pc'[c] = pc[c] /\ call'[c] = call[c]
           \/ CallWork(c)' \in 0 .. (CallWork(c) - 1)
<1>1. Nearer(WorkAt(call[c], pc[c]), WorkAt(call'[c], pc'[c])) =>
          CallWork(c)' \in 0 .. (CallWork(c) - 1)
  BY WorkOfCall DEF Nearer
<1>2. ASSUME NEW d \in Callers, d # c, OthersKept(d)
      PROVE  pc'[c] = pc[c] /\ call'[c] = call[c]
  BY <1>2 DEF OthersKept
<1>3. ASSUME NEW d \in Callers, Begin(d)
      PROVE  pc'[c] = pc[c] /\ call'[c] = call[c]
  BY <1>2, <1>3, BeginFields
<1>4. ASSUME NEW d \in Callers, SkipIncapable(d) \/ SkipCooling(d) \/ Admit(d)
      PROVE  (pc'[c] = pc[c] /\ call'[c] = call[c])
               \/ Nearer(WorkAt(call[c], pc[c]), WorkAt(call'[c], pc'[c]))
  <2>1. OthersKept(d)
    BY <1>4, ScanFields
  <2>. QED
    BY <1>2, <1>4, <2>1, ScanAdvances
<1>5. ASSUME NEW d \in Callers, SortReads(d) \/ SortCompares(d)
      PROVE  (pc'[c] = pc[c] /\ call'[c] = call[c])
               \/ Nearer(WorkAt(call[c], pc[c]), WorkAt(call'[c], pc'[c]))
  <2>1. OthersKept(d)
    BY <1>5, SortFields
  <2>. QED
    BY <1>2, <1>5, <2>1, SortStepAdvances
<1>6. ASSUME NEW d \in Callers,
             \/ AskLimiter(d) \/ Grant(d) \/ Throttle(d) \/ FailOver(d)
             \/ Dispatch(d) \/ Answer(d)
      PROVE  (pc'[c] = pc[c] /\ call'[c] = call[c])
               \/ Nearer(WorkAt(call[c], pc[c]), WorkAt(call'[c], pc'[c]))
  <2>1. OthersKept(d)
    BY <1>6, TokenFields, AdvanceFields, DispatchFields, AnswerFields
  <2>. QED
    BY <1>2, <1>6, <2>1, LoopAdvances
<1>7. ASSUME NEW d \in Callers, ReturnAnswer(d) \/ GiveUp(d) \/ Drop(d)
      PROVE  (pc'[c] = pc[c] /\ call'[c] = call[c])
               \/ Nearer(WorkAt(call[c], pc[c]), WorkAt(call'[c], pc'[c]))
  <2>1. OthersKept(d)
    BY <1>7, EndFields
  <2>. QED
    BY <1>2, <1>7, <2>1, EndAdvances
<1>. QED
  BY <1>1, <1>3, <1>4, <1>5, <1>6, <1>7, OneCallSteps

(***************************************************************************)
(* No step of a call undoes another (mod.rs:230-265, 284-414).  A call of  *)
(* a pool of N endpoints is over after 2N^2 + 6N + 1 steps of its own,     *)
(* whatever the other calls do meanwhile.                                  *)
(***************************************************************************)
THEOREM CallsAdvance == Spec => CallAdvances
<1>. DEFINE Progress ==
        \A c \in Callers : pc[c] # "idle" =>
            \/ pc'[c] = pc[c] /\ call'[c] = call[c]
            \/ CallWork(c)' \in 0 .. (CallWork(c) - 1)
<1>1. IInv /\ LedgerInv /\ IInv' /\ LedgerInv' /\ [Next]_vars => [Progress]_vars
  BY StepAdvances
<1>2. CallAdvances <=> [][Progress]_vars
  BY DEF CallAdvances
<1>. HIDE DEF Progress
<1>. QED
  BY <1>1, <1>2, Ledger, PTL DEF Spec
=============================================================================
