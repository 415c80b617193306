--------------------------- MODULE Daemon_proofs ---------------------------
(***************************************************************************)
(* That a batch is worked off in step and no outcome is lost, proved for   *)
(* every number of clients, any batches and labels, and every pool that    *)
(* keeps the promise of FailoverCall.                                      *)
(***************************************************************************)
EXTENDS Daemon, Induction, FiniteSetTheorems, Folds, TLAPS

Phases == {"idle", "trying", "asking"}

\* A call of the pool is for the item in hand, which has a method.
OnItem(ph, cl, b, q) ==
    ph # "idle" => cl = "handling" /\ Len(q) < Len(b) /\ b[Len(q) + 1].method

\* An outcome in hand is that of the endpoint being asked.
InHand(v, ph, la) == v # "none" => ph = "asking" /\ la \in Latencies

(***************************************************************************)
(* What BatchInStep says of the batch b, the replies q and the number f of *)
(* items forwarded; busy, if one of them has no reply yet or never will.   *)
(***************************************************************************)
InStep(b, q, f, busy) ==
    /\ Len(q) <= Len(b)
    /\ \A i \in 1 .. Len(q) :
          q[i].id = b[i].id /\ (q[i].code = "-32600" <=> ~b[i].method)
    /\ f = Cardinality({i \in 1 .. Len(q) : b[i].method}) + (IF busy THEN 1 ELSE 0)

ClientOK(c) ==
    /\ OnItem(phase[c], client[c], batch[c], replies[c])
    /\ InHand(verdict[c], phase[c], latency[c])
    /\ InStep(batch[c], replies[c], forwarded[c], phase[c] # "idle" \/ client[c] = "left")

\* The requests of label l among the summaries F.
SummariesOf(F, l) == {r \in F : r.endpoint = l}
InFlush(F, l) ==
    IF SummariesOf(F, l) = {} THEN 0 ELSE (CHOOSE r \in SummariesOf(F, l) : TRUE).requests

\* There is one summary for a label at most.
FlushOK ==
    /\ \A r \in flushing : r.endpoint \in Labels /\ r.requests \in Nat
    /\ \A r, s \in flushing : r.endpoint = s.endpoint => r = s

BooksOK ==
    \A l \in Labels :
        recorded[l] = Requests(window[l]) + emitted[l] + Cardinality(Unreported(l))
                          + InFlush(flushing, l)

Types ==
    /\ DaemonTypeOK
    /\ phase \in [Callers -> Phases]
    /\ outcome \in [Callers -> {"none", "Result", "RpcError", "Dropped", "NoCandidates", "AllFailed"}]
    /\ batch \in [Callers -> Seq(Item)]

(***************************************************************************)
(* The inductive invariant.  BatchInStep and NoOutcomeLost need to know    *)
(* where a handler stands: that a call under way is for the item in hand,  *)
(* and that an outcome in hand belongs to a call that is asking.           *)
(***************************************************************************)
DaemonInv ==
    /\ Types
    /\ \A c \in Callers : ClientOK(c)
    /\ FlushOK /\ BooksOK

-----------------------------------------------------------------------------
\* Batches and their replies.

LEMMA NoReplies ==
    ASSUME NEW b \in Seq(Item)
    PROVE  InStep(b, <<>>, 0, FALSE)
<1>1. {i \in 1 .. Len(<<>>) : b[i].method} = {}
  OBVIOUS
<1>. QED
  BY <1>1, FS_EmptySet DEF InStep

LEMMA ItemForwarded ==
    ASSUME NEW b, NEW q \in Seq(Reply), NEW f, InStep(b, q, f, FALSE)
    PROVE  InStep(b, q, f + 1, TRUE)
<1>1. {i \in 1 .. Len(q) : b[i].method} \in SUBSET (1 .. Len(q)) /\ IsFiniteSet(1 .. Len(q))
  BY FS_Interval
<1>2. Cardinality({i \in 1 .. Len(q) : b[i].method}) \in Nat
  BY <1>1, FS_Subset, FS_CardinalityType
<1>. QED
  BY <1>2 DEF InStep

\* The item in hand gets its reply; it was forwarded if it has a method.
LEMMA ItemReplied ==
    ASSUME NEW b \in Seq(Item), NEW q \in Seq(Reply), Len(q) < Len(b),
           NEW f, NEW busy \in BOOLEAN, InStep(b, q, f, busy),
           NEW code \in Codes, code = "-32600" <=> ~b[Len(q) + 1].method,
           busy <=> b[Len(q) + 1].method
    PROVE  LET r == [id |-> b[Len(q) + 1].id, code |-> code]
           IN  Append(q, r) \in Seq(Reply) /\ InStep(b, Append(q, r), f, FALSE)
<1>. DEFINE n == Len(q)
            r == [id |-> b[n + 1].id, code |-> code]
            s == Append(q, r)
            old == {i \in 1 .. n : b[i].method}
            new == {i \in 1 .. (n + 1) : b[i].method}
<1>1. n \in Nat /\ n + 1 \in 1 .. Len(b)
  OBVIOUS
<1>2. b[n + 1] \in Item
  BY <1>1
<1>3. r \in Reply
  BY <1>2 DEF Item, Reply
<1>4. s \in Seq(Reply) /\ Len(s) = n + 1 /\ s[n + 1] = r /\ \A i \in 1 .. n : s[i] = q[i]
  BY <1>3
<1>5. r.id = b[n + 1].id /\ r.code = code
  OBVIOUS
<1>6. IsFiniteSet(old) /\ Cardinality(old) \in Nat /\ n + 1 \notin old
  <2>1. old \in SUBSET (1 .. n) /\ IsFiniteSet(1 .. n)
    BY <1>1, FS_Interval
  <2>. QED
    BY <1>1, <2>1, FS_Subset, FS_CardinalityType
<1>7. new = IF b[n + 1].method THEN old \cup {n + 1} ELSE old
  BY <1>1
<1>8. Cardinality(new) = Cardinality(old) + (IF b[n + 1].method THEN 1 ELSE 0)
  <2>. HIDE DEF old, new
  <2>1. Cardinality(old \cup {n + 1}) = Cardinality(old) + 1
    BY <1>6, FS_AddElement
  <2>. QED
    BY <1>6, <1>7, <2>1
<1>9. f = Cardinality(old) + (IF busy THEN 1 ELSE 0)
  BY DEF InStep
<1>10. f = Cardinality(new) + 0
  BY <1>6, <1>8, <1>9
<1>11. ASSUME NEW i \in 1 .. (n + 1)
       PROVE  s[i].id = b[i].id /\ (s[i].code = "-32600" <=> ~b[i].method)
  <2>1. CASE i = n + 1
    BY <1>4, <1>5, <2>1
  <2>2. CASE i # n + 1
    <3>1. i \in 1 .. n
      BY <1>1, <2>2
    <3>. QED
      BY <1>4, <3>1 DEF InStep
  <2>. QED
    BY <2>1, <2>2
<1>. HIDE DEF s
<1>12. InStep(b, s, f, FALSE)
  BY <1>1, <1>4, <1>10, <1>11 DEF InStep
<1>. QED
  BY <1>4, <1>12 DEF s

-----------------------------------------------------------------------------
\* Windows and summaries.

LEMMA WindowCounts ==
    ASSUME NEW w \in Window, NEW l \in Latencies
    PROVE  /\ OnSuccess(w, l) \in Window /\ OnFailure(w, l) \in Window
           /\ Requests(w) \in Nat
           /\ Requests(OnSuccess(w, l)) = Requests(w) + 1
           /\ Requests(OnFailure(w, l)) = Requests(w) + 1
<1>1. /\ w.ok \in Nat /\ w.err \in Nat /\ w.latencies_ms \in [Latencies -> Nat]
      /\ w.latencies_ms[l] + 1 \in Nat
  BY DEF Window
<1>2. PICK m \in [Latencies -> Nat], o \in Nat, e \in Nat :
          /\ m = [w.latencies_ms EXCEPT ![l] = @ + 1]
          /\ o = w.ok + 1 /\ e = w.err + 1
  <2>1. [w.latencies_ms EXCEPT ![l] = @ + 1] \in [Latencies -> Nat]
    BY <1>1
  <2>2. w.ok + 1 \in Nat /\ w.err + 1 \in Nat
    BY <1>1
  <2>. QED
    BY <2>1, <2>2
<1>3. OnSuccess(w, l) = [w EXCEPT !.ok = o, !.latencies_ms = m]
  BY <1>2 DEF OnSuccess
<1>4. OnFailure(w, l) = [w EXCEPT !.err = e, !.latencies_ms = m]
  BY <1>2 DEF OnFailure
<1>5. /\ OnSuccess(w, l) \in Window
      /\ OnSuccess(w, l).ok = w.ok + 1 /\ OnSuccess(w, l).err = w.err
  BY <1>1, <1>2, <1>3 DEF Window
<1>6. /\ OnFailure(w, l) \in Window
      /\ OnFailure(w, l).ok = w.ok /\ OnFailure(w, l).err = w.err + 1
  BY <1>1, <1>2, <1>4 DEF Window
<1>. QED
  BY <1>1, <1>5, <1>6 DEF Requests

LEMMA EmptyWindowCounts == EmptyWindow \in Window /\ Requests(EmptyWindow) = 0
  BY DEF EmptyWindow, Window, Requests

LEMMA NoSummary ==
    ASSUME NEW F, NEW l, \A r \in F : r.endpoint # l
    PROVE  InFlush(F, l) = 0
  BY DEF InFlush, SummariesOf

LEMMA OneSummary ==
    ASSUME NEW F, NEW r \in F, \A s \in F : s.endpoint = r.endpoint => s = r
    PROVE  InFlush(F, r.endpoint) = r.requests
<1>1. SummariesOf(F, r.endpoint) = {r}
  BY DEF SummariesOf
<1>2. (CHOOSE s \in {r} : TRUE) = r
  OBVIOUS
<1>. QED
  BY <1>1, <1>2 DEF InFlush

-----------------------------------------------------------------------------
(***************************************************************************)
(* The steps of one client leave the others where they are.                *)
(***************************************************************************)
Same(d) ==
    /\ phase'[d] = phase[d] /\ client'[d] = client[d] /\ batch'[d] = batch[d]
    /\ replies'[d] = replies[d] /\ forwarded'[d] = forwarded[d]
    /\ verdict'[d] = verdict[d] /\ latency'[d] = latency[d] /\ target'[d] = target[d]

OnlyMoves(c) == \A d \in Callers \ {c} : Same(d)

LEMMA ClientsKept ==
    ASSUME DaemonInv, NEW c \in Callers, OnlyMoves(c), ClientOK(c)'
    PROVE  \A d \in Callers : ClientOK(d)'
<1>1. ASSUME NEW d \in Callers, d # c
      PROVE  ClientOK(d)'
  BY <1>1 DEF DaemonInv, OnlyMoves, Same, ClientOK
<1>. QED
  BY <1>1

\* What the invariant says of one client.
LEMMA ClientTypes ==
    ASSUME DaemonInv, NEW c \in Callers
    PROVE  /\ phase[c] \in Phases /\ client[c] \in {"free", "handling", "left"}
           /\ batch[c] \in Seq(Item) /\ replies[c] \in Seq(Reply) /\ forwarded[c] \in Nat
           /\ target[c] \in Endpoints /\ Label[target[c]] \in Labels
           /\ verdict[c] \in {"none", "ok", "err"}
           /\ OnItem(phase[c], client[c], batch[c], replies[c])
           /\ InHand(verdict[c], phase[c], latency[c])
           /\ InStep(batch[c], replies[c], forwarded[c], phase[c] # "idle" \/ client[c] = "left")
<1>1. /\ phase[c] \in Phases /\ client[c] \in {"free", "handling", "left"}
      /\ batch[c] \in Seq(Item) /\ replies[c] \in Seq(Reply) /\ forwarded[c] \in Nat
      /\ target[c] \in Endpoints /\ verdict[c] \in {"none", "ok", "err"}
  BY DEF DaemonInv, Types, DaemonTypeOK
<1>2. Label[target[c]] \in Labels
  BY <1>1 DEF Labels
<1>. QED
  BY <1>1, <1>2 DEF DaemonInv, ClientOK

LEMMA UnreportedFinite ==
    ASSUME NEW l
    PROVE  IsFiniteSet(Unreported(l)) /\ Cardinality(Unreported(l)) \in Nat
<1>1. Unreported(l) \in SUBSET Callers
  BY DEF Unreported
<1>. QED
  BY <1>1, DaemonAssumption, FS_Subset, FS_CardinalityType

\* Steps that neither the rollup nor the flush task sees.
LEMMA BooksKept ==
    ASSUME DaemonInv, UNCHANGED <<window, flushing, emitted, recorded>>,
           \A l \in Labels : Unreported(l)' = Unreported(l)
    PROVE  FlushOK' /\ BooksOK'
  BY DEF DaemonInv, FlushOK, BooksOK

\* The handler's own steps.
LEMMA PostStep ==
    ASSUME DaemonInv, NEW c \in Callers, Post(c)
    PROVE  DaemonInv'
<1>1. PICK items \in Batches[c] : batch' = [batch EXCEPT ![c] = items]
  BY DEF Post
<1>2. items \in Seq(Item)
  BY DaemonAssumption
<1>3. /\ client[c] # "handling" /\ posted[c] < MaxPosts
      /\ client' = [client EXCEPT ![c] = "handling"]
      /\ posted' = [posted EXCEPT ![c] = @ + 1]
      /\ replies' = [replies EXCEPT ![c] = <<>>]
      /\ forwarded' = [forwarded EXCEPT ![c] = 0]
      /\ UNCHANGED <<callVars, answerVars, window, flushVars, recorded>>
  BY DEF Post
<1>4. phase[c] = "idle" /\ verdict[c] = "none"
  BY <1>3, ClientTypes DEF OnItem, InHand
<1>5. Types'
  <2>1. posted' \in [Callers -> 0 .. MaxPosts]
    <3>1. posted \in [Callers -> 0 .. MaxPosts] /\ posted[c] + 1 \in 0 .. MaxPosts
      BY <1>3, DaemonAssumption DEF DaemonInv, Types, DaemonTypeOK
    <3>. QED
      BY <1>3, <3>1
  <2>2. batch' \in [Callers -> Seq(Item)]
    BY <1>1, <1>2 DEF DaemonInv, Types
  <2>3. \A d \in Callers : batch'[d] \in Batches[d] \cup {<<>>}
    BY <1>1 DEF DaemonInv, Types, DaemonTypeOK
  <2>4. /\ client' \in [Callers -> {"free", "handling", "left"}]
        /\ forwarded' \in [Callers -> Nat]
    BY <1>3 DEF DaemonInv, Types, DaemonTypeOK
  <2>5. replies' \in [Callers -> Seq(Reply)]
    <3>1. replies \in [Callers -> Seq(Reply)] /\ <<>> \in Seq(Reply)
      BY DEF DaemonInv, Types, DaemonTypeOK
    <3>. QED
      BY <1>3, <3>1
  <2>. QED
    BY <1>3, <2>1, <2>2, <2>3, <2>4, <2>5
       DEF DaemonInv, Types, DaemonTypeOK, callVars, answerVars, flushVars
<1>6. OnlyMoves(c)
  BY <1>1, <1>3 DEF DaemonInv, Types, DaemonTypeOK, OnlyMoves, Same, callVars, answerVars
<1>7. ClientOK(c)'
  <2>1. /\ batch'[c] = items /\ replies'[c] = <<>> /\ forwarded'[c] = 0
        /\ client'[c] = "handling" /\ phase'[c] = "idle" /\ verdict'[c] = "none"
    BY <1>1, <1>3, <1>4 DEF DaemonInv, Types, DaemonTypeOK, callVars, answerVars
  <2>2. InStep(items, <<>>, 0, FALSE)
    BY <1>2, NoReplies
  <2>3. (phase'[c] # "idle" \/ client'[c] = "left") = FALSE
    BY <2>1
  <2>. QED
    BY <2>1, <2>2, <2>3 DEF ClientOK, OnItem, InHand
<1>8. FlushOK' /\ BooksOK'
  BY <1>3, BooksKept DEF Unreported, answerVars, flushVars
<1>. QED
  BY <1>5, <1>6, <1>7, <1>8, ClientsKept DEF DaemonInv

\* An item gets its reply: a call's, or that of an item without a method.
LEMMA ReplyGiven ==
    ASSUME DaemonInv, NEW c \in Callers, client[c] = "handling",
           Len(replies[c]) < Len(batch[c]), NEW code \in Codes, Replies(c, code),
           code = "-32600" <=> ~batch[c][Len(replies[c]) + 1].method,
           phase[c] # "idle" <=> batch[c][Len(replies[c]) + 1].method
    PROVE  /\ replies' \in [Callers -> Seq(Reply)]
           /\ \A d \in Callers \ {c} : replies'[d] = replies[d]
           /\ InStep(batch[c], replies'[c], forwarded[c], FALSE)
<1>. DEFINE r == [id |-> batch[c][Len(replies[c]) + 1].id, code |-> code]
<1>1. /\ batch[c] \in Seq(Item) /\ replies[c] \in Seq(Reply)
      /\ replies \in [Callers -> Seq(Reply)]
  BY ClientTypes DEF DaemonInv, Types, DaemonTypeOK
<1>2. replies' = [replies EXCEPT ![c] = Append(replies[c], r)]
  BY DEF Replies, NextItem
<1>3. PICK busy \in BOOLEAN : busy <=> phase[c] # "idle"
  OBVIOUS
<1>4. InStep(batch[c], replies[c], forwarded[c], busy)
  <2>1. busy = (phase[c] # "idle" \/ client[c] = "left")
    BY <1>3
  <2>. QED
    BY <2>1, ClientTypes
<1>5. Append(replies[c], r) \in Seq(Reply) /\ InStep(batch[c], Append(replies[c], r), forwarded[c], FALSE)
  BY <1>1, <1>3, <1>4, ItemReplied
<1>. HIDE DEF r
<1>. QED
  BY <1>1, <1>2, <1>5

\* A call is over: its handler is on no item, and no outcome is in hand.
LEMMA CallOver ==
    ASSUME DaemonInv, NEW c \in Callers, NEW how, End(c, how),
           how \in {"none", "Result", "RpcError", "Dropped", "NoCandidates", "AllFailed"}
    PROVE  /\ phase' \in [Callers -> Phases] /\ phase'[c] = "idle"
           /\ outcome' \in [Callers -> {"none", "Result", "RpcError", "Dropped", "NoCandidates", "AllFailed"}]
           /\ outcome'[c] = how
           /\ \A d \in Callers \ {c} : phase'[d] = phase[d]
  BY DEF DaemonInv, Types, End, Phases

LEMMA InvalidStep ==
    ASSUME DaemonInv, NEW c \in Callers, Invalid(c)
    PROVE  DaemonInv'
<1>1. /\ client[c] = "handling" /\ Len(replies[c]) < Len(batch[c])
      /\ ~batch[c][Len(replies[c]) + 1].method /\ Replies(c, "-32600")
      /\ UNCHANGED <<callVars, client, posted, batch, forwarded, answerVars,
                     window, flushVars, recorded>>
  BY DEF Invalid, HasItem, NextItem
<1>2. phase[c] = "idle" /\ verdict[c] = "none"
  BY <1>1, ClientTypes DEF OnItem, InHand
<1>3. "-32600" \in Codes
  BY DEF Codes
<1>4. /\ replies' \in [Callers -> Seq(Reply)]
      /\ \A d \in Callers \ {c} : replies'[d] = replies[d]
      /\ InStep(batch[c], replies'[c], forwarded[c], FALSE)
  BY <1>1, <1>2, <1>3, ReplyGiven
<1>5. Types'
  BY <1>1, <1>4 DEF DaemonInv, Types, DaemonTypeOK, callVars, answerVars, flushVars
<1>6. OnlyMoves(c)
  BY <1>1, <1>4 DEF OnlyMoves, Same, callVars, answerVars
<1>7. ClientOK(c)'
  <2>1. /\ batch'[c] = batch[c] /\ forwarded'[c] = forwarded[c]
        /\ client'[c] = "handling" /\ phase'[c] = "idle" /\ verdict'[c] = "none"
    BY <1>1, <1>2 DEF callVars, answerVars
  <2>2. (phase'[c] # "idle" \/ client'[c] = "left") = FALSE
    BY <2>1
  <2>. QED
    BY <1>4, <2>1, <2>2 DEF ClientOK, OnItem, InHand
<1>8. FlushOK' /\ BooksOK'
  BY <1>1, BooksKept DEF Unreported, answerVars, flushVars
<1>. QED
  BY <1>5, <1>6, <1>7, <1>8, ClientsKept DEF DaemonInv

LEMMA ForwardStep ==
    ASSUME DaemonInv, NEW c \in Callers, Forward(c)
    PROVE  DaemonInv'
<1>1. /\ client[c] = "handling" /\ Len(replies[c]) < Len(batch[c])
      /\ batch[c][Len(replies[c]) + 1].method
      /\ phase[c] = "idle" /\ phase' = [phase EXCEPT ![c] = "trying"]
      /\ outcome' = [outcome EXCEPT ![c] = "none"]
      /\ forwarded' = [forwarded EXCEPT ![c] = @ + 1]
      /\ UNCHANGED <<client, posted, batch, replies, answerVars, window, flushVars, recorded>>
  BY DEF Forward, HasItem, NextItem, Begin
<1>2. verdict[c] = "none"
  BY <1>1, ClientTypes DEF InHand
<1>3. Types'
  <2>1. phase' \in [Callers -> Phases]
    BY <1>1 DEF DaemonInv, Types, Phases
  <2>2. outcome' \in [Callers -> {"none", "Result", "RpcError", "Dropped", "NoCandidates", "AllFailed"}]
    BY <1>1 DEF DaemonInv, Types
  <2>3. forwarded' \in [Callers -> Nat]
    BY <1>1 DEF DaemonInv, Types, DaemonTypeOK
  <2>. QED
    BY <1>1, <2>1, <2>2, <2>3 DEF DaemonInv, Types, DaemonTypeOK, answerVars, flushVars
<1>4. OnlyMoves(c)
  BY <1>1 DEF DaemonInv, Types, DaemonTypeOK, OnlyMoves, Same, answerVars
<1>5. ClientOK(c)'
  <2>1. /\ batch'[c] = batch[c] /\ replies'[c] = replies[c] /\ forwarded'[c] = forwarded[c] + 1
        /\ client'[c] = "handling" /\ phase'[c] = "trying" /\ verdict'[c] = "none"
    BY <1>1, <1>2 DEF DaemonInv, Types, DaemonTypeOK, answerVars
  <2>2. InStep(batch[c], replies[c], forwarded[c], FALSE)
    <3>1. (phase[c] # "idle" \/ client[c] = "left") = FALSE
      BY <1>1
    <3>. QED
      BY <3>1, ClientTypes
  <2>3. InStep(batch[c], replies[c], forwarded[c] + 1, TRUE)
    BY <2>2, ItemForwarded, ClientTypes
  <2>4. (phase'[c] # "idle" \/ client'[c] = "left") = TRUE
    BY <2>1
  <2>. QED
    BY <1>1, <2>1, <2>3, <2>4 DEF ClientOK, OnItem, InHand
<1>6. FlushOK' /\ BooksOK'
  BY <1>1, BooksKept DEF Unreported, answerVars, flushVars
<1>. QED
  BY <1>3, <1>4, <1>5, <1>6, ClientsKept DEF DaemonInv

LEMMA RespondStep ==
    ASSUME DaemonInv, NEW c \in Callers, Respond(c)
    PROVE  DaemonInv'
<1>1. /\ client[c] = "handling" /\ Len(replies[c]) = Len(batch[c])
      /\ client' = [client EXCEPT ![c] = "free"]
      /\ UNCHANGED <<callVars, posted, batch, replies, forwarded, answerVars,
                     window, flushVars, recorded>>
  BY DEF Respond
<1>2. phase[c] = "idle" /\ verdict[c] = "none"
  BY <1>1, ClientTypes DEF OnItem, InHand
<1>3. Types'
  BY <1>1 DEF DaemonInv, Types, DaemonTypeOK, callVars, answerVars, flushVars
<1>4. OnlyMoves(c)
  BY <1>1 DEF DaemonInv, Types, DaemonTypeOK, OnlyMoves, Same, callVars, answerVars
<1>5. ClientOK(c)'
  <2>1. /\ batch'[c] = batch[c] /\ replies'[c] = replies[c] /\ forwarded'[c] = forwarded[c]
        /\ client'[c] = "free" /\ phase'[c] = "idle" /\ verdict'[c] = "none"
    BY <1>1, <1>2 DEF DaemonInv, Types, DaemonTypeOK, callVars, answerVars
  <2>2. (phase'[c] # "idle" \/ client'[c] = "left") = (phase[c] # "idle" \/ client[c] = "left")
    BY <1>1, <1>2, <2>1
  <2>. QED
    BY <2>1, <2>2, ClientTypes DEF ClientOK, OnItem, InHand
<1>6. FlushOK' /\ BooksOK'
  BY <1>1, BooksKept DEF Unreported, answerVars, flushVars
<1>. QED
  BY <1>3, <1>4, <1>5, <1>6, ClientsKept DEF DaemonInv

\* The client leaves while its call awaits: the item in hand stays without reply.
LEMMA HangUpStep ==
    ASSUME DaemonInv, NEW c \in Callers, HangUp(c)
    PROVE  DaemonInv'
<1>1. /\ verdict[c] = "none" /\ phase[c] = "asking" /\ End(c, "Dropped")
      /\ client' = [client EXCEPT ![c] = "left"]
      /\ UNCHANGED <<posted, batch, replies, forwarded, answerVars, window, flushVars, recorded>>
  BY DEF HangUp, Abandon
<1>2. /\ phase' \in [Callers -> Phases] /\ phase'[c] = "idle"
      /\ outcome' \in [Callers -> {"none", "Result", "RpcError", "Dropped", "NoCandidates", "AllFailed"}]
      /\ \A d \in Callers \ {c} : phase'[d] = phase[d]
  BY <1>1, CallOver
<1>3. Types'
  BY <1>1, <1>2 DEF DaemonInv, Types, DaemonTypeOK, answerVars, flushVars
<1>4. OnlyMoves(c)
  BY <1>1, <1>2 DEF DaemonInv, Types, DaemonTypeOK, OnlyMoves, Same, answerVars
<1>5. ClientOK(c)'
  <2>1. /\ batch'[c] = batch[c] /\ replies'[c] = replies[c] /\ forwarded'[c] = forwarded[c]
        /\ client'[c] = "left" /\ verdict'[c] = "none"
    BY <1>1 DEF DaemonInv, Types, DaemonTypeOK, answerVars
  <2>2. (phase'[c] # "idle" \/ client'[c] = "left") = (phase[c] # "idle" \/ client[c] = "left")
    BY <1>1, <2>1
  <2>. QED
    BY <1>2, <2>1, <2>2, ClientTypes DEF ClientOK, OnItem, InHand
<1>6. FlushOK' /\ BooksOK'
  BY <1>1, BooksKept DEF Unreported, answerVars, flushVars
<1>. QED
  BY <1>3, <1>4, <1>5, <1>6, ClientsKept DEF DaemonInv

-----------------------------------------------------------------------------
\* The pool's steps for the item in hand.
LEMMA PassOverStep ==
    ASSUME DaemonInv, NEW c \in Callers, PassOver(c)
    PROVE  DaemonInv'
<1>1. UNCHANGED <<phase, outcome, handlerVars, answerVars, window, flushVars, recorded>>
  BY DEF PassOver, Excuse
<1>2. Types'
  BY <1>1 DEF DaemonInv, Types, DaemonTypeOK, handlerVars, answerVars, flushVars
<1>3. \A d \in Callers : ClientOK(d)'
  BY <1>1 DEF DaemonInv, ClientOK, handlerVars, answerVars
<1>4. FlushOK' /\ BooksOK'
  BY <1>1, BooksKept DEF Unreported, answerVars, flushVars
<1>. QED
  BY <1>2, <1>3, <1>4 DEF DaemonInv

LEMMA DispatchStep ==
    ASSUME DaemonInv, NEW c \in Callers, Dispatch(c)
    PROVE  DaemonInv'
<1>1. PICK e \in Endpoints : Ask(c, e) /\ target' = [target EXCEPT ![c] = e]
  BY DEF Dispatch
<1>2. /\ phase[c] = "trying" /\ phase' = [phase EXCEPT ![c] = "asking"]
      /\ UNCHANGED <<outcome, handlerVars, verdict, latency, window, flushVars, recorded>>
  BY <1>1 DEF Dispatch, Ask
<1>3. verdict[c] = "none"
  BY <1>2, ClientTypes DEF InHand
<1>4. Types'
  <2>1. phase' \in [Callers -> Phases]
    BY <1>2 DEF DaemonInv, Types, Phases
  <2>2. target' \in [Callers -> Endpoints]
    BY <1>1 DEF DaemonInv, Types, DaemonTypeOK
  <2>. QED
    BY <1>2, <2>1, <2>2 DEF DaemonInv, Types, DaemonTypeOK, handlerVars, flushVars
<1>5. OnlyMoves(c)
  BY <1>1, <1>2 DEF DaemonInv, Types, DaemonTypeOK, OnlyMoves, Same, handlerVars
<1>6. ClientOK(c)'
  <2>1. /\ batch'[c] = batch[c] /\ replies'[c] = replies[c] /\ forwarded'[c] = forwarded[c]
        /\ client'[c] = client[c] /\ verdict'[c] = "none" /\ phase'[c] = "asking"
    BY <1>2, <1>3 DEF DaemonInv, Types, DaemonTypeOK, handlerVars
  <2>2. (phase'[c] # "idle" \/ client'[c] = "left") = (phase[c] # "idle" \/ client[c] = "left")
    BY <1>2, <2>1
  <2>. QED
    BY <1>2, <2>1, <2>2, ClientTypes DEF ClientOK, OnItem, InHand
<1>7. \A l \in Labels : Unreported(l)' = Unreported(l)
  <2>1. \A d \in Callers : verdict[d] # "none" => target'[d] = target[d]
    BY <1>3, <1>5 DEF OnlyMoves, Same
  <2>. QED
    BY <1>2, <2>1 DEF Unreported
<1>8. FlushOK' /\ BooksOK'
  BY <1>2, <1>7, BooksKept DEF flushVars
<1>. QED
  BY <1>4, <1>5, <1>6, <1>8, ClientsKept DEF DaemonInv

LEMMA GiveUpStep ==
    ASSUME DaemonInv, NEW c \in Callers, GiveUp(c)
    PROVE  DaemonInv'
<1>1. PICK how \in {"NoCandidates", "AllFailed"} : phase[c] = "trying" /\ End(c, how)
  BY DEF GiveUp, Refuse
<1>2. /\ Replies(c, PoolErrorCode(outcome'[c]))
      /\ UNCHANGED <<client, posted, batch, forwarded, answerVars, window, flushVars, recorded>>
  BY DEF GiveUp
<1>3. /\ phase' \in [Callers -> Phases] /\ phase'[c] = "idle"
      /\ outcome' \in [Callers -> {"none", "Result", "RpcError", "Dropped", "NoCandidates", "AllFailed"}]
      /\ \A d \in Callers \ {c} : phase'[d] = phase[d]
  BY <1>1, CallOver
<1>4. /\ client[c] = "handling" /\ Len(replies[c]) < Len(batch[c])
      /\ batch[c][Len(replies[c]) + 1].method /\ verdict[c] = "none"
  BY <1>1, ClientTypes DEF OnItem, InHand
<1>5. PoolErrorCode(outcome'[c]) \in Codes /\ PoolErrorCode(outcome'[c]) # "-32600"
  BY DEF PoolErrorCode, Codes
<1>6. /\ replies' \in [Callers -> Seq(Reply)]
      /\ \A d \in Callers \ {c} : replies'[d] = replies[d]
      /\ InStep(batch[c], replies'[c], forwarded[c], FALSE)
  BY <1>1, <1>2, <1>4, <1>5, ReplyGiven
<1>7. Types'
  BY <1>2, <1>3, <1>6 DEF DaemonInv, Types, DaemonTypeOK, answerVars, flushVars
<1>8. OnlyMoves(c)
  BY <1>2, <1>3, <1>6 DEF OnlyMoves, Same, answerVars
<1>9. ClientOK(c)'
  <2>1. /\ batch'[c] = batch[c] /\ forwarded'[c] = forwarded[c]
        /\ client'[c] = "handling" /\ verdict'[c] = "none"
    BY <1>2, <1>4 DEF answerVars
  <2>2. (phase'[c] # "idle" \/ client'[c] = "left") = FALSE
    BY <1>3, <2>1
  <2>. QED
    BY <1>3, <1>6, <2>1, <2>2 DEF ClientOK, OnItem, InHand
<1>10. FlushOK' /\ BooksOK'
  BY <1>2, BooksKept DEF Unreported, answerVars, flushVars
<1>. QED
  BY <1>7, <1>8, <1>9, <1>10, ClientsKept DEF DaemonInv

-----------------------------------------------------------------------------
\* Outcomes: recorded by the health record, then by the rollup.
LEMMA BooksTypes ==
    ASSUME DaemonInv, NEW l \in Labels
    PROVE  /\ window[l] \in Window /\ Requests(window[l]) \in Nat
           /\ recorded[l] \in Nat /\ emitted[l] \in Nat
           /\ Cardinality(Unreported(l)) \in Nat /\ InFlush(flushing, l) \in Nat
<1>1. window[l] \in Window /\ recorded[l] \in Nat /\ emitted[l] \in Nat
  BY DEF DaemonInv, Types, DaemonTypeOK
<1>2. Requests(window[l]) \in Nat
  BY <1>1 DEF Window, Requests
<1>3. InFlush(flushing, l) \in Nat
  <2>1. CASE \A r \in flushing : r.endpoint # l
    BY <2>1, NoSummary
  <2>2. CASE \E r \in flushing : r.endpoint = l
    <3>1. PICK r \in flushing : r.endpoint = l
      BY <2>2
    <3>2. InFlush(flushing, l) = r.requests /\ r.requests \in Nat
      BY <3>1, OneSummary DEF DaemonInv, FlushOK
    <3>. QED
      BY <3>2
  <2>. QED
    BY <2>1, <2>2
<1>. QED
  BY <1>1, <1>2, <1>3, UnreportedFinite

LEMMA ArriveStep ==
    ASSUME DaemonInv, NEW c \in Callers, Arrive(c)
    PROVE  DaemonInv'
<1>. DEFINE k == Label[target[c]]
<1>1. PICK v \in {"ok", "err"}, la \in Latencies :
          /\ verdict' = [verdict EXCEPT ![c] = v]
          /\ latency' = [latency EXCEPT ![c] = la]
  BY DEF Arrive
<1>2. /\ phase[c] = "asking" /\ verdict[c] = "none"
      /\ recorded' = [recorded EXCEPT ![k] = @ + 1]
      /\ UNCHANGED <<callVars, handlerVars, target, window, flushVars>>
  BY DEF Arrive
<1>3. k \in Labels /\ recorded \in [Labels -> Nat]
  BY ClientTypes DEF DaemonInv, Types, DaemonTypeOK
<1>4. Types'
  <2>1. verdict' \in [Callers -> {"none", "ok", "err"}]
    BY <1>1 DEF DaemonInv, Types, DaemonTypeOK
  <2>2. latency' \in [Callers -> Latencies \cup {0}]
    BY <1>1 DEF DaemonInv, Types, DaemonTypeOK
  <2>3. recorded' \in [Labels -> Nat]
    BY <1>2, <1>3
  <2>. QED
    BY <1>2, <2>1, <2>2, <2>3
       DEF DaemonInv, Types, DaemonTypeOK, callVars, handlerVars, flushVars
<1>5. OnlyMoves(c)
  BY <1>1, <1>2 DEF DaemonInv, Types, DaemonTypeOK, OnlyMoves, Same, callVars, handlerVars
<1>6. ClientOK(c)'
  <2>1. /\ batch'[c] = batch[c] /\ replies'[c] = replies[c] /\ forwarded'[c] = forwarded[c]
        /\ client'[c] = client[c] /\ phase'[c] = "asking" /\ latency'[c] \in Latencies
    BY <1>1, <1>2 DEF DaemonInv, Types, DaemonTypeOK, callVars, handlerVars
  <2>2. (phase'[c] # "idle" \/ client'[c] = "left") = (phase[c] # "idle" \/ client[c] = "left")
    BY <1>2, <2>1
  <2>. QED
    BY <1>2, <2>1, <2>2, ClientTypes DEF ClientOK, OnItem, InHand
<1>7. c \notin Unreported(k)
  BY <1>2 DEF Unreported
<1>8. \A l \in Labels : Unreported(l)' = IF l = k THEN Unreported(l) \cup {c} ELSE Unreported(l)
  <2>1. verdict'[c] # "none" /\ \A d \in Callers \ {c} : verdict'[d] = verdict[d]
    BY <1>1 DEF DaemonInv, Types, DaemonTypeOK
  <2>. QED
    BY <1>2, <2>1 DEF Unreported
<1>9. FlushOK'
  BY <1>2 DEF DaemonInv, FlushOK, flushVars
<1>10. ASSUME NEW l \in Labels
       PROVE  recorded'[l] = Requests(window'[l]) + emitted'[l] + Cardinality(Unreported(l)')
                                + InFlush(flushing', l)
  <2>1. recorded[l] = Requests(window[l]) + emitted[l] + Cardinality(Unreported(l))
                          + InFlush(flushing, l)
    BY DEF DaemonInv, BooksOK
  <2>2. window' = window /\ emitted' = emitted /\ flushing' = flushing
    BY <1>2 DEF flushVars
  <2>3. CASE l = k
    <3>1. Cardinality(Unreported(l)') = Cardinality(Unreported(l)) + 1
      BY <1>7, <1>8, <2>3, UnreportedFinite, FS_AddElement
    <3>2. recorded'[l] = recorded[l] + 1
      BY <1>2, <1>3, <2>3
    <3>. QED
      BY <2>1, <2>2, <3>1, <3>2, BooksTypes
  <2>4. CASE l # k
    <3>1. Unreported(l)' = Unreported(l) /\ recorded'[l] = recorded[l]
      BY <1>2, <1>3, <1>8, <2>4
    <3>. QED
      BY <2>1, <2>2, <3>1
  <2>. QED
    BY <2>3, <2>4
<1>11. BooksOK'
  BY <1>10 DEF BooksOK, Labels
<1>. QED
  BY <1>4, <1>5, <1>6, <1>9, <1>11, ClientsKept DEF DaemonInv

\* The outcome in hand goes into the window of its endpoint's label.
LEMMA OutcomeReported ==
    ASSUME DaemonInv, NEW c \in Callers, verdict[c] # "none",
           NEW w \in Window, Requests(w) = Requests(window[Label[target[c]]]) + 1,
           Reports(c, w)
    PROVE  /\ verdict' \in [Callers -> {"none", "ok", "err"}] /\ verdict'[c] = "none"
           /\ latency' \in [Callers -> Latencies \cup {0}]
           /\ window' \in [Labels -> Window]
           /\ UNCHANGED <<target, flushVars, recorded>>
           /\ \A d \in Callers \ {c} : verdict'[d] = verdict[d] /\ latency'[d] = latency[d]
           /\ FlushOK' /\ BooksOK'
<1>. DEFINE k == Label[target[c]]
<1>1. /\ window' = [window EXCEPT ![k] = w]
      /\ verdict' = [verdict EXCEPT ![c] = "none"]
      /\ latency' = [latency EXCEPT ![c] = 0]
      /\ UNCHANGED <<target, flushVars, recorded>>
  BY DEF Reports
<1>2. k \in Labels /\ window \in [Labels -> Window] /\ target[c] \in Endpoints
  BY ClientTypes DEF DaemonInv, Types, DaemonTypeOK
<1>3. verdict' \in [Callers -> {"none", "ok", "err"}] /\ verdict'[c] = "none"
  BY <1>1 DEF DaemonInv, Types, DaemonTypeOK
<1>4. latency' \in [Callers -> Latencies \cup {0}]
  BY <1>1 DEF DaemonInv, Types, DaemonTypeOK
<1>5. window' \in [Labels -> Window]
  BY <1>1, <1>2
<1>6. \A d \in Callers \ {c} : verdict'[d] = verdict[d] /\ latency'[d] = latency[d]
  BY <1>1 DEF DaemonInv, Types, DaemonTypeOK
<1>7. FlushOK'
  BY <1>1 DEF DaemonInv, FlushOK, flushVars
<1>8. c \in Unreported(k)
  BY DEF Unreported
<1>9. \A l \in Labels : Unreported(l)' = IF l = k THEN Unreported(l) \ {c} ELSE Unreported(l)
  BY <1>1, <1>3, <1>6 DEF Unreported
<1>10. ASSUME NEW l \in Labels
       PROVE  recorded'[l] = Requests(window'[l]) + emitted'[l] + Cardinality(Unreported(l)')
                                + InFlush(flushing', l)
  <2>1. recorded[l] = Requests(window[l]) + emitted[l] + Cardinality(Unreported(l))
                          + InFlush(flushing, l)
    BY DEF DaemonInv, BooksOK
  <2>2. recorded' = recorded /\ emitted' = emitted /\ flushing' = flushing
    BY <1>1 DEF flushVars
  <2>3. CASE l = k
    <3>1. Cardinality(Unreported(l)') = Cardinality(Unreported(l)) - 1
      BY <1>8, <1>9, <2>3, UnreportedFinite, FS_RemoveElement
    <3>2. window'[l] = w
      BY <1>1, <1>2, <2>3
    <3>3. Requests(window'[l]) = Requests(window[l]) + 1
      BY <2>3, <3>2
    <3>. QED
      BY <2>1, <2>2, <3>1, <3>3, BooksTypes
  <2>4. CASE l # k
    <3>1. Unreported(l)' = Unreported(l) /\ window'[l] = window[l]
      BY <1>1, <1>2, <1>9, <2>4
    <3>. QED
      BY <2>1, <2>2, <3>1
  <2>. QED
    BY <2>3, <2>4
<1>11. BooksOK'
  BY <1>10 DEF BooksOK, Labels
<1>. QED
  BY <1>1, <1>3, <1>4, <1>5, <1>6, <1>7, <1>11

LEMMA RelayStep ==
    ASSUME DaemonInv, NEW c \in Callers, Relay(c)
    PROVE  DaemonInv'
<1>. DEFINE w == OnSuccess(window[Label[target[c]]], latency[c])
<1>1. PICK how \in {"Result", "RpcError"} : End(c, how) /\ Replies(c, how)
  BY DEF Relay, Answer
<1>2. /\ verdict[c] = "ok" /\ Reports(c, w)
      /\ UNCHANGED <<client, posted, batch, forwarded>>
  BY DEF Relay
<1>3. phase[c] = "asking" /\ latency[c] \in Latencies /\ Label[target[c]] \in Labels
  BY <1>2, ClientTypes DEF InHand
<1>4. /\ client[c] = "handling" /\ Len(replies[c]) < Len(batch[c])
      /\ batch[c][Len(replies[c]) + 1].method
  BY <1>3, ClientTypes DEF OnItem
<1>5. w \in Window /\ Requests(w) = Requests(window[Label[target[c]]]) + 1
  BY <1>3, BooksTypes, WindowCounts
<1>. HIDE DEF w
<1>6. /\ verdict' \in [Callers -> {"none", "ok", "err"}] /\ verdict'[c] = "none"
      /\ latency' \in [Callers -> Latencies \cup {0}] /\ window' \in [Labels -> Window]
      /\ UNCHANGED <<target, flushVars, recorded>>
      /\ \A d \in Callers \ {c} : verdict'[d] = verdict[d] /\ latency'[d] = latency[d]
      /\ FlushOK' /\ BooksOK'
  BY <1>2, <1>5, OutcomeReported
<1>7. /\ phase' \in [Callers -> Phases] /\ phase'[c] = "idle"
      /\ outcome' \in [Callers -> {"none", "Result", "RpcError", "Dropped", "NoCandidates", "AllFailed"}]
      /\ \A d \in Callers \ {c} : phase'[d] = phase[d]
  BY <1>1, CallOver
<1>8. how \in Codes /\ how # "-32600"
  BY DEF Codes
<1>9. /\ replies' \in [Callers -> Seq(Reply)]
      /\ \A d \in Callers \ {c} : replies'[d] = replies[d]
      /\ InStep(batch[c], replies'[c], forwarded[c], FALSE)
  BY <1>1, <1>3, <1>4, <1>8, ReplyGiven
<1>10. Types'
  BY <1>2, <1>6, <1>7, <1>9 DEF DaemonInv, Types, DaemonTypeOK, flushVars
<1>11. OnlyMoves(c)
  BY <1>2, <1>6, <1>7, <1>9 DEF OnlyMoves, Same
<1>12. ClientOK(c)'
  <2>1. /\ batch'[c] = batch[c] /\ forwarded'[c] = forwarded[c] /\ client'[c] = "handling"
    BY <1>2, <1>4
  <2>2. (phase'[c] # "idle" \/ client'[c] = "left") = FALSE
    BY <1>7, <2>1
  <2>. QED
    BY <1>6, <1>7, <1>9, <2>1, <2>2 DEF ClientOK, OnItem, InHand
<1>. QED
  BY <1>6, <1>10, <1>11, <1>12, ClientsKept DEF DaemonInv

LEMMA FailOverStep ==
    ASSUME DaemonInv, NEW c \in Callers, FailOver(c)
    PROVE  DaemonInv'
<1>. DEFINE w == OnFailure(window[Label[target[c]]], latency[c])
<1>1. /\ verdict[c] = "err" /\ Reports(c, w)
      /\ phase[c] = "asking" /\ phase' = [phase EXCEPT ![c] = "trying"]
      /\ UNCHANGED <<outcome, handlerVars>>
  BY DEF FailOver, Fail
<1>2. latency[c] \in Latencies /\ Label[target[c]] \in Labels
  BY <1>1, ClientTypes DEF InHand
<1>3. w \in Window /\ Requests(w) = Requests(window[Label[target[c]]]) + 1
  BY <1>2, BooksTypes, WindowCounts
<1>. HIDE DEF w
<1>4. /\ verdict' \in [Callers -> {"none", "ok", "err"}] /\ verdict'[c] = "none"
      /\ latency' \in [Callers -> Latencies \cup {0}] /\ window' \in [Labels -> Window]
      /\ UNCHANGED <<target, flushVars, recorded>>
      /\ \A d \in Callers \ {c} : verdict'[d] = verdict[d] /\ latency'[d] = latency[d]
      /\ FlushOK' /\ BooksOK'
  BY <1>1, <1>3, OutcomeReported
<1>5. /\ phase' \in [Callers -> Phases] /\ phase'[c] = "trying"
      /\ \A d \in Callers \ {c} : phase'[d] = phase[d]
  BY <1>1 DEF DaemonInv, Types, Phases
<1>6. Types'
  BY <1>1, <1>4, <1>5 DEF DaemonInv, Types, DaemonTypeOK, handlerVars, flushVars
<1>7. OnlyMoves(c)
  BY <1>1, <1>4, <1>5 DEF OnlyMoves, Same, handlerVars
<1>8. ClientOK(c)'
  <2>1. /\ batch'[c] = batch[c] /\ replies'[c] = replies[c] /\ forwarded'[c] = forwarded[c]
        /\ client'[c] = client[c]
    BY <1>1 DEF handlerVars
  <2>2. (phase'[c] # "idle" \/ client'[c] = "left") = (phase[c] # "idle" \/ client[c] = "left")
    BY <1>1, <1>5, <2>1
  <2>. QED
    BY <1>1, <1>4, <1>5, <2>1, <2>2, ClientTypes DEF ClientOK, OnItem, InHand
<1>. QED
  BY <1>4, <1>6, <1>7, <1>8, ClientsKept DEF DaemonInv

-----------------------------------------------------------------------------
\* The flush task.
LEMMA DrainStep ==
    ASSUME DaemonInv, Drain
    PROVE  DaemonInv'
<1>1. /\ flushing = {} /\ window' = [l \in Labels |-> EmptyWindow]
      /\ flushing' = {EndpointRollup(l, window[l]) : l \in {k \in Labels : Busy(k)}}
      /\ UNCHANGED <<callVars, handlerVars, answerVars, emitted, recorded>>
  BY DEF Drain
<1>2. \A l \in Labels : /\ EndpointRollup(l, window[l]).endpoint = l
                        /\ EndpointRollup(l, window[l]).requests = Requests(window[l])
  BY DEF EndpointRollup
<1>3. Types'
  BY <1>1, EmptyWindowCounts DEF DaemonInv, Types, DaemonTypeOK, callVars, handlerVars, answerVars
<1>4. \A c \in Callers : ClientOK(c)'
  BY <1>1 DEF DaemonInv, ClientOK, callVars, handlerVars, answerVars
<1>5. FlushOK'
  <2>1. \A r \in flushing' : \E l \in Labels : r = EndpointRollup(l, window[l])
    BY <1>1
  <2>. QED
    BY <1>2, <2>1, BooksTypes DEF FlushOK, Labels
<1>6. ASSUME NEW l \in Labels
      PROVE  recorded'[l] = Requests(window'[l]) + emitted'[l] + Cardinality(Unreported(l)')
                               + InFlush(flushing', l)
  <2>1. recorded[l] = Requests(window[l]) + emitted[l] + Cardinality(Unreported(l))
                          + InFlush(flushing, l)
    BY DEF DaemonInv, BooksOK
  <2>2. InFlush(flushing, l) = 0
    BY <1>1, NoSummary
  <2>3. Requests(window'[l]) = 0
    BY <1>1, EmptyWindowCounts
  <2>4. Unreported(l)' = Unreported(l) /\ recorded' = recorded /\ emitted' = emitted
    BY <1>1 DEF Unreported, answerVars
  <2>5. InFlush(flushing', l) = Requests(window[l])
    <3>1. CASE Busy(l)
      <4>1. EndpointRollup(l, window[l]) \in flushing'
        BY <1>1, <3>1
      <4>2. \A s \in flushing' : s.endpoint = l => s = EndpointRollup(l, window[l])
        BY <1>1, <1>2
      <4>. QED
        BY <1>2, <4>1, <4>2, OneSummary
    <3>2. CASE ~Busy(l)
      <4>1. Requests(window[l]) = 0
        BY <3>2, BooksTypes DEF Busy
      <4>2. \A r \in flushing' : r.endpoint # l
        BY <1>1, <1>2, <3>2
      <4>. QED
        BY <4>1, <4>2, NoSummary
    <3>. QED
      BY <3>1, <3>2
  <2>. QED
    BY <2>1, <2>2, <2>3, <2>4, <2>5, BooksTypes
<1>7. BooksOK'
  BY <1>6 DEF BooksOK, Labels
<1>. QED
  BY <1>3, <1>4, <1>5, <1>7 DEF DaemonInv

LEMMA EmitStep ==
    ASSUME DaemonInv, Emit
    PROVE  DaemonInv'
<1>1. PICK r \in flushing : /\ flushing' = flushing \ {r}
                            /\ emitted' = [emitted EXCEPT ![r.endpoint] = @ + r.requests]
  BY DEF Emit
<1>2. UNCHANGED <<callVars, handlerVars, answerVars, window, recorded>>
  BY DEF Emit
<1>3. /\ r.endpoint \in Labels /\ r.requests \in Nat /\ emitted \in [Labels -> Nat]
      /\ \A s \in flushing : s.endpoint = r.endpoint => s = r
  BY DEF DaemonInv, FlushOK, Types, DaemonTypeOK
<1>4. Types'
  <2>1. emitted' \in [Labels -> Nat]
    BY <1>1, <1>3
  <2>. QED
    BY <1>2, <2>1 DEF DaemonInv, Types, DaemonTypeOK, callVars, handlerVars, answerVars
<1>5. \A c \in Callers : ClientOK(c)'
  BY <1>2 DEF DaemonInv, ClientOK, callVars, handlerVars, answerVars
<1>6. FlushOK'
  BY <1>1 DEF DaemonInv, FlushOK, Labels
<1>7. ASSUME NEW l \in Labels
      PROVE  recorded'[l] = Requests(window'[l]) + emitted'[l] + Cardinality(Unreported(l)')
                               + InFlush(flushing', l)
  <2>1. recorded[l] = Requests(window[l]) + emitted[l] + Cardinality(Unreported(l))
                          + InFlush(flushing, l)
    BY DEF DaemonInv, BooksOK
  <2>2. Unreported(l)' = Unreported(l) /\ recorded' = recorded /\ window' = window
    BY <1>2 DEF Unreported, answerVars
  <2>3. CASE l = r.endpoint
    <3>1. InFlush(flushing, l) = r.requests
      BY <1>3, <2>3, OneSummary
    <3>2. InFlush(flushing', l) = 0
      BY <1>1, <1>3, <2>3, NoSummary
    <3>3. emitted'[l] = emitted[l] + r.requests
      BY <1>1, <1>3, <2>3
    <3>. QED
      BY <1>3, <2>1, <2>2, <3>1, <3>2, <3>3, BooksTypes
  <2>4. CASE l # r.endpoint
    <3>1. SummariesOf(flushing', l) = SummariesOf(flushing, l)
      BY <1>1, <2>4 DEF SummariesOf
    <3>2. InFlush(flushing', l) = InFlush(flushing, l)
      BY <3>1 DEF InFlush
    <3>3. emitted'[l] = emitted[l]
      BY <1>1, <1>3, <2>4
    <3>. QED
      BY <2>1, <2>2, <3>2, <3>3
  <2>. QED
    BY <2>3, <2>4
<1>8. BooksOK'
  BY <1>7 DEF BooksOK, Labels
<1>. QED
  BY <1>4, <1>5, <1>6, <1>8 DEF DaemonInv

-----------------------------------------------------------------------------
LEMMA InitDaemonInv ==
    ASSUME DaemonInit
    PROVE  DaemonInv
<1>1. Types
  <2>1. target \in [Callers -> Endpoints]
    <3>1. (CHOOSE e \in Endpoints : TRUE) \in Endpoints
      BY DaemonAssumption
    <3>. QED
      BY <3>1 DEF DaemonInit
  <2>2. /\ phase \in [Callers -> Phases]
        /\ outcome \in [Callers -> {"none", "Result", "RpcError", "Dropped", "NoCandidates", "AllFailed"}]
    BY DEF DaemonInit, Init, Phases
  <2>3. /\ batch \in [Callers -> Seq(Item)] /\ replies \in [Callers -> Seq(Reply)]
        /\ \A c \in Callers : batch[c] \in Batches[c] \cup {<<>>}
    BY DEF DaemonInit
  <2>4. posted \in [Callers -> 0 .. MaxPosts]
    BY DaemonAssumption DEF DaemonInit
  <2>5. /\ client \in [Callers -> {"free", "handling", "left"}]
        /\ forwarded \in [Callers -> Nat]
        /\ verdict \in [Callers -> {"none", "ok", "err"}]
        /\ latency \in [Callers -> Latencies \cup {0}]
    BY DEF DaemonInit
  <2>6. /\ window \in [Labels -> Window]
        /\ emitted \in [Labels -> Nat] /\ recorded \in [Labels -> Nat]
    BY EmptyWindowCounts DEF DaemonInit
  <2>. QED
    BY <2>1, <2>2, <2>3, <2>4, <2>5, <2>6 DEF Types, DaemonTypeOK
<1>2. ASSUME NEW c \in Callers
      PROVE  ClientOK(c)
  <2>1. /\ phase[c] = "idle" /\ client[c] = "free" /\ batch[c] = <<>>
        /\ replies[c] = <<>> /\ forwarded[c] = 0 /\ verdict[c] = "none"
    BY DEF DaemonInit, Init
  <2>2. InStep(<<>>, <<>>, 0, FALSE)
    <3>1. <<>> \in Seq(Item)
      OBVIOUS
    <3>. QED
      BY <3>1, NoReplies
  <2>3. (phase[c] # "idle" \/ client[c] = "left") = FALSE
    BY <2>1
  <2>. QED
    BY <2>1, <2>2, <2>3 DEF ClientOK, OnItem, InHand
<1>3. FlushOK
  BY DEF DaemonInit, FlushOK
<1>4. ASSUME NEW l \in Labels
      PROVE  recorded[l] = Requests(window[l]) + emitted[l] + Cardinality(Unreported(l))
                               + InFlush(flushing, l)
  <2>1. Unreported(l) = {}
    BY DEF DaemonInit, Unreported
  <2>2. Cardinality(Unreported(l)) = 0
    BY <2>1, FS_EmptySet
  <2>3. InFlush(flushing, l) = 0
    BY NoSummary DEF DaemonInit
  <2>4. Requests(window[l]) = 0
    BY EmptyWindowCounts DEF DaemonInit
  <2>5. recorded[l] = 0 /\ emitted[l] = 0
    BY DEF DaemonInit
  <2>. QED
    BY <2>2, <2>3, <2>4, <2>5
<1>5. BooksOK
  BY <1>4 DEF BooksOK
<1>. QED
  BY <1>1, <1>2, <1>3, <1>5 DEF DaemonInv

LEMMA IdleStep ==
    ASSUME DaemonInv, UNCHANGED vars
    PROVE  DaemonInv'
<1>1. Types'
  BY DEF DaemonInv, Types, DaemonTypeOK, vars, callVars, handlerVars, answerVars, flushVars
<1>2. \A c \in Callers : ClientOK(c)'
  BY DEF DaemonInv, ClientOK, vars, callVars, handlerVars, answerVars
<1>3. \A l \in Labels : Unreported(l)' = Unreported(l)
  BY DEF Unreported, vars, answerVars
<1>4. FlushOK' /\ BooksOK'
  BY <1>3, BooksKept DEF vars, flushVars
<1>. QED
  BY <1>1, <1>2, <1>4 DEF DaemonInv

LEMMA NextDaemonInv ==
    ASSUME DaemonInv, [DaemonNext]_vars
    PROVE  DaemonInv'
<1>1. ASSUME NEW c \in Callers, Post(c)
      PROVE  DaemonInv'
  BY <1>1, PostStep
<1>2. ASSUME NEW c \in Callers, Proceed(c)
      PROVE  DaemonInv'
  BY <1>2, InvalidStep, ForwardStep, RespondStep, PassOverStep, DispatchStep,
     RelayStep, FailOverStep, GiveUpStep DEF Proceed
<1>3. ASSUME NEW c \in Callers, Arrive(c)
      PROVE  DaemonInv'
  BY <1>3, ArriveStep
<1>4. ASSUME NEW c \in Callers, HangUp(c)
      PROVE  DaemonInv'
  BY <1>4, HangUpStep
<1>5. CASE Drain
  BY <1>5, DrainStep
<1>6. CASE Emit
  BY <1>6, EmitStep
<1>7. CASE UNCHANGED vars
  BY <1>7, IdleStep
<1>8. CASE Stopped
  BY <1>8, IdleStep DEF Stopped
<1>. QED
  BY <1>1, <1>2, <1>3, <1>4, <1>5, <1>6, <1>7, <1>8 DEF DaemonNext

LEMMA DaemonInvariance == DaemonSpec => []DaemonInv
<1>1. DaemonInit => DaemonInv
  BY InitDaemonInv
<1>2. DaemonInv /\ [DaemonNext]_vars => DaemonInv'
  BY NextDaemonInv
<1>. QED
  BY <1>1, <1>2, PTL DEF DaemonSpec

-----------------------------------------------------------------------------
(***************************************************************************)
(* Every variable of the daemon keeps its type: the replies carry only the *)
(* codes of a pool's answer or of an error that the handler foresees, never *)
(* that of its last branch (proxy.rs:52-84).                               *)
(***************************************************************************)
THEOREM TypeCorrect == DaemonSpec => []DaemonTypeOK
<1>1. DaemonInv => DaemonTypeOK
  BY DEF DaemonInv, Types
<1>. QED
  BY <1>1, DaemonInvariance, PTL

(***************************************************************************)
(* A batch is worked off item by item (proxy.rs:41-45), for batches of any *)
(* length and any number of clients, also when clients leave: replies keep *)
(* order and ids, and each item with a method is given to the pool once.   *)
(***************************************************************************)
THEOREM BatchesInStep == DaemonSpec => []BatchInStep
<1>1. ASSUME DaemonInv, NEW c \in Callers
      PROVE  /\ Len(replies[c]) <= Len(batch[c])
             /\ \A i \in DOMAIN replies[c] :
                   /\ replies[c][i].id = batch[c][i].id
                   /\ replies[c][i].code = "-32600" <=> ~batch[c][i].method
             /\ forwarded[c] = Cardinality(Valid(c, Len(replies[c])))
                   + IF phase[c] # "idle" \/ client[c] = "left" THEN 1 ELSE 0
  <2>1. /\ replies[c] \in Seq(Reply)
        /\ InStep(batch[c], replies[c], forwarded[c], phase[c] # "idle" \/ client[c] = "left")
    BY <1>1, ClientTypes
  <2>2. DOMAIN replies[c] = 1 .. Len(replies[c])
    BY <2>1
  <2>. QED
    BY <2>1, <2>2 DEF InStep, Valid
<1>2. DaemonInv => BatchInStep
  BY <1>1 DEF BatchInStep
<1>. QED
  BY <1>2, DaemonInvariance, PTL

(***************************************************************************)
(* No outcome is lost or counted twice between the health records and the  *)
(* summaries (rollup.rs:47-78, 108-120), for any labels, shared or not,    *)
(* and wherever the drains fall between the two records of a call.         *)
(***************************************************************************)
THEOREM OutcomesKept == DaemonSpec => []NoOutcomeLost
<1>1. ASSUME DaemonInv, NEW l \in Labels
      PROVE  /\ Cardinality(Drained(l)) <= 1
             /\ recorded[l] = Requests(window[l]) + emitted[l] + Cardinality(Unreported(l))
                   + (IF Drained(l) = {} THEN 0 ELSE (CHOOSE r \in Drained(l) : TRUE).requests)
  <2>1. Drained(l) = SummariesOf(flushing, l)
    BY DEF Drained, SummariesOf
  <2>2. Cardinality(Drained(l)) <= 1
    <3>1. CASE Drained(l) = {}
      BY <3>1, FS_EmptySet
    <3>2. CASE Drained(l) # {}
      <4>1. PICK r : Drained(l) = {r}
        BY <1>1, <3>2 DEF DaemonInv, FlushOK, Drained
      <4>2. Cardinality({r}) = 1
        BY FS_Singleton
      <4>. QED
        BY <4>1, <4>2
    <3>. QED
      BY <3>1, <3>2
  <2>3. recorded[l] = Requests(window[l]) + emitted[l] + Cardinality(Unreported(l))
                          + InFlush(flushing, l)
    BY <1>1 DEF DaemonInv, BooksOK
  <2>4. InFlush(flushing, l)
            = IF Drained(l) = {} THEN 0 ELSE (CHOOSE r \in Drained(l) : TRUE).requests
    BY <2>1 DEF InFlush
  <2>. QED
    BY <2>2, <2>3, <2>4
<1>2. DaemonInv => NoOutcomeLost
  BY <1>1 DEF NoOutcomeLost
<1>. QED
  BY <1>2, DaemonInvariance, PTL

-----------------------------------------------------------------------------
(***************************************************************************)
(* Sums over a finite set.  SumFunctionOnSet takes the elements of a set   *)
(* in an order that CHOOSE picks; that the order does not matter, and that *)
(* a sum may be taken in parts, follows by induction over the subsets.     *)
(***************************************************************************)

\* G sums F over the subsets of X, in the order of the fold.
Chosen(s) == CHOOSE x \in s : TRUE

Sums(G, F, X) ==
    /\ G \in [SUBSET X -> Nat]
    /\ \A s \in SUBSET X :
          G[s] = IF s = {} THEN 0 ELSE F[Chosen(s)] + G[s \ {Chosen(s)}]

LEMMA SumsExist ==
    ASSUME NEW X, IsFiniteSet(X), NEW F \in [X -> Nat]
    PROVE  \E G : Sums(G, F, X)
<1>. DEFINE S == [SUBSET X -> Nat]
            next(g) == [s \in SUBSET X |-> IF s = {} THEN 0 ELSE F[Chosen(s)] + g[s \ {Chosen(s)}]]
            step == [p \in Nat \X S |-> next(p[2])]
            first == [s \in SUBSET X |-> 0]
<1>1. \A s \in SUBSET X : s # {} => Chosen(s) \in s /\ Chosen(s) \in X /\ s \ {Chosen(s)} \in SUBSET X
  BY DEF Chosen
<1>2. ASSUME NEW g \in S
      PROVE  next(g) \in S
  <2>1. \A s \in SUBSET X : (IF s = {} THEN 0 ELSE F[Chosen(s)] + g[s \ {Chosen(s)}]) \in Nat
    BY <1>1
  <2>. QED
    BY <2>1
<1>3. first \in S
  OBVIOUS
<1>. HIDE DEF S, next, first
<1>4. step \in Steps(S) /\ \A n \in Nat, g \in S : step[<<n, g>>] = next(g)
  BY <1>2 DEF Steps
<1>. HIDE DEF step
<1>5. PICK h : IsRecursive(h, S, first, step)
  BY <1>3, <1>4, Recursion
<1>6. h \in [Nat -> S] /\ h[0] = first /\ \A n \in Nat : h[n + 1] = next(h[n])
  BY <1>4, <1>5 DEF IsRecursive
<1>. DEFINE G == [s \in SUBSET X |-> h[Cardinality(s)][s]]
<1>7. \A s \in SUBSET X : IsFiniteSet(s) /\ Cardinality(s) \in Nat
  BY FS_Subset, FS_CardinalityType
<1>8. G \in [SUBSET X -> Nat]
  BY <1>6, <1>7 DEF S
<1>9. ASSUME NEW s \in SUBSET X
      PROVE  G[s] = IF s = {} THEN 0 ELSE F[Chosen(s)] + G[s \ {Chosen(s)}]
  <2>1. CASE s = {}
    BY <1>6, <2>1, FS_EmptySet DEF first
  <2>2. CASE s # {}
    <3>. DEFINE t == s \ {Chosen(s)}
                n == Cardinality(t)
    <3>1. t \in SUBSET X /\ n \in Nat /\ Cardinality(s) = n + 1
      BY <1>1, <1>7, <2>2, FS_RemoveElement
    <3>2. G[s] = next(h[n])[s] /\ G[t] = h[n][t]
      BY <1>6, <3>1
    <3>3. next(h[n])[s] = F[Chosen(s)] + h[n][t]
      BY <2>2 DEF next
    <3>. QED
      BY <2>2, <3>2, <3>3
  <2>. QED
    BY <2>1, <2>2
<1>. QED
  <2>. HIDE DEF G
  <2>. QED
    BY <1>8, <1>9 DEF Sums

\* The fold is that sum.
LEMMA SumIsFold ==
    ASSUME NEW X, IsFiniteSet(X), NEW F \in [X -> Nat], NEW G, Sums(G, F, X), NEW T \in SUBSET X
    PROVE  SumFunctionOnSet(F, T) = G[T]
<1>. DEFINE Folds(iter) == iter = [s \in SUBSET T |-> IF s = {} THEN 0
                                       ELSE F[Chosen(s)] + iter[s \ {Chosen(s)}]]
            part == [s \in SUBSET T |-> G[s]]
<1>1. Folds(part)
  <2>1. ASSUME NEW s \in SUBSET T
        PROVE  part[s] = IF s = {} THEN 0 ELSE F[Chosen(s)] + part[s \ {Chosen(s)}]
    <3>1. s \in SUBSET X /\ s \ {Chosen(s)} \in SUBSET T
      OBVIOUS
    <3>. QED
      BY <3>1 DEF Sums
  <2>. QED
    BY <2>1
<1>2. PICK iter : Folds(iter) /\ SumFunctionOnSet(F, T) = iter[T]
  <2>. HIDE DEF part
  <2>1. \E iter : iter = [s \in SUBSET T |-> IF s = {} THEN 0
                               ELSE F[CHOOSE x \in s : TRUE] + iter[s \ {CHOOSE x \in s : TRUE}]]
    BY <1>1 DEF Chosen
  <2>. QED
    BY <2>1 DEF SumFunctionOnSet, FoldFunctionOnSet, MapThenFoldSet, Chosen
<1>. DEFINE Agreed == {s \in SUBSET T : iter[s] = G[s]}
<1>3. {} \in Agreed
  BY <1>2 DEF Sums
<1>4. ASSUME NEW s \in SUBSET T, s # {}, \A x \in s : s \ {x} \in Agreed
      PROVE  s \in Agreed
  <2>1. Chosen(s) \in s /\ s \in SUBSET X
    BY <1>4 DEF Chosen
  <2>2. iter[s] = F[Chosen(s)] + iter[s \ {Chosen(s)}]
    BY <1>2, <1>4
  <2>3. G[s] = F[Chosen(s)] + G[s \ {Chosen(s)}]
    BY <1>4, <2>1 DEF Sums
  <2>. QED
    BY <1>4, <2>1, <2>2, <2>3
<1>5. IsFiniteSet(T)
  BY FS_Subset
<1>6. \A s \in SUBSET T : s \in Agreed
  <2>. HIDE DEF Agreed
  <2>. QED
    BY <1>3, <1>4, <1>5, SubsetInduction
<1>. QED
  BY <1>2, <1>6

\* A sum may be taken in any order, and in parts.
Takes(G, F, X) == \A T \in SUBSET X : \A x \in T : G[T] = F[x] + G[T \ {x}]

Adds(G, X) == \A A, B \in SUBSET X : A \cap B = {} => G[A \cup B] = G[A] + G[B]

LEMMA SumTakes ==
    ASSUME NEW X, IsFiniteSet(X), NEW F \in [X -> Nat], NEW G, Sums(G, F, X)
    PROVE  Takes(G, F, X)
<1>. DEFINE Any == {s \in SUBSET X : \A y \in s : G[s] = F[y] + G[s \ {y}]}
<1>1. {} \in Any
  OBVIOUS
<1>2. ASSUME NEW s \in SUBSET X, s # {}, \A y \in s : s \ {y} \in Any
      PROVE  s \in Any
  <2>. DEFINE c == Chosen(s)
  <2>1. c \in s /\ G[s] = F[c] + G[s \ {c}]
    BY <1>2 DEF Sums, Chosen
  <2>. HIDE DEF c
  <2>2. ASSUME NEW y \in s, y # c
        PROVE  G[s] = F[y] + G[s \ {y}]
    <3>1. G[s \ {c}] = F[y] + G[(s \ {c}) \ {y}]
      BY <1>2, <2>1, <2>2
    <3>2. G[s \ {y}] = F[c] + G[(s \ {y}) \ {c}]
      BY <1>2, <2>1, <2>2
    <3>3. (s \ {c}) \ {y} = (s \ {y}) \ {c}
      OBVIOUS
    <3>. DEFINE rest == G[(s \ {y}) \ {c}]
    <3>4. F[y] \in Nat /\ F[c] \in Nat /\ rest \in Nat
      <4>1. y \in X /\ c \in X /\ (s \ {y}) \ {c} \in SUBSET X
        BY <2>1
      <4>. QED
        BY <4>1 DEF Sums
    <3>5. G[s] = F[c] + (F[y] + rest) /\ G[s \ {y}] = F[c] + rest
      BY <2>1, <3>1, <3>2, <3>3
    <3>. HIDE DEF rest
    <3>6. F[c] + (F[y] + rest) = F[y] + (F[c] + rest)
      BY <3>4
    <3>. QED
      BY <3>5, <3>6
  <2>. QED
    BY <2>1, <2>2
<1>3. \A s \in SUBSET X : s \in Any
  <2>. HIDE DEF Any
  <2>. QED
    BY <1>1, <1>2, SubsetInduction
<1>. QED
  BY <1>3 DEF Takes

LEMMA SumAdds ==
    ASSUME NEW X, IsFiniteSet(X), NEW F \in [X -> Nat], NEW G, Sums(G, F, X)
    PROVE  Adds(G, X)
<1>. SUFFICES ASSUME NEW A \in SUBSET X, NEW B \in SUBSET X, A \cap B = {}
              PROVE  G[A \cup B] = G[A] + G[B]
  BY DEF Adds
<1>. DEFINE Added == {s \in SUBSET B : G[A \cup s] = G[A] + G[s]}
<1>0. \A T \in SUBSET X : \A x \in T : G[T] = F[x] + G[T \ {x}]
  <2>1. Takes(G, F, X)
    BY SumTakes
  <2>. QED
    BY <2>1 DEF Takes
<1>1. {} \in Added
  <2>1. A \cup {} = A /\ G[{}] = 0 /\ G[A] \in Nat
    BY DEF Sums
  <2>. QED
    BY <2>1
<1>2. ASSUME NEW s \in SUBSET B, s # {}, \A y \in s : s \ {y} \in Added
      PROVE  s \in Added
  <2>1. PICK y \in s : TRUE
    BY <1>2
  <2>2. G[s] = F[y] + G[s \ {y}] /\ s \in SUBSET X
    BY <1>0, <1>2, <2>1
  <2>3. y \in A \cup s /\ A \cup s \in SUBSET X
    OBVIOUS
  <2>4. G[A \cup s] = F[y] + G[(A \cup s) \ {y}]
    BY <1>0, <2>3
  <2>5. (A \cup s) \ {y} = A \cup (s \ {y})
    OBVIOUS
  <2>6. G[A \cup (s \ {y})] = G[A] + G[s \ {y}]
    BY <1>2
  <2>7. G[A] \in Nat /\ G[s \ {y}] \in Nat /\ F[y] \in Nat
    <3>1. y \in X /\ s \ {y} \in SUBSET X
      OBVIOUS
    <3>. QED
      BY <3>1 DEF Sums
  <2>8. G[A \cup s] = F[y] + (G[A] + G[s \ {y}])
    BY <2>4, <2>5, <2>6
  <2>9. F[y] + (G[A] + G[s \ {y}]) = G[A] + (F[y] + G[s \ {y}])
    BY <2>7
  <2>. QED
    BY <2>2, <2>8, <2>9
<1>3. IsFiniteSet(B)
  BY FS_Subset
<1>4. \A s \in SUBSET B : s \in Added
  <2>. HIDE DEF Added
  <2>. QED
    BY <1>1, <1>2, <1>3, SubsetInduction
<1>. QED
  BY <1>4

\* What the sums agree on, and one more.
LEMMA SumsAgree ==
    ASSUME NEW X, IsFiniteSet(X), NEW F \in [X -> Nat], NEW G, Sums(G, F, X),
           NEW E \in [X -> Nat], NEW H, Sums(H, E, X),
           NEW T \in SUBSET X, \A x \in T : E[x] = F[x]
    PROVE  H[T] = G[T]
<1>. DEFINE Agreed == {s \in SUBSET T : H[s] = G[s]}
<1>1. {} \in Agreed
  BY DEF Sums
<1>2. ASSUME NEW s \in SUBSET T, s # {}, \A x \in s : s \ {x} \in Agreed
      PROVE  s \in Agreed
  <2>1. PICK x \in s : TRUE
    BY <1>2
  <2>2. s \in SUBSET X /\ E[x] = F[x] /\ H[s \ {x}] = G[s \ {x}]
    BY <1>2
  <2>3. H[s] = E[x] + H[s \ {x}] /\ G[s] = F[x] + G[s \ {x}]
    BY <2>2, SumTakes DEF Takes
  <2>. QED
    BY <2>2, <2>3
<1>3. IsFiniteSet(T)
  BY FS_Subset
<1>4. \A s \in SUBSET T : s \in Agreed
  <2>. HIDE DEF Agreed
  <2>. QED
    BY <1>1, <1>2, <1>3, SubsetInduction
<1>. QED
  BY <1>4

Grown(E, F, l, X) == E[l] = F[l] + 1 /\ \A x \in X \ {l} : E[x] = F[x]

OneMore(H, G, X) == H[X] = G[X] + 1

LEMMA SumOfMore ==
    ASSUME NEW X, IsFiniteSet(X), NEW F \in [X -> Nat], NEW G, Sums(G, F, X),
           NEW E \in [X -> Nat], NEW H, Sums(H, E, X),
           NEW l \in X, Grown(E, F, l, X)
    PROVE  OneMore(H, G, X)
<1>1. H[X \ {l}] = G[X \ {l}]
  BY SumsAgree DEF Grown
<1>2. H[X] = E[l] + H[X \ {l}] /\ G[X] = F[l] + G[X \ {l}]
  <2>1. Takes(G, F, X) /\ Takes(H, E, X)
    BY SumTakes
  <2>. QED
    BY <2>1 DEF Takes
<1>3. F[l] \in Nat /\ G[X \ {l}] \in Nat
  BY DEF Sums
<1>. QED
  BY <1>1, <1>2, <1>3 DEF Grown, OneMore

LEMMA SumOfZeros ==
    ASSUME NEW X, IsFiniteSet(X), NEW F \in [X -> Nat], NEW G, Sums(G, F, X), \A x \in X : F[x] = 0
    PROVE  G[X] = 0
<1>. DEFINE Zero == {s \in SUBSET X : G[s] = 0}
<1>1. {} \in Zero
  BY DEF Sums
<1>2. ASSUME NEW s \in SUBSET X, s # {}, \A x \in s : s \ {x} \in Zero
      PROVE  s \in Zero
  <2>1. PICK x \in s : TRUE
    BY <1>2
  <2>2. F[x] = 0 /\ G[s \ {x}] = 0
    BY <1>2
  <2>3. G[s] = F[x] + G[s \ {x}]
    BY <2>2, SumTakes DEF Takes
  <2>. QED
    BY <2>2, <2>3
<1>3. \A s \in SUBSET X : s \in Zero
  <2>. HIDE DEF Zero
  <2>. QED
    BY <1>1, <1>2, SubsetInduction
<1>. QED
  BY <1>3

-----------------------------------------------------------------------------
\* The samples of a window and their percentiles.

Samples(w) == SumFunctionOnSet(w.latencies_ms, Latencies)

\* The samples of a window are its requests.
Counted(w) == w \in Window /\ Samples(w) = Requests(w)

SummedBy(G, w) ==
    /\ Sums(G, w.latencies_ms, Latencies)
    /\ Takes(G, w.latencies_ms, Latencies)
    /\ Adds(G, Latencies)
    /\ \A T \in SUBSET Latencies : SumFunctionOnSet(w.latencies_ms, T) = G[T]

LEMMA SamplesSummed ==
    ASSUME NEW w \in Window
    PROVE  \E G : SummedBy(G, w)
<1>. DEFINE F == w.latencies_ms
<1>1. F \in [Latencies -> Nat] /\ IsFiniteSet(Latencies)
  BY RollupAssumption DEF Window
<1>. HIDE DEF F
<1>2. PICK G : Sums(G, F, Latencies)
  BY <1>1, SumsExist
<1>3. \A T \in SUBSET Latencies : SumFunctionOnSet(F, T) = G[T]
  BY <1>1, <1>2, SumIsFold
<1>4. Takes(G, F, Latencies)
  BY <1>1, <1>2, SumTakes
<1>5. Adds(G, Latencies)
  BY <1>1, <1>2, SumAdds
<1>. QED
  BY <1>2, <1>3, <1>4, <1>5 DEF SummedBy, F

LEMMA NoneCounted == Counted(EmptyWindow)
<1>. DEFINE F == [l \in Latencies |-> 0]
<1>1. /\ EmptyWindow \in Window /\ Requests(EmptyWindow) = 0 /\ EmptyWindow.latencies_ms = F
      /\ F \in [Latencies -> Nat] /\ \A l \in Latencies : F[l] = 0
  BY DEF EmptyWindow, Window, Requests
<1>. HIDE DEF F
<1>2. PICK G : SummedBy(G, EmptyWindow)
  BY <1>1, SamplesSummed
<1>3. Sums(G, F, Latencies) /\ Samples(EmptyWindow) = G[Latencies]
  BY <1>1, <1>2 DEF SummedBy, Samples
<1>4. G[Latencies] = 0
  BY <1>1, <1>3, RollupAssumption, SumOfZeros
<1>. QED
  BY <1>1, <1>3, <1>4 DEF Counted

LEMMA OneMoreCounted ==
    ASSUME NEW w, Counted(w), NEW l \in Latencies, NEW v \in Window,
           v.latencies_ms = [w.latencies_ms EXCEPT ![l] = @ + 1], Requests(v) = Requests(w) + 1
    PROVE  Counted(v)
<1>. DEFINE F == w.latencies_ms
            E == v.latencies_ms
<1>1. /\ F \in [Latencies -> Nat] /\ w \in Window /\ Samples(w) = Requests(w)
      /\ E \in [Latencies -> Nat] /\ Grown(E, F, l, Latencies)
  BY DEF Counted, Window, Grown
<1>2. PICK G : SummedBy(G, w)
  BY <1>1, SamplesSummed
<1>3. PICK H : SummedBy(H, v)
  BY SamplesSummed
<1>4. Sums(G, F, Latencies) /\ Sums(H, E, Latencies)
  BY <1>2, <1>3 DEF SummedBy
<1>5. Samples(w) = G[Latencies] /\ Samples(v) = H[Latencies]
  BY <1>2, <1>3 DEF SummedBy, Samples
<1>. HIDE DEF E, F
<1>6. OneMore(H, G, Latencies)
  BY <1>1, <1>4, RollupAssumption, SumOfMore
<1>. QED
  BY <1>1, <1>5, <1>6 DEF Counted, OneMore

-----------------------------------------------------------------------------
\* The ranks of p50 and p95 among n samples.
LEMMA Ranks ==
    ASSUME NEW n \in Nat, n > 0
    PROVE  /\ Rank(50, n) \in Nat /\ Rank(95, n) \in Nat
           /\ Rank(50, n) <= Rank(95, n) /\ Rank(95, n) < n
           /\ 2 * Rank(50, n) <= n /\ n <= 2 * Rank(50, n) + 1
           /\ 20 * (n - (Rank(95, n) + 1)) <= n + 9
<1>. DEFINE a == (50 * (n - 1) + 50) \div 100
            b == (95 * (n - 1) + 50) \div 100
<1>1. a \in Int /\ 100 * a <= 50 * (n - 1) + 50 /\ 50 * (n - 1) + 50 < 100 * a + 100
  OBVIOUS
<1>2. b \in Int /\ 100 * b <= 95 * (n - 1) + 50 /\ 95 * (n - 1) + 50 < 100 * b + 100
  OBVIOUS
<1>3. Rank(50, n) = a /\ Rank(95, n) = b
  BY DEF Rank
<1>. HIDE DEF a, b
<1>4. a >= 0 /\ b >= 0 /\ b < n
  BY <1>1, <1>2
<1>5. a <= b /\ 2 * a <= n /\ n <= 2 * a + 1
  BY <1>1, <1>2
<1>6. 20 * (n - (b + 1)) <= n + 9
  BY <1>2
<1>. QED
  BY <1>1, <1>2, <1>3, <1>4, <1>5, <1>6

\* l stands at rank r of the sorted samples, counted from 0.
StandsAt(w, r, l) ==
    /\ w.latencies_ms[l] > 0
    /\ AtMost(w, l) > r
    /\ AtMost(w, l) - w.latencies_ms[l] <= r

\* The latencies up to m.
Low(m) == {k \in Latencies : k <= m}

LEMMA LowerLatencies ==
    ASSUME NEW m \in Nat
    PROVE  /\ Low(m) \in SUBSET Latencies /\ Low(m) \ {m} \in SUBSET Latencies
           /\ m = 0 => Low(m) \ {m} = {}
           /\ m # 0 => Low(m) \ {m} = Low(m - 1)
           /\ \A k \in Nat : k < m => Low(k) \subseteq Low(m) \ {m}
<1>1. \A k \in Latencies : k \in Nat
  BY RollupAssumption
<1>2. m = 0 => \A k \in Low(m) : k = m
  BY <1>1 DEF Low
<1>3. \A k \in Latencies : (k <= m /\ k # m) <=> k <= m - 1
  BY <1>1
<1>4. m # 0 => Low(m) \ {m} = Low(m - 1)
  BY <1>3 DEF Low
<1>5. ASSUME NEW k \in Nat, k < m
      PROVE  \A j \in Low(k) : j \in Low(m) \ {m}
  BY <1>1, <1>5 DEF Low
<1>. QED
  BY <1>2, <1>4, <1>5 DEF Low

\* At every rank stands a sample.
LEMMA SomeSampleStands ==
    ASSUME NEW w, Counted(w), NEW r \in Nat, r < Requests(w)
    PROVE  \E l \in Latencies : StandsAt(w, r, l)
<1>. DEFINE F == w.latencies_ms
<1>1. F \in [Latencies -> Nat] /\ w \in Window /\ IsFiniteSet(Latencies) /\ Latencies \subseteq Nat
  BY RollupAssumption DEF Counted, Window
<1>2. PICK G : SummedBy(G, w)
  BY <1>1, SamplesSummed
<1>3. Sums(G, F, Latencies) /\ G[Latencies] = Requests(w) /\ \A m : AtMost(w, m) = G[Low(m)]
  BY <1>2 DEF SummedBy, Counted, Samples, AtMost, Low
<1>4. G \in [SUBSET Latencies -> Nat] /\ G[{}] = 0
  BY <1>3 DEF Sums
<1>. HIDE DEF F
<1>. DEFINE Past == {m \in Nat : G[Low(m)] > r}
<1>5. PICK b \in Nat : \A k \in Latencies : k <= b
  BY <1>1, Bounded
<1>6. Low(b) = Latencies
  BY <1>5 DEF Low
<1>7. b \in Past
  BY <1>3, <1>6
<1>8. PICK m \in Past : \A k \in Past : m <= k
  BY <1>7, LeastElement
<1>9. m \in Nat /\ G[Low(m)] > r
  BY <1>8
<1>10. G[Low(m) \ {m}] <= r
  <2>1. CASE m = 0
    <3>1. G[Low(m) \ {m}] = 0
      BY <1>4, <1>9, <2>1, LowerLatencies
    <3>. QED
      BY <3>1
  <2>2. CASE m # 0
    <3>1. m - 1 \in Nat /\ ~(m <= m - 1)
      BY <1>9, <2>2
    <3>2. Low(m) \ {m} = Low(m - 1) /\ Low(m - 1) \in SUBSET Latencies
      BY <1>9, <2>2, <3>1, LowerLatencies
    <3>3. ~(G[Low(m - 1)] > r)
      BY <1>8, <3>1
    <3>4. G[Low(m - 1)] \in Nat
      BY <1>4, <3>2
    <3>. QED
      BY <3>2, <3>3, <3>4
  <2>. QED
    BY <2>1, <2>2
<1>. HIDE DEF Past
<1>11. Low(m) \in SUBSET Latencies /\ Low(m) \ {m} \in SUBSET Latencies
  BY <1>9, LowerLatencies
<1>12. G[Low(m)] \in Nat /\ G[Low(m) \ {m}] \in Nat
  BY <1>4, <1>11
<1>13. m \in Low(m)
  <2>1. CASE m \notin Low(m)
    <3>1. Low(m) \ {m} = Low(m)
      BY <2>1
    <3>. QED
      BY <1>9, <1>10, <1>12, <3>1
  <2>. QED
    BY <2>1
<1>14. G[Low(m)] = F[m] + G[Low(m) \ {m}]
  BY <1>2, <1>11, <1>13 DEF SummedBy, Takes, F
<1>15. m \in Latencies /\ F[m] \in Nat
  BY <1>1, <1>13 DEF Low
<1>16. F[m] > 0 /\ G[Low(m)] - F[m] <= r
  BY <1>9, <1>10, <1>12, <1>14, <1>15
<1>. QED
  BY <1>3, <1>9, <1>15, <1>16 DEF StandsAt, F

LEMMA PercentileStands ==
    ASSUME NEW w, Counted(w), NEW pct, Rank(pct, Requests(w)) \in Nat, Rank(pct, Requests(w)) < Requests(w)
    PROVE  Percentile(w, pct) \in Latencies /\ StandsAt(w, Rank(pct, Requests(w)), Percentile(w, pct))
<1>. DEFINE r == Rank(pct, Requests(w))
<1>1. \E l \in Latencies : /\ w.latencies_ms[l] > 0 /\ AtMost(w, l) > r
                           /\ AtMost(w, l) - w.latencies_ms[l] <= r
  BY SomeSampleStands DEF StandsAt
<1>. QED
  BY <1>1 DEF Percentile, StandsAt

\* Those above a sample, and those below it.
LEMMA SamplesSplit ==
    ASSUME NEW w, Counted(w), NEW l \in Latencies
    PROVE  /\ AtMost(w, l) \in Nat /\ w.latencies_ms[l] \in Nat
           /\ AtLeast(w, l) = Requests(w) - (AtMost(w, l) - w.latencies_ms[l])
           /\ \A k \in Latencies : k < l => AtMost(w, k) <= AtMost(w, l) - w.latencies_ms[l]
<1>. DEFINE F == w.latencies_ms
            High == {k \in Latencies : k >= l}
            Rest == Low(l) \ {l}
<1>1. F \in [Latencies -> Nat] /\ w \in Window /\ IsFiniteSet(Latencies) /\ Latencies \subseteq Nat
  BY RollupAssumption DEF Counted, Window
<1>2. PICK G : SummedBy(G, w)
  BY <1>1, SamplesSummed
<1>3. /\ Sums(G, F, Latencies) /\ G[Latencies] = Requests(w)
      /\ \A m : AtMost(w, m) = G[Low(m)]
      /\ AtLeast(w, l) = G[High]
  BY <1>2 DEF SummedBy, Counted, Samples, AtMost, AtLeast, Low
<1>4. G \in [SUBSET Latencies -> Nat]
  BY <1>3 DEF Sums
<1>. HIDE DEF F
<1>5. \A m \in Nat : Low(m) \in SUBSET Latencies
  BY LowerLatencies
<1>6. l \in Nat /\ l \in Low(l)
  BY <1>1 DEF Low
<1>7. /\ High \in SUBSET Latencies /\ Rest \in SUBSET Latencies
      /\ High \cap Rest = {} /\ High \cup Rest = Latencies
  <2>1. \A k \in Latencies : k \in Nat /\ (k >= l <=> ~(k <= l /\ k # l))
    BY <1>1, <1>6
  <2>2. \A k \in Latencies : k \in High <=> k \notin Rest
    BY <2>1 DEF Low
  <2>3. High \subseteq Latencies /\ Rest \subseteq Latencies
    BY DEF Low
  <2>. QED
    BY <2>2, <2>3
<1>12. G[Low(l)] = F[l] + G[Rest]
  BY <1>2, <1>5, <1>6 DEF SummedBy, Takes, F
<1>. HIDE DEF High, Rest
<1>8. G[Latencies] = G[High] + G[Rest]
  BY <1>2, <1>7 DEF SummedBy, Adds
<1>9. ASSUME NEW k \in Latencies, k < l
      PROVE  G[Low(k)] <= G[Rest]
  <2>. DEFINE between == Rest \ Low(k)
  <2>1. /\ between \in SUBSET Latencies /\ Low(k) \cap between = {} /\ Low(k) \cup between = Rest
    <3>1. k \in Nat
      BY <1>1
    <3>2. Low(k) \subseteq Rest
      BY <1>6, <1>9, <3>1, LowerLatencies DEF Rest
    <3>. QED
      BY <1>7, <3>2
  <2>. HIDE DEF between
  <2>2. G[Rest] = G[Low(k)] + G[between]
    <3>1. Low(k) \in SUBSET Latencies
      BY <1>7, <2>1
    <3>. QED
      BY <1>2, <2>1, <3>1 DEF SummedBy, Adds
  <2>3. G[Low(k)] \in Nat /\ G[between] \in Nat
    BY <1>1, <1>4, <1>5, <2>1
  <2>. QED
    BY <2>2, <2>3
<1>10. /\ G[Low(l)] \in Nat /\ G[High] \in Nat /\ G[Rest] \in Nat /\ F[l] \in Nat
       /\ G[Low(l)] - F[l] = G[Rest]
  BY <1>1, <1>4, <1>5, <1>6, <1>7, <1>12
<1>11. G[High] = G[Latencies] - G[Rest]
  BY <1>8, <1>10
<1>. QED
  BY <1>3, <1>9, <1>10, <1>11 DEF F

LEMMA CountedSound ==
    ASSUME NEW w, Counted(w), Requests(w) > 0
    PROVE  SummarySound(w) /\ AtLeast(w, 0) = Requests(w)
<1>. DEFINE n == Requests(w)
            p50 == Percentile(w, 50)
            p95 == Percentile(w, 95)
            F == w.latencies_ms
<1>1. n \in Nat
  BY DEF Counted, Window, Requests
<1>2. /\ Rank(50, n) \in Nat /\ Rank(95, n) \in Nat
      /\ Rank(50, n) <= Rank(95, n) /\ Rank(95, n) < n
      /\ 2 * Rank(50, n) <= n /\ n <= 2 * Rank(50, n) + 1
      /\ 20 * (n - (Rank(95, n) + 1)) <= n + 9
  BY <1>1, Ranks
<1>3. p50 \in Latencies /\ StandsAt(w, Rank(50, n), p50)
  <2>1. Rank(50, n) < n
    BY <1>1, <1>2
  <2>. QED
    BY <1>2, <2>1, PercentileStands
<1>4. p95 \in Latencies /\ StandsAt(w, Rank(95, n), p95)
  BY <1>2, PercentileStands
<1>5. /\ AtMost(w, p50) > Rank(50, n) /\ AtMost(w, p50) - F[p50] <= Rank(50, n)
      /\ AtMost(w, p95) > Rank(95, n)
  BY <1>3, <1>4 DEF StandsAt
<1>. HIDE DEF n, p50, p95, F
<1>6. /\ AtMost(w, p50) \in Nat /\ AtMost(w, p95) \in Nat /\ F[p50] \in Nat
      /\ AtLeast(w, p50) = n - (AtMost(w, p50) - F[p50])
      /\ \A k \in Latencies : k < p50 => AtMost(w, k) <= AtMost(w, p50) - F[p50]
  BY <1>3, <1>4, SamplesSplit DEF n, F
<1>. DEFINE low == AtMost(w, p50) - F[p50]
<1>7. low \in Int /\ low <= Rank(50, n) /\ AtLeast(w, p50) = n - low
  BY <1>5, <1>6
<1>8. 2 * AtMost(w, p50) >= n
  BY <1>1, <1>2, <1>5, <1>6
<1>9. 2 * (n - low) >= n
  <2>. HIDE DEF low
  <2>. QED
    BY <1>1, <1>2, <1>7
<1>10. p50 <= p95
  <2>1. ASSUME p95 < p50
        PROVE  FALSE
    <3>1. AtMost(w, p95) <= low
      BY <1>4, <1>6, <2>1
    <3>. HIDE DEF low
    <3>. QED
      BY <1>2, <1>5, <1>6, <1>7, <3>1
  <2>2. p50 \in Nat /\ p95 \in Nat
    BY <1>3, <1>4, RollupAssumption
  <2>. QED
    BY <2>1, <2>2
<1>11. 20 * (n - AtMost(w, p95)) <= n + 9
  BY <1>1, <1>2, <1>5, <1>6
<1>12. SummarySound(w)
  BY <1>7, <1>8, <1>9, <1>10, <1>11 DEF SummarySound, n, p50, p95
<1>13. {k \in Latencies : k >= 0} = Latencies
  <2>1. \A k \in Latencies : k >= 0
    BY RollupAssumption
  <2>. QED
    BY <2>1
<1>. QED
  BY <1>12, <1>13 DEF AtLeast, Counted, Samples

-----------------------------------------------------------------------------
\* The windows: with every outcome goes one sample.
WindowsCounted == \A l \in Labels : Counted(window[l])

LEMMA RecordedCounted ==
    ASSUME NEW w, Counted(w), NEW l \in Latencies
    PROVE  Counted(OnSuccess(w, l)) /\ Counted(OnFailure(w, l))
<1>1. w \in Window
  BY DEF Counted
<1>2. /\ OnSuccess(w, l) \in Window /\ OnFailure(w, l) \in Window
      /\ Requests(OnSuccess(w, l)) = Requests(w) + 1
      /\ Requests(OnFailure(w, l)) = Requests(w) + 1
  BY <1>1, WindowCounts
<1>3. /\ OnSuccess(w, l).latencies_ms = [w.latencies_ms EXCEPT ![l] = @ + 1]
      /\ OnFailure(w, l).latencies_ms = [w.latencies_ms EXCEPT ![l] = @ + 1]
  BY <1>1 DEF Window, OnSuccess, OnFailure
<1>4. Counted(OnSuccess(w, l))
  BY <1>2, <1>3, OneMoreCounted
<1>5. Counted(OnFailure(w, l))
  BY <1>2, <1>3, OneMoreCounted
<1>. QED
  BY <1>4, <1>5

LEMMA ReportCounted ==
    ASSUME DaemonInv, WindowsCounted, NEW c \in Callers, NEW w, Reports(c, w), Counted(w)
    PROVE  WindowsCounted'
<1>1. window' = [window EXCEPT ![Label[target[c]]] = w] /\ window \in [Labels -> Window]
  BY DEF Reports, DaemonInv, Types, DaemonTypeOK
<1>2. \A l \in Labels : window'[l] = window[l] \/ window'[l] = w
  BY <1>1
<1>. QED
  BY <1>2 DEF WindowsCounted, Labels

LEMMA NextWindowsCounted ==
    ASSUME DaemonInv, WindowsCounted, [DaemonNext]_vars
    PROVE  WindowsCounted'
<1>1. CASE window' = window
  BY <1>1 DEF WindowsCounted, Labels
<1>2. ASSUME NEW c \in Callers, verdict[c] # "none"
      PROVE  latency[c] \in Latencies /\ Counted(window[Label[target[c]]])
  BY <1>2, ClientTypes DEF InHand, WindowsCounted
<1>3. ASSUME NEW c \in Callers, Relay(c)
      PROVE  WindowsCounted'
  <2>1. verdict[c] # "none" /\ Reports(c, OnSuccess(window[Label[target[c]]], latency[c]))
    BY <1>3 DEF Relay
  <2>2. Counted(OnSuccess(window[Label[target[c]]], latency[c]))
    BY <1>2, <2>1, RecordedCounted
  <2>. QED
    BY <2>1, <2>2, ReportCounted
<1>4. ASSUME NEW c \in Callers, FailOver(c)
      PROVE  WindowsCounted'
  <2>1. verdict[c] # "none" /\ Reports(c, OnFailure(window[Label[target[c]]], latency[c]))
    BY <1>4 DEF FailOver
  <2>2. Counted(OnFailure(window[Label[target[c]]], latency[c]))
    BY <1>2, <2>1, RecordedCounted
  <2>. QED
    BY <2>1, <2>2, ReportCounted
<1>5. CASE Drain
  <2>1. \A l \in Labels : window'[l] = EmptyWindow
    BY <1>5 DEF Drain
  <2>. QED
    BY <2>1, NoneCounted DEF WindowsCounted, Labels
<1>6. CASE Emit
  BY <1>1, <1>6 DEF Emit
<1>7. ASSUME NEW c \in Callers,
             Post(c) \/ Arrive(c) \/ HangUp(c) \/ Invalid(c) \/ Forward(c) \/ Respond(c)
                 \/ PassOver(c) \/ Dispatch(c) \/ GiveUp(c)
      PROVE  window' = window
  BY <1>7 DEF Post, Arrive, HangUp, Invalid, Forward, Respond, PassOver, Dispatch, GiveUp
<1>8. CASE Stopped \/ UNCHANGED vars
  BY <1>1, <1>8 DEF Stopped, vars
<1>. QED
  BY <1>1, <1>3, <1>4, <1>5, <1>6, <1>7, <1>8 DEF DaemonNext, Proceed

(***************************************************************************)
(* The summary of any window that arises is sound (rollup.rs:59-67), for   *)
(* windows of any size and any latencies: half the samples lie on either   *)
(* side of p50, p95 is not below it, and no more lie above p95 than may.   *)
(***************************************************************************)
THEOREM SummariesAreSound == DaemonSpec => []SummariesSound
<1>1. DaemonInit => WindowsCounted
  BY NoneCounted DEF DaemonInit, WindowsCounted
<1>2. DaemonInv /\ WindowsCounted /\ [DaemonNext]_vars => WindowsCounted'
  BY NextWindowsCounted
<1>3. WindowsCounted => SummariesSound
  BY CountedSound DEF WindowsCounted, SummariesSound, Busy
<1>. QED
  BY <1>1, <1>2, <1>3, DaemonInvariance, PTL DEF DaemonSpec
=============================================================================
