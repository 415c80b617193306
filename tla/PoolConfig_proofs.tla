-------------------------- MODULE PoolConfig_proofs --------------------------
(***************************************************************************)
(* What a configuration becomes, proved for every configuration, of any    *)
(* number of endpoints with strings of any length, and every environment.  *)
(***************************************************************************)
EXTENDS PoolConfig, Induction, FiniteSetTheorems, SequenceTheorems

(***************************************************************************)
(* Concatenations, piece by piece: g[i] is that of the first i sequences.  *)
(***************************************************************************)
Chain(g, q) == g[0] = <<>> /\ \A i \in 1 .. Len(q) : g[i] = g[i - 1] \o q[i]

Associative(X) == \A s, t, u \in Seq(X) : (s \o t) \o u = s \o (t \o u)

LEMMA ConcatIsAssociative ==
    ASSUME NEW X
    PROVE  Associative(X)
  BY DEF Associative

LEMMA OneMore ==
    ASSUME NEW X, NEW s \in Seq(X), NEW x \in X
    PROVE  /\ Len(s \o <<x>>) = Len(s) + 1
           /\ \A k \in 1 .. Len(s) : (s \o <<x>>)[k] = s[k]
           /\ (s \o <<x>>)[Len(s) + 1] = x
  OBVIOUS

LEMMA FlattenChain ==
    ASSUME NEW X, NEW q \in Seq(Seq(X))
    PROVE  \E g \in [Nat -> Seq(X)] : Chain(g, q) /\ FlattenSeq(q) = g[Len(q)]
<1>. DEFINE n == Len(q)
            step == [p \in Nat \X Seq(X) |-> IF p[1] < n THEN p[2] \o q[p[1] + 1] ELSE p[2]]
<1>1. n \in Nat /\ \A i \in 1 .. n : q[i] \in Seq(X)
  OBVIOUS
<1>2. /\ <<>> \in Seq(X) /\ step \in Steps(Seq(X))
      /\ \A i \in Nat, s \in Seq(X) : i < n => step[<<i, s>>] = s \o q[i + 1]
  <2>1. ASSUME NEW p \in Nat \X Seq(X)
        PROVE  (IF p[1] < n THEN p[2] \o q[p[1] + 1] ELSE p[2]) \in Seq(X)
    <3>1. CASE p[1] < n
      <4>1. p[1] + 1 \in 1 .. n
        BY <1>1, <3>1
      <4>2. q[p[1] + 1] \in Seq(X) /\ p[2] \in Seq(X)
        BY <1>1, <4>1
      <4>3. p[2] \o q[p[1] + 1] \in Seq(X)
        BY <4>2
      <4>. QED
        BY <3>1, <4>3
    <3>. QED
      BY <3>1
  <2>2. step \in Steps(Seq(X))
    BY <2>1 DEF Steps
  <2>3. ASSUME NEW i \in Nat, NEW s \in Seq(X), i < n
        PROVE  step[<<i, s>>] = s \o q[i + 1]
    <3>1. <<i, s>> \in Nat \X Seq(X) /\ <<i, s>>[1] = i /\ <<i, s>>[2] = s
      OBVIOUS
    <3>2. step[<<i, s>>] = IF <<i, s>>[1] < n THEN <<i, s>>[2] \o q[<<i, s>>[1] + 1]
                                               ELSE <<i, s>>[2]
      BY <3>1
    <3>. QED
      BY <2>3, <3>1, <3>2
  <2>4. <<>> \in Seq(X)
    OBVIOUS
  <2>. QED
    BY <2>2, <2>3, <2>4
<1>. HIDE DEF step
<1>3. PICK f : IsRecursive(f, Seq(X), <<>>, step)
  BY <1>2, Recursion
<1>4. f \in [Nat -> Seq(X)] /\ f[0] = <<>>
  BY <1>3 DEF IsRecursive
<1>5. ASSUME NEW i \in 1 .. n
      PROVE  f[i] = f[i - 1] \o q[i]
  <2>1. i - 1 \in Nat /\ i - 1 < n /\ (i - 1) + 1 = i
    BY <1>1
  <2>2. f[(i - 1) + 1] = step[<<i - 1, f[i - 1]>>]
    BY <1>3, <2>1 DEF IsRecursive
  <2>. QED
    BY <1>2, <1>4, <2>1, <2>2
<1>6. FlattenSeq(q) = f[n]
  <2>1. CASE n = 0
    <3>1. q = <<>>
      BY <2>1
    <3>. QED
      BY <1>4, <2>1, <3>1 DEF FlattenSeq
  <2>2. CASE n # 0
    <3>. DEFINE Flattens(g) == g = [i \in 1 .. n |-> IF i = 1 THEN q[i] ELSE g[i - 1] \o q[i]]
                h == [i \in 1 .. n |-> f[i]]
    <3>1. ASSUME NEW i \in 1 .. n
          PROVE  h[i] = IF i = 1 THEN q[i] ELSE h[i - 1] \o q[i]
      <4>1. CASE i = 1
        <5>1. h[i] = f[i]
          OBVIOUS
        <5>2. f[i] = f[i - 1] \o q[i]
          BY <1>5
        <5>3. i - 1 = 0
          BY <4>1
        <5>4. q[i] \in Seq(X)
          BY <1>1
        <5>5. <<>> \o q[i] = q[i]
          BY <5>4, ConcatEmptySeq
        <5>. QED
          BY <1>4, <4>1, <5>1, <5>2, <5>3, <5>5
      <4>2. CASE i # 1
        <5>1. i - 1 \in 1 .. n
          BY <1>1, <4>2
        <5>. QED
          BY <1>5, <4>2, <5>1
      <4>. QED
        BY <4>1, <4>2
    <3>2. Flattens(h)
      BY <3>1
    <3>3. PICK g : Flattens(g) /\ FlattenSeq(q) = g[n]
      <4>. HIDE DEF h
      <4>1. \E g : g = [i \in 1 .. Len(q) |-> IF i = 1 THEN q[i] ELSE g[i - 1] \o q[i]]
        BY <3>2
      <4>. QED
        BY <1>1, <2>2, <4>1 DEF FlattenSeq
    <3>. DEFINE Agreed == {i \in Nat : i + 1 \in 1 .. n => g[i + 1] = f[i + 1]}
    <3>4. 0 \in Agreed
      <4>1. 1 \in 1 .. n /\ 0 + 1 = 1
        BY <1>1, <2>2
      <4>2. g[1] = q[1]
        BY <3>3, <4>1
      <4>3. h[1] = q[1]
        BY <3>1, <4>1
      <4>4. f[1] = q[1]
        BY <4>1, <4>3
      <4>. QED
        BY <4>1, <4>2, <4>4
    <3>5. ASSUME NEW i \in Nat, i \in Agreed
          PROVE  i + 1 \in Agreed
      <4>1. CASE (i + 1) + 1 \in 1 .. n
        <5>1. i + 1 \in 1 .. n /\ (i + 1) + 1 # 1 /\ ((i + 1) + 1) - 1 = i + 1
          BY <1>1, <4>1
        <5>2. g[i + 1] = f[i + 1]
          BY <3>5, <5>1
        <5>3. g[(i + 1) + 1] = g[i + 1] \o q[(i + 1) + 1]
          BY <3>3, <4>1, <5>1
        <5>4. f[(i + 1) + 1] = f[i + 1] \o q[(i + 1) + 1]
          BY <1>5, <4>1, <5>1
        <5>5. g[(i + 1) + 1] = f[(i + 1) + 1]
          BY <5>2, <5>3, <5>4
        <5>6. i + 1 \in Nat
          OBVIOUS
        <5>. QED
          BY <5>5, <5>6
      <4>. QED
        BY <4>1
    <3>6. Nat \subseteq Agreed
      <4>. HIDE DEF Agreed
      <4>. QED
        BY <3>4, <3>5, InductiveSet
    <3>7. n - 1 \in Nat /\ (n - 1) + 1 = n /\ n \in 1 .. n
      BY <1>1, <2>2
    <3>. QED
      BY <3>3, <3>6, <3>7
  <2>. QED
    BY <2>1, <2>2
<1>. QED
  BY <1>4, <1>5, <1>6 DEF Chain

-----------------------------------------------------------------------------
(***************************************************************************)
(* Strings and their expansion.                                            *)
(***************************************************************************)
EnvOK(e) == \A v \in DOMAIN e : e[v] \in Str

Pieces(s, e) == [i \in DOMAIN s |-> PieceIn(s[i], e)]

TextPiece == {p \in Piece : p.kind = "text"}

AllText(s) == \A i \in DOMAIN s : s[i].kind = "text"

PlainEnv(e) == \A v \in DOMAIN e : AllText(e[v])

\* f has every variable that e has, with the same value.
Extends(f, e) == \A v \in DOMAIN e : v \in DOMAIN f /\ f[v] = e[v]

LEMMA SeqOfPieces ==
    ASSUME NEW X, NEW Y, NEW s \in Seq(Y), NEW e,
           \A i \in DOMAIN s : PieceIn(s[i], e) \in Seq(X)
    PROVE  Pieces(s, e) \in Seq(Seq(X)) /\ Len(Pieces(s, e)) = Len(s)
<1>1. Len(s) \in Nat /\ DOMAIN s = 1 .. Len(s)
  OBVIOUS
<1>2. Pieces(s, e) = [i \in 1 .. Len(s) |-> PieceIn(s[i], e)]
  BY <1>1 DEF Pieces
<1>3. \A i \in 1 .. Len(s) : PieceIn(s[i], e) \in Seq(X)
  BY <1>1
<1>. QED
  BY <1>1, <1>2, <1>3

LEMMA PieceType ==
    ASSUME NEW s \in Str, NEW e, EnvOK(e), NEW i \in DOMAIN s
    PROVE  PieceIn(s[i], e) \in Str /\ s[i] \in Piece
<1>1. s[i] \in Piece
  BY DEF Str
<1>2. <<s[i]>> \in Str /\ <<>> \in Str
  BY <1>1 DEF Str
<1>. QED
  BY <1>1, <1>2 DEF PieceIn, EnvOK

\* An expansion is a string.
LEMMA ExpandType ==
    ASSUME NEW s \in Str, NEW e, EnvOK(e)
    PROVE  Expand(s, e) \in Str
<1>1. Pieces(s, e) \in Seq(Seq(Piece))
  BY PieceType, SeqOfPieces DEF Str
<1>2. PICK g \in [Nat -> Seq(Piece)] : FlattenSeq(Pieces(s, e)) = g[Len(Pieces(s, e))]
  BY <1>1, FlattenChain
<1>3. Len(Pieces(s, e)) \in Nat
  BY <1>1
<1>. QED
  BY <1>2, <1>3 DEF Expand, Pieces, Str

\* Variables set later do not change what can be expanded already.
LEMMA ExpandStable ==
    ASSUME NEW s, NEW e, NEW f, Extends(f, e), Expandable(s, e)
    PROVE  Expandable(s, f) /\ Expand(s, f) = Expand(s, e)
<1>1. ASSUME NEW i \in DOMAIN s
      PROVE  PieceIn(s[i], f) = PieceIn(s[i], e)
            /\ (s[i].kind = "ref" => s[i].of \in DOMAIN f)
  BY DEF Extends, Expandable, Missing, PieceIn
<1>2. [i \in DOMAIN s |-> PieceIn(s[i], f)] = [i \in DOMAIN s |-> PieceIn(s[i], e)]
  BY <1>1
<1>3. Expand(s, f) = Expand(s, e)
  BY <1>2 DEF Expand
<1>4. Missing(s, f) = {}
  BY <1>1 DEF Missing
<1>. QED
  BY <1>3, <1>4 DEF Expandable

\* What is expanded from values without references has none.
LEMMA ExpandIsText ==
    ASSUME NEW s \in Str, NEW e, EnvOK(e), PlainEnv(e), Expandable(s, e)
    PROVE  AllText(Expand(s, e))
<1>1. ASSUME NEW i \in DOMAIN s
      PROVE  PieceIn(s[i], e) \in Seq(TextPiece)
  <2>1. s[i] \in Piece /\ s[i].kind # "open"
    BY PieceType DEF Expandable, Closed
  <2>2. CASE s[i].kind = "ref"
    <3>1. s[i].of \in DOMAIN e
      BY <2>2 DEF Expandable, Missing
    <3>2. e[s[i].of] \in Seq(Piece) /\ AllText(e[s[i].of])
      BY <3>1 DEF EnvOK, PlainEnv, Str
    <3>3. \A k \in 1 .. Len(e[s[i].of]) : e[s[i].of][k] \in TextPiece
      BY <3>2 DEF AllText, TextPiece
    <3>4. e[s[i].of] \in Seq(TextPiece)
      BY <3>2, <3>3
    <3>. QED
      BY <2>2, <3>1, <3>4 DEF PieceIn
  <2>3. CASE s[i].kind # "ref"
    <3>1. s[i] \in TextPiece
      BY <2>1, <2>3 DEF TextPiece, Piece
    <3>2. <<s[i]>> \in Seq(TextPiece)
      BY <3>1
    <3>. QED
      BY <2>3, <3>2 DEF PieceIn
  <2>. QED
    BY <2>2, <2>3
<1>2. Pieces(s, e) \in Seq(Seq(TextPiece))
  BY <1>1, SeqOfPieces DEF Str
<1>3. PICK g \in [Nat -> Seq(TextPiece)] : FlattenSeq(Pieces(s, e)) = g[Len(Pieces(s, e))]
  BY <1>2, FlattenChain
<1>4. Len(Pieces(s, e)) \in Nat
  BY <1>2
<1>5. Expand(s, e) \in Seq(TextPiece)
  BY <1>3, <1>4 DEF Expand, Pieces
<1>6. \A i \in DOMAIN Expand(s, e) : Expand(s, e)[i] \in TextPiece
  BY <1>5
<1>. QED
  BY <1>6 DEF AllText, TextPiece

\* Text expands to itself.
LEMMA ExpandText ==
    ASSUME NEW s \in Str, NEW e, EnvOK(e), AllText(s)
    PROVE  Expandable(s, e) /\ Expand(s, e) = s
<1>. DEFINE q == Pieces(s, e)
<1>1. Expandable(s, e)
  BY DEF AllText, Expandable, Closed, Missing
<1>2. q \in Seq(Seq(Piece)) /\ Len(q) = Len(s)
  BY PieceType, SeqOfPieces DEF Str
<1>3. PICK g \in [Nat -> Seq(Piece)] : Chain(g, q) /\ FlattenSeq(q) = g[Len(q)]
  BY <1>2, FlattenChain
<1>4. Len(s) \in Nat /\ DOMAIN s = 1 .. Len(s) /\ \A i \in 1 .. Len(s) : s[i] \in Piece
  BY DEF Str
<1>5. \A i \in 1 .. Len(s) : q[i] = <<s[i]>>
  BY <1>4 DEF Pieces, PieceIn, AllText
<1>. HIDE DEF q
<1>. DEFINE Same(n) == Len(g[n]) = n /\ \A k \in 1 .. n : g[n][k] = s[k]
            Copied == {n \in Nat : n <= Len(s) => Same(n)}
<1>6. 0 \in Copied
  BY <1>3 DEF Chain
<1>7. ASSUME NEW n \in Nat, n \in Copied
      PROVE  n + 1 \in Copied
  <2>. SUFFICES ASSUME n + 1 <= Len(s) PROVE Same(n + 1)
    <3>. HIDE DEF Same
    <3>. QED
      OBVIOUS
  <2>1. n + 1 \in 1 .. Len(s) /\ n <= Len(s) /\ (n + 1) - 1 = n
    BY <1>4
  <2>2. g[n + 1] = g[n] \o <<s[n + 1]>>
    BY <1>2, <1>3, <1>5, <2>1 DEF Chain
  <2>3. Same(n) /\ g[n] \in Seq(Piece) /\ s[n + 1] \in Piece
    BY <1>4, <1>7, <2>1
  <2>. DEFINE was == g[n]
              now == g[n + 1]
  <2>. HIDE DEF was, now
  <2>4. was \in Seq(Piece) /\ Len(was) = n /\ now = was \o <<s[n + 1]>>
    BY <2>2, <2>3 DEF was, now
  <2>5. /\ Len(now) = n + 1 /\ now[n + 1] = s[n + 1]
        /\ \A k \in 1 .. n : now[k] = was[k]
    <3>1. s[n + 1] \in Piece
      BY <2>3
    <3>2. /\ Len(was \o <<s[n + 1]>>) = Len(was) + 1
          /\ \A k \in 1 .. Len(was) : (was \o <<s[n + 1]>>)[k] = was[k]
          /\ (was \o <<s[n + 1]>>)[Len(was) + 1] = s[n + 1]
      BY <2>4, <3>1, OneMore
    <3>. QED
      BY <2>4, <3>2
  <2>6. \A k \in 1 .. n : was[k] = s[k]
    BY <2>3 DEF was
  <2>7. ASSUME NEW k \in 1 .. n + 1
        PROVE  now[k] = s[k]
    <3>1. CASE k = n + 1
      BY <2>5, <3>1
    <3>2. CASE k # n + 1
      <4>1. k \in 1 .. n
        BY <3>2
      <4>. QED
        BY <2>5, <2>6, <4>1
    <3>. QED
      BY <3>1, <3>2
  <2>. QED
    BY <2>5, <2>7 DEF now
<1>8. Same(Len(s))
  <2>. HIDE DEF Same
  <2>1. Nat \subseteq Copied
    <3>. HIDE DEF Copied
    <3>. QED
      BY <1>6, <1>7, InductiveSet
  <2>. QED
    BY <1>4, <2>1
<1>9. g[Len(s)] \in Seq(Piece) /\ s \in Seq(Piece)
  BY <1>4 DEF Str
<1>10. g[Len(s)] = s
  BY <1>4, <1>8, <1>9
<1>11. Expand(s, e) = FlattenSeq(q)
  BY DEF Expand, Pieces, q
<1>. QED
  BY <1>1, <1>2, <1>3, <1>10, <1>11

After(t, s) == <<t>> \o s

\* Text before a string stays before its expansion.
LEMMA ExpandAfterText ==
    ASSUME NEW t, t.kind = "text", NEW s \in Str, NEW e, EnvOK(e)
    PROVE  Expand(After(t, s), e) = After(t, Expand(s, e))
<1>. DEFINE X == Piece \cup {t}
            u == <<t>> \o s
            q == Pieces(s, e)
            r == Pieces(u, e)
<1>1. Len(s) \in Nat /\ DOMAIN s = 1 .. Len(s) /\ s \in Seq(X) /\ <<t>> \in Seq(X)
  <2>1. Len(s) \in Nat /\ DOMAIN s = 1 .. Len(s) /\ \A i \in 1 .. Len(s) : s[i] \in X
    BY DEF Str
  <2>2. s \in Seq(X)
    BY <2>1, SeqMonotonic DEF Str
  <2>. QED
    BY <2>1, <2>2
<1>. HIDE DEF X
<1>2. u \in Seq(X) /\ Len(u) = Len(s) + 1
  BY <1>1
<1>3. DOMAIN u = 1 .. Len(s) + 1 /\ u[1] = t /\ \A i \in 1 .. Len(s) : u[i + 1] = s[i]
  BY <1>1
<1>. HIDE DEF u
<1>4. \A i \in DOMAIN s : PieceIn(s[i], e) \in Seq(X)
  <2>1. \A x \in Str : x \in Seq(X)
    BY SeqMonotonic DEF Str, X
  <2>. QED
    BY <2>1, PieceType
<1>5. PieceIn(t, e) = <<t>> /\ <<t>> \in Seq(X)
  BY <1>1 DEF PieceIn
<1>6. /\ r[1] = <<t>> /\ DOMAIN r = 1 .. Len(s) + 1
      /\ \A i \in 1 .. Len(s) : r[i + 1] = q[i] /\ q[i] \in Seq(X)
  <2>1. 1 \in DOMAIN u /\ \A i \in 1 .. Len(s) : i + 1 \in DOMAIN u
    BY <1>1, <1>3
  <2>2. /\ r[1] = PieceIn(t, e) /\ \A i \in 1 .. Len(s) : r[i + 1] = PieceIn(s[i], e)
        /\ DOMAIN r = DOMAIN u
    BY <1>3, <2>1 DEF Pieces
  <2>3. \A i \in 1 .. Len(s) : q[i] = PieceIn(s[i], e)
    BY <1>1 DEF Pieces
  <2>. QED
    BY <1>1, <1>3, <1>4, <1>5, <2>2, <2>3
<1>7. q \in Seq(Seq(X)) /\ Len(q) = Len(s)
  BY <1>1, <1>4, SeqOfPieces
<1>8. r \in Seq(Seq(X)) /\ Len(r) = Len(s) + 1
  <2>1. ASSUME NEW i \in DOMAIN u
        PROVE  PieceIn(u[i], e) \in Seq(X)
    <3>1. CASE i = 1
      BY <1>3, <1>5, <3>1
    <3>2. CASE i # 1
      <4>1. i - 1 \in DOMAIN s /\ (i - 1) + 1 = i
        BY <1>1, <1>3, <3>2
      <4>2. u[i] = s[i - 1]
        BY <1>1, <1>3, <4>1
      <4>. QED
        BY <1>4, <4>1, <4>2
    <3>. QED
      BY <3>1, <3>2
  <2>. QED
    BY <1>2, <2>1, SeqOfPieces
<1>9. Expand(s, e) = FlattenSeq(q) /\ Expand(u, e) = FlattenSeq(r)
  BY DEF Expand, Pieces
<1>. HIDE DEF q, r
<1>10. PICK g \in [Nat -> Seq(X)] : Chain(g, q) /\ FlattenSeq(q) = g[Len(q)]
  BY <1>7, FlattenChain
<1>11. PICK h \in [Nat -> Seq(X)] : Chain(h, r) /\ FlattenSeq(r) = h[Len(r)]
  BY <1>8, FlattenChain
<1>. DEFINE N == Len(s)
<1>12. N \in Nat /\ Len(q) = N /\ Len(r) = N + 1
  BY <1>1, <1>7, <1>8
<1>13. \A i \in 1 .. N : r[i + 1] = q[i] /\ q[i] \in Seq(X)
  BY <1>6
<1>. HIDE DEF N
<1>14. h[1] = <<t>> \o g[0]
  <2>1. 1 \in 1 .. Len(r) /\ 1 - 1 = 0
    BY <1>12
  <2>2. h[1] = <<>> \o <<t>> /\ g[0] = <<>>
    BY <1>6, <1>10, <1>11, <2>1 DEF Chain
  <2>3. <<t>> \o <<>> = <<>> \o <<t>>
    OBVIOUS
  <2>. QED
    BY <2>2, <2>3
<1>15. ASSUME NEW n \in Nat, n + 1 <= N, h[n + 1] = <<t>> \o g[n]
       PROVE  h[(n + 1) + 1] = <<t>> \o g[n + 1]
  <2>1. n + 1 \in 1 .. N /\ (n + 1) - 1 = n
    BY <1>12, <1>15
  <2>2. (n + 1) + 1 \in 1 .. N + 1 /\ ((n + 1) + 1) - 1 = n + 1
    BY <1>12, <1>15
  <2>3. g[n + 1] = g[n] \o q[n + 1]
    BY <1>10, <1>12, <2>1 DEF Chain
  <2>4. h[(n + 1) + 1] = h[n + 1] \o r[(n + 1) + 1]
    BY <1>11, <1>12, <2>2 DEF Chain
  <2>5. r[(n + 1) + 1] = q[n + 1] /\ q[n + 1] \in Seq(X)
    BY <1>13, <2>1
  <2>6. g[n] \in Seq(X) /\ <<t>> \in Seq(X)
    BY <1>1
  <2>7. (<<t>> \o g[n]) \o q[n + 1] = <<t>> \o (g[n] \o q[n + 1])
    <3>1. Associative(X)
      BY ConcatIsAssociative
    <3>. QED
      BY <2>5, <2>6, <3>1 DEF Associative
  <2>. QED
    BY <1>15, <2>3, <2>4, <2>5, <2>7
<1>16. h[N + 1] = <<t>> \o g[N]
  <2>. DEFINE Shifted == {n \in Nat : n <= N => h[n + 1] = <<t>> \o g[n]}
  <2>1. 0 \in Shifted
    <3>1. 0 + 1 = 1
      OBVIOUS
    <3>. QED
      BY <1>14, <3>1
  <2>2. ASSUME NEW n \in Nat, n \in Shifted
        PROVE  n + 1 \in Shifted
    <3>1. n + 1 <= N => n <= N
      BY <1>12
    <3>2. n + 1 <= N => h[(n + 1) + 1] = <<t>> \o g[n + 1]
      BY <1>15, <2>2, <3>1
    <3>3. n + 1 \in Nat
      OBVIOUS
    <3>. QED
      BY <3>2, <3>3
  <2>3. N \in Shifted
    <3>. HIDE DEF Shifted
    <3>. QED
      BY <1>12, <2>1, <2>2, InductiveSet
  <2>4. N <= N
    BY <1>12
  <2>. QED
    BY <2>3, <2>4
<1>. QED
  BY <1>9, <1>10, <1>11, <1>12, <1>16 DEF u, After

-----------------------------------------------------------------------------
(***************************************************************************)
(* The order of the entries.  Precedes orders the indices totally, so no   *)
(* two have the same number of endpoints ahead; the numbers are those from *)
(* 0 to Len - 1, and there is one index for each rank.                     *)
(***************************************************************************)
AheadOf(eps, i) == {j \in DOMAIN eps : Precedes(eps, j, i)}

LEMMA EndpointsType ==
    ASSUME NEW eps \in Seq(RpcEndpoint)
    PROVE  /\ Len(eps) \in Nat /\ DOMAIN eps = 1 .. Len(eps)
           /\ \A i \in DOMAIN eps : eps[i] \in RpcEndpoint /\ eps[i].priority \in Nat
<1>1. Len(eps) \in Nat /\ DOMAIN eps = 1 .. Len(eps) /\ \A i \in 1 .. Len(eps) : eps[i] \in RpcEndpoint
  OBVIOUS
<1>2. \A ep \in RpcEndpoint : ep.priority \in Nat
  BY DEF RpcEndpoint
<1>. QED
  BY <1>1, <1>2

LEMMA PrecedesIsTotal ==
    ASSUME NEW eps \in Seq(RpcEndpoint), NEW i \in DOMAIN eps, NEW j \in DOMAIN eps
    PROVE  /\ ~Precedes(eps, i, i)
           /\ i # j => Precedes(eps, i, j) \/ Precedes(eps, j, i)
           /\ \A k \in DOMAIN eps : Precedes(eps, i, j) /\ Precedes(eps, j, k) => Precedes(eps, i, k)
<1>. DEFINE prio == [k \in DOMAIN eps |-> eps[k].priority]
<1>1. /\ prio \in [DOMAIN eps -> Nat] /\ DOMAIN eps \subseteq Nat
      /\ \A k, m : Precedes(eps, k, m) <=>
                      eps[k].priority < eps[m].priority \/ (eps[k].priority = eps[m].priority /\ k < m)
      /\ \A k \in DOMAIN eps : prio[k] = eps[k].priority
  BY EndpointsType DEF Precedes
<1>. HIDE DEF prio
<1>2. \A k, m \in DOMAIN eps :
         Precedes(eps, k, m) <=> prio[k] < prio[m] \/ (prio[k] = prio[m] /\ k < m)
  BY <1>1
<1>. QED
  BY <1>1, <1>2

LEMMA AheadFinite ==
    ASSUME NEW eps \in Seq(RpcEndpoint), NEW i \in DOMAIN eps
    PROVE  /\ IsFiniteSet(AheadOf(eps, i)) /\ Cardinality(AheadOf(eps, i)) \in Nat
           /\ Cardinality(AheadOf(eps, i)) < Len(eps)
<1>1. IsFiniteSet(DOMAIN eps) /\ Cardinality(DOMAIN eps) = Len(eps)
  BY EndpointsType, FS_Interval
<1>2. AheadOf(eps, i) \in SUBSET DOMAIN eps /\ i \notin AheadOf(eps, i)
  BY PrecedesIsTotal DEF AheadOf
<1>3. /\ IsFiniteSet(AheadOf(eps, i))
      /\ Cardinality(AheadOf(eps, i)) <= Len(eps)
      /\ Len(eps) = Cardinality(AheadOf(eps, i)) => DOMAIN eps = AheadOf(eps, i)
  BY <1>1, <1>2, FS_Subset
<1>4. Cardinality(AheadOf(eps, i)) \in Nat
  BY <1>3, FS_CardinalityType
<1>. QED
  BY <1>2, <1>3, <1>4, EndpointsType

LEMMA MoreAreAhead ==
    ASSUME NEW eps \in Seq(RpcEndpoint), NEW i \in DOMAIN eps, NEW j \in DOMAIN eps,
           Precedes(eps, i, j)
    PROVE  Cardinality(AheadOf(eps, i)) < Cardinality(AheadOf(eps, j))
<1>1. /\ AheadOf(eps, i) \in SUBSET AheadOf(eps, j)
      /\ i \in AheadOf(eps, j) /\ i \notin AheadOf(eps, i)
  BY PrecedesIsTotal DEF AheadOf
<1>2. /\ Cardinality(AheadOf(eps, i)) <= Cardinality(AheadOf(eps, j))
      /\ Cardinality(AheadOf(eps, j)) # Cardinality(AheadOf(eps, i))
  BY <1>1, AheadFinite, FS_Subset
<1>. QED
  BY <1>2, AheadFinite

\* The entries are all the endpoints, and each precedes those behind it.
LEMMA EntriesInOrder ==
    ASSUME NEW cfg \in RpcPoolConfig
    PROVE  LET n == Len(cfg.endpoints)
           IN  /\ EntryOrder(cfg) \in [1 .. n -> 1 .. n]
               /\ \A k \in 1 .. n : Cardinality(AheadOf(cfg.endpoints, EntryOrder(cfg)[k])) = k - 1
               /\ \A k, m \in 1 .. n :
                     k < m => Precedes(cfg.endpoints, EntryOrder(cfg)[k], EntryOrder(cfg)[m])
<1>. DEFINE eps == cfg.endpoints
            n == Len(eps)
            rank == [i \in 1 .. n |-> Cardinality(AheadOf(eps, i)) + 1]
            q == EntryOrder(cfg)
<1>1. eps \in Seq(RpcEndpoint)
  BY DEF RpcPoolConfig
<1>2. n \in Nat /\ DOMAIN eps = 1 .. n
  BY <1>1, EndpointsType
<1>. HIDE DEF eps
<1>3. rank \in [1 .. n -> 1 .. n]
  <2>1. ASSUME NEW i \in 1 .. n
        PROVE  Cardinality(AheadOf(eps, i)) + 1 \in 1 .. n
    <3>1. Cardinality(AheadOf(eps, i)) \in Nat /\ Cardinality(AheadOf(eps, i)) < n
      BY <1>1, <1>2, AheadFinite
    <3>. QED
      BY <1>2, <3>1
  <2>. QED
    BY <2>1
<1>4. ASSUME NEW i \in 1 .. n, NEW j \in 1 .. n, Precedes(eps, i, j)
      PROVE  rank[i] < rank[j]
  <2>1. Cardinality(AheadOf(eps, i)) < Cardinality(AheadOf(eps, j))
    BY <1>1, <1>2, <1>4, MoreAreAhead
  <2>2. Cardinality(AheadOf(eps, i)) \in Nat /\ Cardinality(AheadOf(eps, j)) \in Nat
    BY <1>1, <1>2, AheadFinite
  <2>. QED
    BY <2>1, <2>2
<1>5. q = [k \in 1 .. n |-> CHOOSE i \in 1 .. n : Cardinality(AheadOf(eps, i)) = k - 1]
  BY <1>2 DEF EntryOrder, AheadOf, eps
<1>6. \A i, k \in 1 .. n : rank[i] = k <=> Cardinality(AheadOf(eps, i)) = k - 1
  <2>1. \A i \in 1 .. n : Cardinality(AheadOf(eps, i)) \in Nat
    BY <1>1, <1>2, AheadFinite
  <2>. QED
    BY <1>2, <2>1
<1>. HIDE DEF rank, q, n
<1>7. rank \in Injection(1 .. n, 1 .. n)
  <2>1. \A i, j \in 1 .. n : rank[i] = rank[j] => i = j
    <3>1. ASSUME NEW i \in 1 .. n, NEW j \in 1 .. n, i # j
          PROVE  rank[i] # rank[j]
      <4>1. Precedes(eps, i, j) \/ Precedes(eps, j, i)
        BY <1>1, <1>2, <3>1, PrecedesIsTotal
      <4>2. rank[i] < rank[j] \/ rank[j] < rank[i]
        BY <1>4, <4>1
      <4>3. rank[i] \in Nat /\ rank[j] \in Nat
        BY <1>2, <1>3
      <4>. QED
        BY <4>2, <4>3
    <3>. QED
      BY <3>1
  <2>. QED
    BY <1>3, <2>1 DEF Injection, IsInjective
<1>8. \A k \in 1 .. n : \E i \in 1 .. n : rank[i] = k
  <2>1. IsFiniteSet(1 .. n)
    BY <1>2, FS_Interval
  <2>2. rank \in Surjection(1 .. n, 1 .. n)
    BY <1>7, <2>1, FS_Injection
  <2>. QED
    BY <2>2 DEF Surjection
<1>9. \A k \in 1 .. n : q[k] \in 1 .. n /\ Cardinality(AheadOf(eps, q[k])) = k - 1
  BY <1>5, <1>6, <1>8
<1>10. \A k \in 1 .. n : q[k] \in 1 .. n /\ rank[q[k]] = k
  BY <1>6, <1>9
<1>11. q \in [1 .. n -> 1 .. n]
  BY <1>5, <1>9
<1>12. ASSUME NEW k \in 1 .. n, NEW m \in 1 .. n, k < m
       PROVE  Precedes(eps, q[k], q[m])
  <2>1. q[k] # q[m] /\ ~(rank[q[m]] < rank[q[k]])
    BY <1>2, <1>10, <1>12
  <2>. QED
    BY <1>1, <1>2, <1>4, <1>10, <2>1, PrecedesIsTotal
<1>. QED
  BY <1>9, <1>11, <1>12 DEF n, q, eps

\* Where no later endpoint has a better priority, the entries are in the order
\* of the configuration.
LEMMA SortedAlready ==
    ASSUME NEW cfg \in RpcPoolConfig,
           \A i, j \in DOMAIN cfg.endpoints :
               i < j => cfg.endpoints[i].priority <= cfg.endpoints[j].priority,
           NEW k \in 1 .. Len(cfg.endpoints)
    PROVE  EntryOrder(cfg)[k] = k
<1>. DEFINE eps == cfg.endpoints
            n == Len(eps)
            e == EntryOrder(cfg)[k]
<1>1. eps \in Seq(RpcEndpoint)
  BY DEF RpcPoolConfig
<1>2. n \in Nat /\ DOMAIN eps = 1 .. n /\ \A i \in 1 .. n : eps[i].priority \in Nat
  BY <1>1, EndpointsType
<1>3. e \in 1 .. n /\ Cardinality(AheadOf(eps, e)) = k - 1
  BY EntriesInOrder
<1>4. \A i, j \in 1 .. n : i < j => eps[i].priority <= eps[j].priority
  BY <1>2
<1>5. k \in 1 .. n
  OBVIOUS
<1>. HIDE DEF eps, n, e
<1>6. AheadOf(eps, e) = 1 .. e - 1
  <2>1. ASSUME NEW j \in 1 .. n
        PROVE  Precedes(eps, j, e) <=> j < e
    <3>1. eps[j].priority \in Nat /\ eps[e].priority \in Nat
      BY <1>2, <1>3
    <3>2. CASE j < e
      BY <1>3, <1>4, <3>1, <3>2 DEF Precedes
    <3>3. CASE e < j
      <4>1. eps[e].priority <= eps[j].priority
        BY <1>3, <1>4, <3>3
      <4>. QED
        BY <1>2, <1>3, <3>1, <3>3, <4>1 DEF Precedes
    <3>4. CASE e = j
      BY <1>2, <1>3, <3>1, <3>4 DEF Precedes
    <3>. QED
      BY <1>2, <1>3, <3>2, <3>3, <3>4
  <2>. QED
    BY <1>2, <1>3, <2>1 DEF AheadOf
<1>7. Cardinality(1 .. e - 1) = e - 1
  <2>1. e \in Nat /\ e >= 1
    BY <1>2, <1>3
  <2>2. Cardinality(1 .. e - 1) = IF 1 > e - 1 THEN 0 ELSE (e - 1) - 1 + 1
    BY <2>1, FS_Interval
  <2>. QED
    BY <2>1, <2>2
<1>. QED
  BY <1>2, <1>3, <1>5, <1>6, <1>7 DEF e

-----------------------------------------------------------------------------
(***************************************************************************)
(* The strings of a configuration, and what resolve_env makes of them.     *)
(***************************************************************************)
\* The same endpoints, but for their strings.
SameShape(cfg, src) ==
    /\ DOMAIN cfg.endpoints = DOMAIN src.endpoints
    /\ Len(cfg.endpoints) = Len(src.endpoints)
    /\ \A i \in DOMAIN src.endpoints :
          /\ cfg.endpoints[i].priority = src.endpoints[i].priority
          /\ cfg.endpoints[i].capabilities = src.endpoints[i].capabilities
          /\ cfg.endpoints[i].auth = src.endpoints[i].auth
          /\ DOMAIN cfg.endpoints[i].args = DOMAIN src.endpoints[i].args
          /\ Len(cfg.endpoints[i].args) = Len(src.endpoints[i].args)

LEMMA ConfigType ==
    ASSUME NEW cfg \in RpcPoolConfig
    PROVE  /\ cfg.listen \in Str /\ cfg.endpoints \in Seq(RpcEndpoint)
           /\ \A i \in DOMAIN cfg.endpoints :
                 /\ cfg.endpoints[i] \in RpcEndpoint
                 /\ cfg.endpoints[i].url \in Str
                 /\ cfg.endpoints[i].args \in Seq(Str)
                 /\ Len(cfg.endpoints[i].args) \in Nat
                 /\ DOMAIN cfg.endpoints[i].args = 1 .. Len(cfg.endpoints[i].args)
                 /\ \A j \in 1 .. Len(cfg.endpoints[i].args) : cfg.endpoints[i].args[j] \in Str
<1>1. cfg.listen \in Str /\ cfg.endpoints \in Seq(RpcEndpoint)
  BY DEF RpcPoolConfig
<1>2. ASSUME NEW ep \in RpcEndpoint
      PROVE  /\ ep.url \in Str /\ ep.args \in Seq(Str) /\ Len(ep.args) \in Nat
             /\ DOMAIN ep.args = 1 .. Len(ep.args)
             /\ \A j \in 1 .. Len(ep.args) : ep.args[j] \in Str
  <2>1. ep.url \in Str /\ ep.args \in Seq(Str)
    BY DEF RpcEndpoint
  <2>. QED
    BY <2>1
<1>. QED
  BY <1>1, <1>2, EndpointsType

\* The places: the listen address, the URLs and the arguments.
LEMMA PlacesOf ==
    ASSUME NEW cfg \in RpcPoolConfig
    PROVE  /\ <<0, 0>> \in Places(cfg)
           /\ \A i \in DOMAIN cfg.endpoints :
                 /\ <<i, 0>> \in Places(cfg)
                 /\ \A j \in 1 .. Len(cfg.endpoints[i].args) : <<i, j>> \in Places(cfg)
           /\ \A p \in Places(cfg) :
                 \/ p = <<0, 0>>
                 \/ \E i \in DOMAIN cfg.endpoints :
                       p = <<i, 0>> \/ \E j \in 1 .. Len(cfg.endpoints[i].args) : p = <<i, j>>
<1>1. \A i \in DOMAIN cfg.endpoints : Len(cfg.endpoints[i].args) \in Nat
  BY ConfigType
<1>2. ASSUME NEW i \in DOMAIN cfg.endpoints
      PROVE  \A j : j \in 0 .. Len(cfg.endpoints[i].args)
                       <=> j = 0 \/ j \in 1 .. Len(cfg.endpoints[i].args)
  BY <1>1
<1>. QED
  BY <1>1, <1>2 DEF Places

LEMMA StringsAt ==
    ASSUME NEW cfg \in RpcPoolConfig
    PROVE  /\ StringAt(cfg, <<0, 0>>) = cfg.listen
           /\ \A i \in DOMAIN cfg.endpoints :
                 /\ StringAt(cfg, <<i, 0>>) = cfg.endpoints[i].url
                 /\ \A j \in 1 .. Len(cfg.endpoints[i].args) :
                       StringAt(cfg, <<i, j>>) = cfg.endpoints[i].args[j]
           /\ \A p \in Places(cfg) : StringAt(cfg, p) \in Str
<1>1. StringAt(cfg, <<0, 0>>) = cfg.listen
  BY DEF StringAt
<1>2. ASSUME NEW i \in DOMAIN cfg.endpoints
      PROVE  /\ StringAt(cfg, <<i, 0>>) = cfg.endpoints[i].url
             /\ \A j \in 1 .. Len(cfg.endpoints[i].args) :
                   StringAt(cfg, <<i, j>>) = cfg.endpoints[i].args[j]
  <2>1. i # 0 /\ \A j \in 1 .. Len(cfg.endpoints[i].args) : j # 0
    BY ConfigType, EndpointsType
  <2>. QED
    BY <2>1 DEF StringAt
<1>3. ASSUME NEW p \in Places(cfg)
      PROVE  StringAt(cfg, p) \in Str
  <2>1. CASE p = <<0, 0>>
    BY <1>1, <2>1, ConfigType
  <2>2. ASSUME NEW i \in DOMAIN cfg.endpoints, p = <<i, 0>>
        PROVE  StringAt(cfg, p) \in Str
    BY <1>2, <2>2, ConfigType
  <2>3. ASSUME NEW i \in DOMAIN cfg.endpoints, NEW j \in 1 .. Len(cfg.endpoints[i].args),
               p = <<i, j>>
        PROVE  StringAt(cfg, p) \in Str
    BY <1>2, <2>3, ConfigType
  <2>. QED
    BY <2>1, <2>2, <2>3, PlacesOf
<1>. QED
  BY <1>1, <1>2, <1>3

LEMMA SamePlaces ==
    ASSUME NEW cfg, NEW src, SameShape(cfg, src)
    PROVE  Places(cfg) = Places(src)
  BY DEF SameShape, Places

LEMMA NewStringType ==
    ASSUME NEW cfg \in RpcPoolConfig, NEW e, EnvOK(e), NEW p \in Places(cfg)
    PROVE  NewString(cfg, e, p) \in Str
  BY StringsAt, ExpandType DEF NewString

\* A configuration keeps its shape, and each string is the new one of its place.
LEMMA ResolvedStrings ==
    ASSUME NEW cfg \in RpcPoolConfig, NEW e, EnvOK(e)
    PROVE  /\ Resolved(cfg, e) \in RpcPoolConfig
           /\ SameShape(Resolved(cfg, e), cfg)
           /\ \A p \in Places(cfg) : StringAt(Resolved(cfg, e), p) = NewString(cfg, e, p)
<1>. DEFINE eps == cfg.endpoints
            new(i) == [eps[i] EXCEPT !.url = NewString(cfg, e, <<i, 0>>), !.args = NewArgs(cfg, e, i)]
            out == Resolved(cfg, e)
<1>1. eps \in Seq(RpcEndpoint) /\ Len(eps) \in Nat /\ DOMAIN eps = 1 .. Len(eps)
  BY ConfigType, EndpointsType
<1>2. ASSUME NEW i \in DOMAIN eps
      PROVE  /\ NewArgs(cfg, e, i) \in Seq(Str)
             /\ Len(NewArgs(cfg, e, i)) = Len(eps[i].args)
             /\ DOMAIN NewArgs(cfg, e, i) = DOMAIN eps[i].args
             /\ \A j \in 1 .. Len(eps[i].args) : NewArgs(cfg, e, i)[j] = NewString(cfg, e, <<i, j>>)
  <2>1. Len(eps[i].args) \in Nat /\ DOMAIN eps[i].args = 1 .. Len(eps[i].args)
    BY ConfigType
  <2>2. \A j \in 1 .. Len(eps[i].args) : NewString(cfg, e, <<i, j>>) \in Str
    BY PlacesOf, NewStringType
  <2>3. NewArgs(cfg, e, i) = [j \in 1 .. Len(eps[i].args) |-> NewString(cfg, e, <<i, j>>)]
    BY <2>1 DEF NewArgs
  <2>. HIDE DEF eps
  <2>. QED
    BY <2>1, <2>2, <2>3
<1>3. ASSUME NEW i \in DOMAIN eps
      PROVE  /\ new(i) \in RpcEndpoint
             /\ new(i).url = NewString(cfg, e, <<i, 0>>) /\ new(i).args = NewArgs(cfg, e, i)
             /\ new(i).priority = eps[i].priority /\ new(i).capabilities = eps[i].capabilities
             /\ new(i).auth = eps[i].auth
  <2>1. eps[i] \in RpcEndpoint
    BY ConfigType
  <2>2. NewString(cfg, e, <<i, 0>>) \in Str
    BY PlacesOf, NewStringType
  <2>. HIDE DEF eps
  <2>. QED
    BY <1>2, <2>1, <2>2 DEF RpcEndpoint
<1>4. /\ out.listen = NewString(cfg, e, <<0, 0>>)
      /\ out.endpoints = [i \in DOMAIN eps |-> new(i)]
      /\ out = [listen |-> NewString(cfg, e, <<0, 0>>), endpoints |-> [i \in DOMAIN eps |-> new(i)]]
  BY DEF Resolved
<1>. HIDE DEF eps, new
<1>5. [i \in DOMAIN eps |-> new(i)] \in Seq(RpcEndpoint)
  <2>1. \A i \in 1 .. Len(eps) : new(i) \in RpcEndpoint
    BY <1>1, <1>3
  <2>. DEFINE n == Len(eps)
  <2>2. n \in Nat /\ [i \in DOMAIN eps |-> new(i)] = [i \in 1 .. n |-> new(i)]
    BY <1>1
  <2>. HIDE DEF n
  <2>3. [i \in 1 .. n |-> new(i)] \in Seq(RpcEndpoint)
    BY <2>1, <2>2 DEF n
  <2>. QED
    BY <2>2, <2>3
<1>6. out \in RpcPoolConfig
  <2>1. NewString(cfg, e, <<0, 0>>) \in Str
    BY PlacesOf, NewStringType
  <2>. HIDE DEF out
  <2>. QED
    BY <1>4, <1>5, <2>1 DEF RpcPoolConfig
<1>. HIDE DEF out
<1>7. SameShape(out, cfg)
  <2>1. DOMAIN out.endpoints = DOMAIN eps /\ \A i \in DOMAIN eps : out.endpoints[i] = new(i)
    BY <1>4
  <2>2. Len(out.endpoints) = Len(eps)
    BY <1>1, <1>4
  <2>. QED
    BY <1>2, <1>3, <2>1, <2>2 DEF SameShape, eps
<1>8. DOMAIN out.endpoints = DOMAIN eps /\ \A i \in DOMAIN eps : out.endpoints[i] = new(i)
  BY <1>4
<1>9. ASSUME NEW p \in Places(cfg)
      PROVE  StringAt(out, p) = NewString(cfg, e, p)
  <2>1. CASE p = <<0, 0>>
    BY <1>4, <1>6, <2>1, StringsAt
  <2>2. ASSUME NEW i \in DOMAIN eps, p = <<i, 0>>
        PROVE  StringAt(out, p) = NewString(cfg, e, p)
    BY <1>3, <1>6, <1>8, <2>2, StringsAt
  <2>3. ASSUME NEW i \in DOMAIN eps, NEW j \in 1 .. Len(eps[i].args), p = <<i, j>>
        PROVE  StringAt(out, p) = NewString(cfg, e, p)
    <3>1. out.endpoints[i].args = NewArgs(cfg, e, i) /\ Len(out.endpoints[i].args) = Len(eps[i].args)
      BY <1>2, <1>3, <1>8
    <3>2. i \in DOMAIN out.endpoints /\ j \in 1 .. Len(out.endpoints[i].args)
      BY <1>8, <3>1
    <3>3. StringAt(out, <<i, j>>) = out.endpoints[i].args[j]
      BY <1>6, <3>2, StringsAt
    <3>. QED
      BY <1>2, <2>3, <3>1, <3>3
  <2>. QED
    BY <2>1, <2>2, <2>3, PlacesOf DEF eps
<1>. QED
  BY <1>6, <1>7, <1>9 DEF out

-----------------------------------------------------------------------------
(***************************************************************************)
(* The inductive invariant.  In the daemon nothing happens to the          *)
(* configuration before it is resolved, and every refusal has its reason   *)
(* in the file and the environment.  Where expansion can be repeated       *)
(* without harm, every string is the one written or its expansion, and all *)
(* are expanded once resolve_env has succeeded.                            *)
(***************************************************************************)
TypeInv ==
    /\ DOMAIN env \subseteq Vars /\ \A v \in DOMAIN env : env[v] \in Values
    /\ source \in Sources
    /\ config \in RpcPoolConfig /\ SameShape(config, source.config)
    /\ resolved \in BOOLEAN
    /\ refusal \in {"none", "parse", "env", "invalid"}

DaemonInv ==
    source.path = "toml" =>
        /\ ~resolved => config = source.config /\ NoPool
        /\ resolved => Valid(config) /\ refusal = "none"
        /\ refusal = "parse" => ~Parses(source.config)
        /\ refusal = "env" => ~Resolvable(source.config, env)
        /\ refusal = "invalid" =>
              Resolvable(source.config, env) /\ ~Valid(Resolved(source.config, env))

JsInv == source.path = "js" => ~resolved /\ refusal # "env"

Kept(p) == StringAt(config, p) = StringAt(source.config, p)

Done(p) ==
    /\ Expandable(StringAt(source.config, p), env)
    /\ StringAt(config, p) = Expand(StringAt(source.config, p), env)

StringsInv ==
    source.path = "toml" \/ PlainEnv(env) =>
        \A p \in Places(source.config) : Done(p) \/ (Kept(p) /\ ~resolved)

EntriesInv == ~NoPool => entries = EntryOrder(config) /\ Valid(config)

Inv == TypeInv /\ DaemonInv /\ JsInv /\ StringsInv /\ EntriesInv

LEMMA SourceType ==
    ASSUME NEW s \in Sources
    PROVE  s.config \in RpcPoolConfig /\ s.path \in {"toml", "rust", "js"} /\ s.list \in BOOLEAN
<1>1. s \in Source
  BY PoolConfigAssumption
<1>. QED
  BY <1>1 DEF Source

LEMMA EnvType ==
    ASSUME TypeInv
    PROVE  EnvOK(env)
  BY PoolConfigAssumption DEF TypeInv, EnvOK

\* Nothing stops resolve_env where everything can be expanded.
LEMMA AllReached ==
    ASSUME NEW cfg, NEW e, Resolvable(cfg, e), NEW p \in Places(cfg)
    PROVE  /\ Reached(cfg, e, p) /\ Expandable(StringAt(cfg, p), e)
           /\ NewString(cfg, e, p) = Expand(StringAt(cfg, p), e)
  BY DEF Resolvable, Reached, NewString

LEMMA ResolvedStable ==
    ASSUME NEW cfg \in RpcPoolConfig, NEW e, NEW f, Extends(f, e), Resolvable(cfg, e)
    PROVE  Resolvable(cfg, f) /\ Resolved(cfg, f) = Resolved(cfg, e)
<1>1. Resolvable(cfg, f)
  BY ExpandStable DEF Resolvable
<1>2. \A p \in Places(cfg) : NewString(cfg, f, p) = NewString(cfg, e, p)
  <2>1. ASSUME NEW p \in Places(cfg)
        PROVE  NewString(cfg, f, p) = NewString(cfg, e, p)
    <3>1. Expandable(StringAt(cfg, p), e)
      BY AllReached
    <3>2. Expand(StringAt(cfg, p), f) = Expand(StringAt(cfg, p), e)
      BY <3>1, ExpandStable
    <3>3. /\ NewString(cfg, e, p) = Expand(StringAt(cfg, p), e)
          /\ NewString(cfg, f, p) = Expand(StringAt(cfg, p), f)
      BY <1>1, AllReached
    <3>. QED
      BY <3>2, <3>3
  <2>. QED
    BY <2>1
<1>3. ASSUME NEW i \in DOMAIN cfg.endpoints
      PROVE  NewArgs(cfg, f, i) = NewArgs(cfg, e, i)
  <2>1. \A j \in DOMAIN cfg.endpoints[i].args : NewString(cfg, f, <<i, j>>) = NewString(cfg, e, <<i, j>>)
    BY <1>2, PlacesOf, ConfigType
  <2>. QED
    BY <2>1 DEF NewArgs
<1>. DEFINE endpoint(i, g) == [cfg.endpoints[i] EXCEPT !.url = NewString(cfg, g, <<i, 0>>),
                                                       !.args = NewArgs(cfg, g, i)]
<1>4. \A i \in DOMAIN cfg.endpoints : endpoint(i, f) = endpoint(i, e)
  BY <1>2, <1>3, PlacesOf
<1>5. NewString(cfg, f, <<0, 0>>) = NewString(cfg, e, <<0, 0>>)
  BY <1>2, PlacesOf
<1>6. \A g : Resolved(cfg, g) = [listen |-> NewString(cfg, g, <<0, 0>>),
                                 endpoints |-> [i \in DOMAIN cfg.endpoints |-> endpoint(i, g)]]
  BY DEF Resolved
<1>. HIDE DEF endpoint
<1>7. [i \in DOMAIN cfg.endpoints |-> endpoint(i, f)] = [i \in DOMAIN cfg.endpoints |-> endpoint(i, e)]
  BY <1>4
<1>. QED
  BY <1>1, <1>5, <1>6, <1>7

LEMMA ShapeOfShape ==
    ASSUME NEW a, NEW b, NEW c, SameShape(a, b), SameShape(b, c)
    PROVE  SameShape(a, c)
  BY DEF SameShape

-----------------------------------------------------------------------------
LEMMA InvInit == Init => Inv
<1>. SUFFICES ASSUME Init PROVE Inv
  OBVIOUS
<1>1. /\ source \in Sources /\ config = source.config /\ resolved = FALSE /\ refusal = "none"
      /\ NoPool
  BY DEF Init, NoPool
<1>2. DOMAIN env \subseteq Vars /\ \A v \in DOMAIN env : env[v] \in Values
  <2>1. PICK set \in SUBSET Vars : env \in [set -> Values]
    BY DEF Init
  <2>. QED
    BY <2>1
<1>3. TypeInv
  BY <1>1, <1>2, SourceType DEF TypeInv, SameShape
<1>4. DaemonInv /\ JsInv /\ EntriesInv
  BY <1>1 DEF DaemonInv, JsInv, EntriesInv
<1>5. StringsInv
  BY <1>1 DEF StringsInv, Kept
<1>. QED
  BY <1>3, <1>4, <1>5 DEF Inv

\* A refusal changes nothing else.
LEMMA RefuseStep ==
    ASSUME Inv, NEW why \in {"none", "parse", "env", "invalid"}, Refuse(why), config' = config,
           source.path = "toml" =>
               /\ ~resolved
               /\ why = "parse" => ~Parses(source.config)
               /\ why = "env" => ~Resolvable(source.config, env)
               /\ why = "invalid" =>
                     Resolvable(source.config, env) /\ ~Valid(Resolved(source.config, env)),
           source.path = "js" => why # "env"
    PROVE  Inv'
<1>. USE DEF Refuse
<1>1. TypeInv'
  BY DEF Inv, TypeInv
<1>2. DaemonInv'
  BY DEF Inv, DaemonInv, NoPool
<1>3. JsInv'
  BY DEF Inv, JsInv
<1>4. StringsInv'
  BY DEF Inv, StringsInv, Done, Kept
<1>5. EntriesInv'
  BY DEF Inv, EntriesInv, NoPool
<1>. QED
  BY <1>1, <1>2, <1>3, <1>4, <1>5 DEF Inv

LEMMA LoadStep ==
    ASSUME Inv, Load
    PROVE  Inv'
<1>1. source.path = "toml" /\ ~resolved /\ refusal = "none" /\ config = source.config /\ NoPool
  BY DEF Inv, DaemonInv, Load
<1>2. TypeInv /\ EnvOK(env) /\ config \in RpcPoolConfig
  BY EnvType DEF Inv, TypeInv
<1>3. CASE ~Parses(config) /\ Refuse("parse") /\ UNCHANGED config
  BY <1>1, <1>3, RefuseStep
<1>4. CASE ~Resolvable(config, env) /\ Refuse("env") /\ UNCHANGED config
  BY <1>1, <1>4, RefuseStep
<1>5. CASE Resolvable(config, env) /\ ~Valid(Resolved(config, env)) /\ Refuse("invalid") /\ UNCHANGED config
  BY <1>1, <1>5, RefuseStep
<1>6. CASE /\ Resolvable(config, env) /\ Valid(Resolved(config, env))
           /\ config' = Resolved(config, env) /\ resolved' = TRUE
           /\ UNCHANGED <<env, source, refusal, entries>>
  <2>1. /\ Resolved(config, env) \in RpcPoolConfig
        /\ SameShape(Resolved(config, env), source.config)
        /\ \A p \in Places(source.config) :
              StringAt(Resolved(config, env), p) = NewString(source.config, env, p)
    BY <1>1, <1>2, ResolvedStrings
  <2>2. TypeInv'
    BY <1>2, <1>6, <2>1 DEF TypeInv
  <2>3. DaemonInv'
    BY <1>1, <1>6 DEF DaemonInv
  <2>4. JsInv'
    BY <1>1, <1>6 DEF JsInv
  <2>5. ASSUME NEW p \in Places(source.config)
        PROVE  Done(p)'
    <3>1. Expandable(StringAt(source.config, p), env)
          /\ NewString(source.config, env, p) = Expand(StringAt(source.config, p), env)
      BY <1>1, <1>6, AllReached
    <3>. QED
      BY <1>6, <2>1, <3>1 DEF Done
  <2>6. StringsInv'
    BY <1>6, <2>5 DEF StringsInv
  <2>7. EntriesInv'
    BY <1>1, <1>6 DEF EntriesInv, NoPool
  <2>. QED
    BY <2>2, <2>3, <2>4, <2>6, <2>7 DEF Inv
<1>. QED
  BY <1>3, <1>4, <1>5, <1>6 DEF Load

\* What is expanded stays so, and what is reached is expanded.
LEMMA ResolveStep ==
    ASSUME Inv, Resolve
    PROVE  Inv'
<1>1. /\ source.path = "rust" /\ refusal = "none" /\ NoPool
      /\ config' = Resolved(config, env)
      /\ UNCHANGED <<env, source, entries>>
      /\ refusal' \in {"none", "env"}
      /\ \/ resolved' = resolved
         \/ Resolvable(config, env) /\ resolved' = TRUE
  BY DEF Resolve, Refuse
<1>2. TypeInv /\ EnvOK(env) /\ config \in RpcPoolConfig /\ SameShape(config, source.config)
      /\ source.config \in RpcPoolConfig
  BY EnvType, SourceType DEF Inv, TypeInv
<1>3. Places(config) = Places(source.config)
  BY <1>2, SamePlaces
<1>4. /\ Resolved(config, env) \in RpcPoolConfig
      /\ SameShape(Resolved(config, env), config)
      /\ \A p \in Places(config) : StringAt(Resolved(config, env), p) = NewString(config, env, p)
  BY <1>2, ResolvedStrings
<1>5. TypeInv'
  <2>1. SameShape(config', source.config)
    BY <1>1, <1>2, <1>4, ShapeOfShape
  <2>2. resolved' \in BOOLEAN
    BY <1>1, <1>2 DEF TypeInv
  <2>. QED
    BY <1>1, <1>2, <1>4, <2>1, <2>2 DEF TypeInv
<1>6. DaemonInv' /\ JsInv' /\ EntriesInv'
  BY <1>1 DEF DaemonInv, JsInv, EntriesInv, NoPool
<1>7. ASSUME PlainEnv(env), NEW p \in Places(source.config)
      PROVE  Done(p)' \/ (Kept(p)' /\ ~resolved')
  <2>. DEFINE s == StringAt(source.config, p)
              now == StringAt(config, p)
  <2>1. /\ StringAt(config', p) = NewString(config, env, p)
        /\ NewString(config, env, p) = IF Reached(config, env, p) THEN Expand(now, env) ELSE now
        /\ Reached(config, env, p) => Expandable(now, env)
        /\ Resolvable(config, env) => Reached(config, env, p)
    BY <1>1, <1>3, <1>4 DEF NewString, Reached, Resolvable
  <2>2. s \in Str /\ now \in Str
    BY <1>2, <1>3, StringsAt
  <2>3. CASE Done(p)
    <3>1. Expandable(s, env) /\ now = Expand(s, env)
      BY <2>3 DEF Done
    <3>2. AllText(now)
      BY <1>2, <1>7, <2>2, <3>1, ExpandIsText
    <3>3. Expand(now, env) = now
      BY <1>2, <2>2, <3>2, ExpandText
    <3>. QED
      BY <1>1, <2>1, <3>1, <3>3 DEF Done
  <2>4. CASE Kept(p) /\ ~resolved
    <3>1. now = s
      BY <2>4 DEF Kept
    <3>2. CASE Reached(config, env, p)
      BY <1>1, <2>1, <3>1, <3>2 DEF Done
    <3>3. CASE ~Reached(config, env, p)
      BY <1>1, <2>1, <2>4, <3>1, <3>3 DEF Kept
    <3>. QED
      BY <3>2, <3>3
  <2>5. Done(p) \/ (Kept(p) /\ ~resolved)
    BY <1>7 DEF Inv, StringsInv
  <2>. QED
    BY <2>3, <2>4, <2>5
<1>8. StringsInv'
  BY <1>1, <1>7 DEF StringsInv
<1>. QED
  BY <1>5, <1>6, <1>8 DEF Inv

LEMMA BuildStep ==
    ASSUME Inv, Build, source.path = "toml" => resolved
    PROVE  Inv'
<1>1. CASE ~Valid(config) /\ Refuse("invalid") /\ UNCHANGED config
  <2>1. source.path # "toml"
    BY <1>1 DEF Inv, DaemonInv
  <2>. QED
    BY <1>1, <2>1, RefuseStep
<1>2. CASE /\ Valid(config) /\ entries' = EntryOrder(config)
           /\ UNCHANGED <<env, source, config, resolved, refusal>>
  <2>1. TypeInv' /\ JsInv'
    BY <1>2 DEF Inv, TypeInv, JsInv
  <2>2. DaemonInv'
    BY <1>2 DEF Inv, DaemonInv
  <2>3. StringsInv'
    BY <1>2 DEF Inv, StringsInv, Done, Kept
  <2>4. EntriesInv'
    BY <1>2 DEF EntriesInv
  <2>. QED
    BY <2>1, <2>2, <2>3, <2>4 DEF Inv
<1>. QED
  BY <1>1, <1>2 DEF Build

LEMMA NewJsPoolStep ==
    ASSUME Inv, NewJsPool
    PROVE  Inv'
<1>1. source.path = "js"
  BY DEF NewJsPool
<1>2. CASE Refuse("parse") /\ UNCHANGED config
  BY <1>1, <1>2, RefuseStep
<1>3. CASE Build
  BY <1>1, <1>3, BuildStep
<1>. QED
  BY <1>2, <1>3 DEF NewJsPool

\* One variable more takes nothing back.
LEMMA ExportStep ==
    ASSUME Inv, Export
    PROVE  Inv'
<1>1. PICK v \in Vars \ DOMAIN env, val \in Values :
         env' = [w \in DOMAIN env \cup {v} |-> IF w = v THEN val ELSE env[w]]
  BY DEF Export
<1>2. /\ NoPool /\ UNCHANGED <<source, config, resolved, entries>>
      /\ refusal' = IF refusal = "env" THEN "none" ELSE refusal
  BY DEF Export
<1>3. /\ Extends(env', env) /\ DOMAIN env' \subseteq Vars
      /\ \A w \in DOMAIN env' : env'[w] \in Values
  BY <1>1 DEF Inv, TypeInv, Extends
<1>4. source.config \in RpcPoolConfig
  BY SourceType DEF Inv, TypeInv
<1>5. TypeInv'
  BY <1>2, <1>3 DEF Inv, TypeInv
<1>6. DaemonInv'
  <2>1. Resolvable(source.config, env) =>
           Resolvable(source.config, env') /\ Resolved(source.config, env') = Resolved(source.config, env)
    BY <1>3, <1>4, ResolvedStable
  <2>. QED
    BY <1>2, <2>1 DEF Inv, DaemonInv, NoPool
<1>7. JsInv' /\ EntriesInv'
  BY <1>2 DEF Inv, JsInv, EntriesInv, NoPool
<1>8. PlainEnv(env') => PlainEnv(env)
  BY <1>3 DEF PlainEnv, Extends
<1>9. ASSUME NEW p \in Places(source.config)
      PROVE  (Done(p) => Done(p)') /\ (Kept(p) => Kept(p)')
  <2>1. Expandable(StringAt(source.config, p), env) =>
           /\ Expandable(StringAt(source.config, p), env')
           /\ Expand(StringAt(source.config, p), env') = Expand(StringAt(source.config, p), env)
    BY <1>3, ExpandStable
  <2>. QED
    BY <1>2, <2>1 DEF Done, Kept
<1>10. StringsInv'
  BY <1>2, <1>8, <1>9 DEF Inv, StringsInv
<1>. QED
  BY <1>5, <1>6, <1>7, <1>10 DEF Inv

LEMMA StutterStep ==
    ASSUME Inv, UNCHANGED vars
    PROVE  Inv'
<1>. USE DEF vars
<1>1. TypeInv' /\ JsInv'
  BY DEF Inv, TypeInv, JsInv
<1>2. DaemonInv'
  BY DEF Inv, DaemonInv, NoPool
<1>3. StringsInv'
  BY DEF Inv, StringsInv, Done, Kept
<1>4. EntriesInv'
  BY DEF Inv, EntriesInv, NoPool
<1>. QED
  BY <1>1, <1>2, <1>3, <1>4 DEF Inv

LEMMA Invariance == Spec => []Inv
<1>1. Init => Inv
  BY InvInit
<1>2. Inv /\ [Next]_vars => Inv'
  <2>. SUFFICES ASSUME Inv, [Next]_vars PROVE Inv'
    OBVIOUS
  <2>1. CASE Load
    BY <2>1, LoadStep
  <2>2. CASE Resolve
    BY <2>2, ResolveStep
  <2>3. CASE NewPool
    BY <2>3, BuildStep DEF NewPool
  <2>4. CASE NewJsPool
    BY <2>4, NewJsPoolStep
  <2>5. CASE Export
    BY <2>5, ExportStep
  <2>6. CASE UNCHANGED vars
    BY <2>6, StutterStep
  <2>. QED
    BY <2>1, <2>2, <2>3, <2>4, <2>5, <2>6 DEF Next
<1>. QED
  BY <1>1, <1>2, PTL DEF Spec

-----------------------------------------------------------------------------
(***************************************************************************)
(* The entries of a pool, in the terms of the properties.                  *)
(***************************************************************************)
LEMMA EntriesType ==
    ASSUME Inv, ~NoPool
    PROVE  LET n == Len(source.config.endpoints)
           IN  /\ entries \in [1 .. n -> 1 .. n] /\ Len(entries) = n
               /\ DOMAIN entries = 1 .. n /\ DOMAIN config.endpoints = 1 .. n
               /\ Len(config.endpoints) = n
<1>1. config \in RpcPoolConfig /\ SameShape(config, source.config) /\ entries = EntryOrder(config)
  BY DEF Inv, TypeInv, EntriesInv
<1>. DEFINE n == Len(config.endpoints)
<1>2. n \in Nat /\ DOMAIN config.endpoints = 1 .. n /\ Len(source.config.endpoints) = n
  BY <1>1, ConfigType, EndpointsType DEF SameShape
<1>3. entries \in [1 .. n -> 1 .. n]
  BY <1>1, EntriesInOrder
<1>. HIDE DEF n
<1>4. Len(entries) = n
  BY <1>2, <1>3
<1>. QED
  BY <1>2, <1>3, <1>4 DEF n

(***************************************************************************)
(* Every variable keeps its type, every endpoint its strings however       *)
(* resolve_env fails (config.rs:251-303), and every entry is the index of  *)
(* an endpoint.                                                            *)
(***************************************************************************)
THEOREM TypeCorrect == Spec => []TypeOK
<1>1. Inv => TypeOK
  <2>. SUFFICES ASSUME Inv PROVE TypeOK
    OBVIOUS
  <2>1. /\ DOMAIN env \subseteq Vars /\ \A v \in DOMAIN env : env[v] \in Values
        /\ source \in Sources /\ SameShape(config, source.config) /\ resolved \in BOOLEAN
        /\ refusal \in {"none", "parse", "env", "invalid"}
    BY DEF Inv, TypeInv
  <2>2. DOMAIN config.endpoints = DOMAIN source.config.endpoints
    BY <2>1 DEF SameShape
  <2>3. \A i \in DOMAIN config.endpoints :
           Len(config.endpoints[i].args) = Arity[config.endpoints[i].auth]
    BY <2>1, PoolConfigAssumption DEF SameShape
  <2>4. refusal \in {"none", "parse", "invalid"} \cup (IF source.path = "js" THEN {} ELSE {"env"})
    BY <2>1 DEF Inv, JsInv
  <2>5. \A k \in DOMAIN entries : entries[k] \in DOMAIN config.endpoints
    <3>1. CASE NoPool
      BY <3>1 DEF NoPool
    <3>2. CASE ~NoPool
      BY <3>2, EntriesType
    <3>. QED
      BY <3>1, <3>2
  <2>. QED
    BY <2>1, <2>2, <2>3, <2>4, <2>5 DEF TypeOK
<1>. QED
  BY <1>1, Invariance, PTL

(***************************************************************************)
(* Every pool is what the dispatch relies on (mod.rs:112-132): all the     *)
(* endpoints of the configuration, better priorities first, ties in the    *)
(* order written, and no URL twice, whatever the expansion made of them.   *)
(***************************************************************************)
THEOREM Routable == Spec => []PoolIsRoutable
<1>1. Inv => PoolIsRoutable
  <2>. SUFFICES ASSUME Inv, ~NoPool
                PROVE  /\ Len(entries) = Len(source.config.endpoints)
                       /\ \A k, m \in DOMAIN entries : k < m =>
                             /\ Pool[k].priority <= Pool[m].priority
                             /\ Pool[k].priority = Pool[m].priority => entries[k] < entries[m]
                             /\ Pool[k].url # Pool[m].url
    BY DEF PoolIsRoutable
  <2>. DEFINE n == Len(source.config.endpoints)
              eps == config.endpoints
  <2>1. /\ entries \in [1 .. n -> 1 .. n] /\ Len(entries) = n
        /\ DOMAIN entries = 1 .. n /\ DOMAIN eps = 1 .. n /\ Len(eps) = n
    BY EntriesType
  <2>2. config \in RpcPoolConfig /\ entries = EntryOrder(config) /\ Valid(config)
        /\ eps \in Seq(RpcEndpoint)
    BY ConfigType DEF Inv, TypeInv, EntriesInv
  <2>3. \A k, m \in 1 .. n : k < m => Precedes(eps, entries[k], entries[m])
    BY <2>1, <2>2, EntriesInOrder
  <2>4. \A i, j \in 1 .. n : eps[i].url = eps[j].url => i = j
    BY <2>1, <2>2 DEF Valid
  <2>5. \A k \in 1 .. n : Pool[k] = eps[entries[k]]
    BY <2>1 DEF Pool
  <2>6. \A i \in 1 .. n : eps[i].priority \in Nat /\ ~Precedes(eps, i, i)
    BY <2>1, <2>2, EndpointsType, PrecedesIsTotal
  <2>7. n \in Nat
    BY <2>1, <2>2, EndpointsType
  <2>. HIDE DEF n, eps
  <2>8. ASSUME NEW k \in 1 .. n, NEW m \in 1 .. n, k < m
        PROVE  /\ Pool[k].priority <= Pool[m].priority
               /\ Pool[k].priority = Pool[m].priority => entries[k] < entries[m]
               /\ Pool[k].url # Pool[m].url
    <3>1. entries[k] \in 1 .. n /\ entries[m] \in 1 .. n
      BY <2>1
    <3>2. Precedes(eps, entries[k], entries[m])
      BY <2>3, <2>8
    <3>3. entries[k] # entries[m]
      BY <2>6, <3>1, <3>2
    <3>4. eps[entries[k]].priority \in Nat /\ eps[entries[m]].priority \in Nat
      BY <2>6, <3>1
    <3>5. eps[entries[k]].url # eps[entries[m]].url
      BY <2>4, <3>1, <3>3
    <3>. QED
      BY <2>5, <3>2, <3>4, <3>5 DEF Precedes
  <2>. QED
    BY <2>1, <2>8 DEF n
<1>. QED
  BY <1>1, Invariance, PTL

(***************************************************************************)
(* A list makes entries in the order of the list (config.rs:217-246,       *)
(* presets.rs:61-78): its priorities never improve towards the end.        *)
(***************************************************************************)
THEOREM ListsKeepOrder == Spec => []ListOrderKept
<1>1. Inv => ListOrderKept
  <2>. SUFFICES ASSUME Inv, ~NoPool, source.list, NEW k \in DOMAIN entries
                PROVE  entries[k] = k
    BY DEF ListOrderKept
  <2>. DEFINE eps == source.config.endpoints
              n == Len(eps)
              urls == [i \in DOMAIN eps |-> eps[i].url]
  <2>1. config \in RpcPoolConfig /\ entries = EntryOrder(config) /\ SameShape(config, source.config)
        /\ source \in Sources
    BY DEF Inv, TypeInv, EntriesInv
  <2>2. DOMAIN entries = 1 .. n /\ DOMAIN eps = 1 .. n /\ Len(config.endpoints) = n /\ n \in Nat
    BY <2>1, EntriesType, ConfigType, EndpointsType DEF SameShape
  <2>3. eps \in {Ranked(urls), Peers(urls), Starter(urls), KeyedStarter(urls)}
    BY <2>1, PoolConfigAssumption DEF IsList
  <2>4. ASSUME NEW i \in 1 .. n
        PROVE  Ranked(urls)[i].priority = i - 1
    BY <2>2 DEF Ranked, Listed, Endpoint
  <2>5. ASSUME NEW i \in 1 .. n
        PROVE  /\ Peers(urls)[i].priority = 0 /\ Starter(urls)[i].priority = 1
               /\ KeyedStarter(urls)[i].priority = IF i = 1 THEN 0 ELSE 1
    BY <2>2 DEF Peers, Starter, KeyedStarter, Listed, Endpoint
  <2>6. \A i, j \in 1 .. n : i < j => eps[i].priority <= eps[j].priority
    <3>. HIDE DEF eps, n, urls
    <3>1. CASE eps = Ranked(urls)
      BY <2>2, <2>4, <3>1
    <3>2. CASE eps \in {Peers(urls), Starter(urls), KeyedStarter(urls)}
      BY <2>2, <2>5, <3>2
    <3>. QED
      BY <2>3, <3>1, <3>2
  <2>7. \A i, j \in DOMAIN config.endpoints :
           i < j => config.endpoints[i].priority <= config.endpoints[j].priority
    BY <2>1, <2>2, <2>6 DEF SameShape
  <2>. QED
    BY <2>1, <2>2, <2>7, SortedAlready
<1>. QED
  BY <1>1, Invariance, PTL

\* A configuration in order is valid once it is resolved.
LEMMA InOrderIsValid ==
    ASSUME NEW cfg \in RpcPoolConfig, EnvOK(env), InOrder(cfg)
    PROVE  Valid(Resolved(cfg, env))
<1>. DEFINE eps == cfg.endpoints
            n == Len(eps)
            url == [i \in DOMAIN eps |-> Expand(eps[i].url, env)]
            T == {url[i] : i \in DOMAIN url}
            out == Resolved(cfg, env)
<1>1. /\ Resolvable(cfg, env) /\ eps # <<>> /\ \A i \in DOMAIN url : ~Empty(url[i])
      /\ Cardinality(T) = Len(url)
  BY DEF InOrder
<1>2. n \in Nat /\ DOMAIN eps = 1 .. n /\ DOMAIN url = 1 .. n
  BY ConfigType, EndpointsType
<1>3. out \in RpcPoolConfig /\ SameShape(out, cfg)
      /\ \A p \in Places(cfg) : StringAt(out, p) = NewString(cfg, env, p)
  BY ResolvedStrings
<1>4. ASSUME NEW i \in 1 .. n
      PROVE  i \in DOMAIN out.endpoints /\ out.endpoints[i].url = url[i]
  <2>1. i \in DOMAIN eps /\ i \in DOMAIN out.endpoints
    BY <1>2, <1>3 DEF SameShape
  <2>2. <<i, 0>> \in Places(cfg)
    BY <2>1, PlacesOf
  <2>3. NewString(cfg, env, <<i, 0>>) = Expand(StringAt(cfg, <<i, 0>>), env)
    BY <1>1, <2>2, AllReached
  <2>4. StringAt(cfg, <<i, 0>>) = eps[i].url /\ StringAt(out, <<i, 0>>) = out.endpoints[i].url
    BY <1>3, <2>1, StringsAt
  <2>5. url[i] = Expand(eps[i].url, env)
    BY <2>1
  <2>. QED
    BY <1>3, <2>1, <2>2, <2>3, <2>4, <2>5
<1>5. Len(url) = n
  <2>1. url = [i \in 1 .. n |-> Expand(eps[i].url, env)]
    BY <1>2
  <2>. HIDE DEF n
  <2>. QED
    BY <1>2, <2>1
<1>6. DOMAIN out.endpoints = 1 .. n /\ out.endpoints # <<>>
  <2>1. DOMAIN out.endpoints = 1 .. n /\ out.endpoints \in Seq(RpcEndpoint)
    BY <1>2, <1>3, ConfigType DEF SameShape
  <2>2. eps \in Seq(RpcEndpoint) /\ n # 0
    BY <1>1, ConfigType
  <2>. HIDE DEF n
  <2>. QED
    BY <1>2, <2>1, <2>2
<1>. HIDE DEF eps, n, url, out
<1>7. \A i, j \in 1 .. n : url[i] = url[j] => i = j
  <2>1. url \in [1 .. n -> T] /\ \A u \in T : \E i \in 1 .. n : url[i] = u
    <3>1. url = [i \in 1 .. n |-> url[i]]
      BY <1>2 DEF url
    <3>. QED
      BY <1>2, <3>1
  <2>2. url \in Surjection(1 .. n, T)
    BY <2>1 DEF Surjection
  <2>3. IsFiniteSet(1 .. n) /\ Cardinality(1 .. n) = n
    BY <1>2, FS_Interval
  <2>4. url \in Injection(1 .. n, T)
    BY <1>1, <1>5, <2>2, <2>3, FS_Surjection
  <2>. QED
    BY <1>2, <2>4 DEF Injection, IsInjective
<1>8. Valid(out)
  BY <1>1, <1>2, <1>4, <1>6, <1>7 DEF Valid
<1>. QED
  BY <1>8 DEF out

(***************************************************************************)
(* The daemon refuses no file that is in order (config.rs:251-303,         *)
(* main.rs:126-137).  A refusal for its URLs is for good: it is the        *)
(* expanded URLs that are blank or repeated, and variables set later do    *)
(* not change them.                                                        *)
(***************************************************************************)
THEOREM OrderlyStarts == Spec => []StartsIfInOrder
<1>1. Inv => StartsIfInOrder
  <2>. SUFFICES ASSUME Inv, source.path = "toml", refusal # "none", InOrder(source.config)
                PROVE  FALSE
    BY DEF StartsIfInOrder
  <2>1. Parses(source.config) /\ Resolvable(source.config, env)
    BY DEF InOrder
  <2>2. source.config \in RpcPoolConfig /\ EnvOK(env)
    BY SourceType, EnvType DEF Inv, TypeInv
  <2>3. Valid(Resolved(source.config, env))
    BY <2>2, InOrderIsValid
  <2>4. refusal \in {"parse", "env", "invalid"}
    BY DEF Inv, TypeInv
  <2>. QED
    BY <2>1, <2>3, <2>4 DEF Inv, DaemonInv
<1>. QED
  BY <1>1, Invariance, PTL

LEMMA MissingOfConcat ==
    ASSUME NEW X, NEW s \in Seq(X), NEW t \in Seq(X), NEW e,
           Missing(s, e) = {}, Missing(t, e) = {}
    PROVE  Missing(s \o t, e) = {}
<1>1. /\ Len(s) \in Nat /\ Len(t) \in Nat
      /\ DOMAIN s = 1 .. Len(s) /\ DOMAIN t = 1 .. Len(t)
      /\ DOMAIN (s \o t) = 1 .. Len(s) + Len(t)
      /\ \A i \in 1 .. Len(s) + Len(t) :
            (s \o t)[i] = IF i <= Len(s) THEN s[i] ELSE t[i - Len(s)]
  OBVIOUS
<1>2. ASSUME NEW i \in DOMAIN (s \o t), (s \o t)[i].kind = "ref"
      PROVE  (s \o t)[i].of \in DOMAIN e
  <2>1. CASE i <= Len(s)
    <3>1. i \in DOMAIN s /\ (s \o t)[i] = s[i]
      BY <1>1, <2>1
    <3>. QED
      BY <1>2, <3>1 DEF Missing
  <2>2. CASE ~(i <= Len(s))
    <3>1. i - Len(s) \in DOMAIN t /\ (s \o t)[i] = t[i - Len(s)]
      BY <1>1, <2>2
    <3>. QED
      BY <1>2, <3>1 DEF Missing
  <2>. QED
    BY <2>1, <2>2
<1>. QED
  BY <1>2 DEF Missing

\* Texts of one piece, like the name and the prefix of a bearer's header.
LEMMA OneText ==
    ASSUME NEW t, t.kind = "text", NEW e
    PROVE  Missing(<<t>>, e) = {} /\ Expand(<<t>>, e) = <<t>>
<1>1. Missing(<<t>>, e) = {}
  BY DEF Missing
<1>. DEFINE q == Pieces(<<t>>, e)
<1>2. q = <<<<t>>>>
  BY DEF Pieces, PieceIn
<1>3. <<t>> \in Seq({t}) /\ <<<<t>>>> \in Seq(Seq({t})) /\ Len(<<<<t>>>>) = 1 /\ <<<<t>>>>[1] = <<t>>
  OBVIOUS
<1>4. PICK g \in [Nat -> Seq({t})] : Chain(g, q) /\ FlattenSeq(q) = g[Len(q)]
  <2>. HIDE DEF q
  <2>. QED
    BY <1>2, <1>3, FlattenChain
<1>5. g[1] = <<t>>
  <2>1. g[0] = <<>> /\ g[1] = g[0] \o <<t>>
    <3>. HIDE DEF q
    <3>1. 1 \in 1 .. Len(q) /\ 1 - 1 = 0
      BY <1>2, <1>3
    <3>. QED
      BY <1>2, <1>3, <1>4, <3>1 DEF Chain
  <2>2. <<>> \o <<t>> = <<t>>
    OBVIOUS
  <2>. QED
    BY <2>1, <2>2
<1>6. Expand(<<t>>, e) = FlattenSeq(q)
  BY DEF Expand, Pieces
<1>. HIDE DEF q
<1>. QED
  BY <1>1, <1>2, <1>3, <1>4, <1>5, <1>6

\* What ep sends is what the written endpoint says, with each reference replaced.
SendsExpanded(ep, written, e) ==
    /\ \A h \in Headers(written) : Missing(h[1] \o h[2], e) = {}
    /\ Headers(ep) = {<<Expand(h[1], e), Expand(h[2], e)>> : h \in Headers(written)}

\* An endpoint with every string expanded sends the expanded headers.
LEMMA ExpandedHeaders ==
    ASSUME NEW written \in RpcEndpoint, NEW ep \in RpcEndpoint, NEW e, EnvOK(e),
           Len(written.args) = Arity[written.auth],
           ep.auth = written.auth, Len(ep.args) = Len(written.args),
           \A j \in 1 .. Len(written.args) :
               Missing(written.args[j], e) = {} /\ ep.args[j] = Expand(written.args[j], e)
    PROVE  SendsExpanded(ep, written, e)
<1>. USE DEF SendsExpanded
<1>1. written.auth \in {"none", "url_key", "bearer", "header"}
  BY DEF RpcEndpoint, Arity
<1>2. \A j \in 1 .. Len(written.args) : written.args[j] \in Str
  BY DEF RpcEndpoint
<1>3. CASE written.auth \in {"none", "url_key"}
  <2>1. Headers(written) = {} /\ Headers(ep) = {}
    BY <1>3 DEF Headers
  <2>. QED
    BY <2>1
<1>4. CASE written.auth = "bearer"
  <2>. DEFINE name == <<Text("Authorization")>>
              prefix == <<Text("Bearer ")>>
              token == written.args[1]
              X == Piece \cup {Text("Authorization"), Text("Bearer ")}
  <2>1. /\ 1 \in 1 .. Len(written.args) /\ token \in Str /\ Missing(token, e) = {}
        /\ ep.args[1] = Expand(token, e)
    BY <1>2, <1>4 DEF Arity
  <2>2. Text("Authorization").kind = "text" /\ Text("Bearer ").kind = "text"
    BY DEF Text
  <2>3. Missing(name, e) = {} /\ Missing(prefix, e) = {} /\ Expand(name, e) = name
    BY <2>2, OneText
  <2>4. Expand(prefix \o token, e) = prefix \o Expand(token, e)
    <3>1. PICK b : b = Text("Bearer ") /\ b.kind = "text"
      BY <2>2
    <3>. HIDE DEF token
    <3>2. Expand(After(b, token), e) = After(b, Expand(token, e))
      <4>1. token \in Str /\ b.kind = "text" /\ EnvOK(e)
        BY <2>1, <3>1
      <4>2. \A t, s : t.kind = "text" /\ s \in Str => Expand(After(t, s), e) = After(t, Expand(s, e))
        BY ExpandAfterText
      <4>. QED
        BY <4>1, <4>2
    <3>. QED
      BY <3>1, <3>2 DEF After
  <2>5. name \in Seq(X) /\ prefix \in Seq(X)
    OBVIOUS
  <2>6. token \in Seq(X)
    BY <2>1, SeqMonotonic DEF Str
  <2>7. Missing(name \o (prefix \o token), e) = {}
    <3>. HIDE DEF name, prefix, token, X
    <3>1. Missing(prefix \o token, e) = {} /\ prefix \o token \in Seq(X)
      BY <2>1, <2>3, <2>5, <2>6, MissingOfConcat, ConcatProperties
    <3>. QED
      BY <2>3, <2>5, <3>1, MissingOfConcat
  <2>8. /\ Headers(written) = {<<name, prefix \o token>>}
        /\ Headers(ep) = {<<name, prefix \o Expand(token, e)>>}
    BY <1>4, <2>1 DEF Headers
  <2>. HIDE DEF name, prefix, token, X
  <2>9. PICK h : /\ h = <<name, prefix \o token>> /\ h[1] = name /\ h[2] = prefix \o token
                 /\ Headers(written) = {h}
    BY <2>8
  <2>10. \A g \in Headers(written) : Missing(g[1] \o g[2], e) = {}
    BY <2>7, <2>9
  <2>11. <<Expand(h[1], e), Expand(h[2], e)>> = <<name, prefix \o Expand(token, e)>>
    BY <2>3, <2>4, <2>9
  <2>12. {<<Expand(g[1], e), Expand(g[2], e)>> : g \in Headers(written)}
            = {<<Expand(h[1], e), Expand(h[2], e)>>}
    BY <2>9
  <2>. QED
    BY <2>8, <2>10, <2>11, <2>12
<1>5. CASE written.auth = "header"
  <2>. DEFINE name == written.args[1]
              value == written.args[2]
  <2>1. /\ 1 \in 1 .. Len(written.args) /\ 2 \in 1 .. Len(written.args)
        /\ name \in Str /\ Missing(name, e) = {} /\ ep.args[1] = Expand(name, e)
        /\ value \in Str /\ Missing(value, e) = {} /\ ep.args[2] = Expand(value, e)
    BY <1>2, <1>5 DEF Arity
  <2>2. Missing(name \o value, e) = {}
    BY <2>1, MissingOfConcat DEF Str
  <2>3. Headers(written) = {<<name, value>>} /\ Headers(ep) = {<<Expand(name, e), Expand(value, e)>>}
    BY <1>5, <2>1 DEF Headers
  <2>. HIDE DEF name, value
  <2>4. <<name, value>>[1] = name /\ <<name, value>>[2] = value
    OBVIOUS
  <2>. QED
    BY <2>2, <2>3, <2>4
<1>. QED
  BY <1>1, <1>3, <1>4, <1>5

(***************************************************************************)
(* The keys that reach the wire are the ones in the environment            *)
(* (config.rs:52-79, 251-303): after a successful resolve_env every entry  *)
(* has the URL and sends the headers of its source with each reference     *)
(* replaced once by the value of a variable that is set.                   *)
(***************************************************************************)
THEOREM KeysArrive == Spec => []KeysReachTheWire
<1>1. Inv => KeysReachTheWire
  <2>. SUFFICES ASSUME Inv, resolved, source.path = "toml" \/ Plain, NEW k \in DOMAIN entries
                PROVE  LET written == source.config.endpoints[entries[k]]
                       IN  /\ Missing(written.url, env) = {}
                           /\ Pool[k].url = Expand(written.url, env)
                           /\ \A h \in Headers(written) : Missing(h[1] \o h[2], env) = {}
                           /\ Headers(Pool[k]) =
                                 {<<Expand(h[1], env), Expand(h[2], env)>> : h \in Headers(written)}
    BY DEF KeysReachTheWire
  <2>. DEFINE i == entries[k]
              src == source.config
              written == src.endpoints[i]
              ep == config.endpoints[i]
  <2>1. /\ source \in Sources /\ src \in RpcPoolConfig /\ EnvOK(env)
        /\ config \in RpcPoolConfig /\ SameShape(config, src)
    BY SourceType, EnvType DEF Inv, TypeInv
  <2>2. i \in DOMAIN src.endpoints /\ i \in DOMAIN config.endpoints
    <3>1. ~NoPool
      BY DEF NoPool
    <3>2. i \in DOMAIN config.endpoints
      BY <3>1, EntriesType
    <3>. QED
      BY <2>1, <3>2 DEF SameShape
  <2>3. ASSUME NEW p \in Places(src)
        PROVE  /\ Missing(StringAt(src, p), env) = {}
               /\ StringAt(config, p) = Expand(StringAt(src, p), env)
    <3>1. source.path = "toml" \/ PlainEnv(env)
      BY DEF Plain, PlainEnv, AllText
    <3>2. Done(p)
      BY <3>1 DEF Inv, StringsInv
    <3>. QED
      BY <3>2 DEF Done, Expandable
  <2>4. /\ Len(written.args) = Arity[written.auth]
        /\ ep.auth = written.auth /\ Len(ep.args) = Len(written.args)
        /\ written \in RpcEndpoint /\ ep \in RpcEndpoint /\ Pool[k] = ep
    BY <2>1, <2>2, ConfigType, PoolConfigAssumption DEF SameShape, Pool
  <2>5. Missing(written.url, env) = {} /\ ep.url = Expand(written.url, env)
    <3>1. StringAt(src, <<i, 0>>) = written.url /\ StringAt(config, <<i, 0>>) = ep.url
          /\ <<i, 0>> \in Places(src)
      BY <2>1, <2>2, PlacesOf, StringsAt
    <3>. QED
      BY <2>3, <3>1
  <2>6. ASSUME NEW j \in 1 .. Len(written.args)
        PROVE  Missing(written.args[j], env) = {} /\ ep.args[j] = Expand(written.args[j], env)
    <3>1. <<i, j>> \in Places(src) /\ StringAt(src, <<i, j>>) = written.args[j]
      BY <2>1, <2>2, PlacesOf, StringsAt
    <3>2. StringAt(config, <<i, j>>) = ep.args[j]
      <4>1. j \in 1 .. Len(ep.args)
        BY <2>4
      <4>. QED
        BY <2>1, <2>2, <4>1, StringsAt
    <3>. QED
      BY <2>3, <3>1, <3>2
  <2>. HIDE DEF i, src, written, ep
  <2>7. SendsExpanded(ep, written, env)
    <3>1. \A j \in 1 .. Len(written.args) :
             Missing(written.args[j], env) = {} /\ ep.args[j] = Expand(written.args[j], env)
      BY <2>6
    <3>. QED
      BY <2>1, <2>4, <3>1, ExpandedHeaders
  <2>. QED
    BY <2>4, <2>5, <2>7 DEF SendsExpanded, i, src, written, ep
<1>. QED
  BY <1>1, Invariance, PTL
=============================================================================
