----------------------------- MODULE Induction -----------------------------
(***************************************************************************)
(* Induction over the natural numbers as a fact about sets, which needs no *)
(* operator as a parameter.  To prove P(n) for every n in Nat, apply       *)
(* InductiveSet to {n \in Nat : P(n)}.                                     *)
(***************************************************************************)
EXTENDS Integers, FiniteSetTheorems, WellFoundedInduction, TLAPS

\* Every set of natural numbers that is not empty has a least element.
LEMMA LeastElement ==
    ASSUME NEW T, T \subseteq Nat, T # {}
    PROVE  \E x \in T : \A y \in T : x <= y
<1>. DEFINE Less == {p \in Nat \X Nat : p[1] < p[2]}
<1>1. IsWellFoundedOn(Less, Nat)
  BY NatLessThanWellFounded DEF OpToRel
<1>2. PICK x \in T : \A y \in T : <<y, x>> \notin Less
  <2>. HIDE DEF Less
  <2>. QED
    BY <1>1, WFMin
<1>3. ASSUME NEW y \in T
      PROVE  x <= y
  <2>1. x \in Nat /\ y \in Nat /\ <<y, x>> \notin Less
    BY <1>2
  <2>2. ~(y < x)
    BY <2>1
  <2>. QED
    BY <2>1, <2>2
<1>. QED
  BY <1>3

LEMMA InductiveSet ==
    ASSUME NEW T, 0 \in T, \A n \in Nat : n \in T => n + 1 \in T
    PROVE  Nat \subseteq T
<1>. SUFFICES ASSUME Nat \ T # {} PROVE FALSE
  OBVIOUS
<1>1. PICK x \in Nat \ T : \A y \in Nat \ T : x <= y
  BY LeastElement
<1>2. x # 0 /\ x \in Nat
  BY <1>1
<1>3. x - 1 \in Nat /\ ~(x <= x - 1)
  BY <1>2
<1>4. x - 1 \in T
  BY <1>1, <1>3
<1>5. (x - 1) + 1 \in T
  BY <1>3, <1>4
<1>6. (x - 1) + 1 = x
  BY <1>2
<1>. QED
  BY <1>1, <1>5, <1>6

-----------------------------------------------------------------------------
\* f is defined by its first value and by a step from each value to the next.
Steps(S) == [Nat \X S -> S]

IsRecursive(f, S, first, step) ==
    /\ f \in [Nat -> S]
    /\ f[0] = first
    /\ \A n \in Nat : f[n + 1] = step[<<n, f[n]>>]

(***************************************************************************)
(* There is such a function.  Its initial parts, as long as one likes,     *)
(* exist by induction, and any two of them agree as far as both go.        *)
(***************************************************************************)
LEMMA Recursion ==
    ASSUME NEW S, NEW first \in S, NEW step \in Steps(S)
    PROVE  \E f : IsRecursive(f, S, first, step)
<1>. USE DEF Steps
<1>. DEFINE Upto(n, g) ==
               g[0] = first /\ \A k \in Nat : k < n => g[k + 1] = step[<<k, g[k]>>]
            Reached == {n \in Nat : \E g \in [Nat -> S] : Upto(n, g)}
<1>1. 0 \in Reached
  <2>. DEFINE g == [k \in Nat |-> first]
  <2>1. g \in [Nat -> S] /\ Upto(0, g)
    OBVIOUS
  <2>. HIDE DEF g
  <2>. QED
    BY <2>1
<1>2. ASSUME NEW n \in Nat, n \in Reached
      PROVE  n + 1 \in Reached
  <2>1. PICK g \in [Nat -> S] : Upto(n, g)
    BY <1>2
  <2>2. PICK x \in S : x = step[<<n, g[n]>>]
    OBVIOUS
  <2>. DEFINE h == [g EXCEPT ![n + 1] = x]
  <2>3. h \in [Nat -> S] /\ h[n + 1] = x /\ \A k \in Nat : k # n + 1 => h[k] = g[k]
    BY <2>2
  <2>. HIDE DEF h
  <2>4. h[0] = first
    BY <2>1, <2>3
  <2>5. ASSUME NEW k \in Nat, k < n + 1
        PROVE  h[k + 1] = step[<<k, h[k]>>]
    <3>1. h[k] = g[k]
      BY <2>3, <2>5
    <3>2. CASE k = n
      BY <2>2, <2>3, <3>1, <3>2
    <3>3. CASE k # n
      <4>1. k < n /\ k + 1 # n + 1
        BY <2>5, <3>3
      <4>. QED
        BY <2>1, <2>3, <3>1, <4>1
    <3>. QED
      BY <3>2, <3>3
  <2>. QED
    BY <2>3, <2>4, <2>5
<1>3. \A n \in Nat : \E g \in [Nat -> S] : Upto(n, g)
  <2>. HIDE DEF Upto
  <2>. QED
    BY <1>1, <1>2, InductiveSet
<1>4. ASSUME NEW n \in Nat, NEW g \in [Nat -> S], NEW h \in [Nat -> S],
             Upto(n, g), Upto(n + 1, h)
      PROVE  g[n] = h[n]
  <2>. DEFINE Agreed == {k \in Nat : k <= n => g[k] = h[k]}
  <2>1. 0 \in Agreed
    BY <1>4
  <2>2. ASSUME NEW k \in Nat, k \in Agreed
        PROVE  k + 1 \in Agreed
    <3>1. CASE k < n
      <4>1. g[k] = h[k]
        BY <2>2, <3>1
      <4>2. g[k + 1] = step[<<k, g[k]>>] /\ h[k + 1] = step[<<k, h[k]>>]
        BY <1>4, <3>1
      <4>. QED
        BY <4>1, <4>2
    <3>2. CASE ~(k < n)
      BY <3>2
    <3>. QED
      BY <3>1, <3>2
  <2>3. n \in Agreed
    <3>. HIDE DEF Agreed
    <3>. QED
      BY <2>1, <2>2, InductiveSet
  <2>. QED
    BY <2>3
<1>. DEFINE part(n) == CHOOSE g \in [Nat -> S] : Upto(n, g)
            f == [n \in Nat |-> part(n)[n]]
<1>. HIDE DEF Upto
<1>5. ASSUME NEW n \in Nat
      PROVE  part(n) \in [Nat -> S] /\ Upto(n, part(n))
  BY <1>3
<1>. HIDE DEF part
<1>6. f \in [Nat -> S]
  BY <1>5
<1>7. f[0] = first
  BY <1>5 DEF Upto
<1>8. ASSUME NEW n \in Nat
      PROVE  f[n + 1] = step[<<n, f[n]>>]
  <2>1. n + 1 \in Nat /\ n < n + 1
    OBVIOUS
  <2>2. part(n)[n] = part(n + 1)[n]
    BY <1>4, <1>5, <2>1
  <2>3. part(n + 1)[n + 1] = step[<<n, part(n + 1)[n]>>]
    BY <1>5, <2>1 DEF Upto
  <2>. QED
    BY <2>1, <2>2, <2>3
<1>. HIDE DEF f
<1>. QED
  BY <1>6, <1>7, <1>8 DEF IsRecursive

-----------------------------------------------------------------------------
\* Induction over the subsets of a finite set.
LEMMA SubsetInduction ==
    ASSUME NEW X, IsFiniteSet(X), NEW Z, {} \in Z,
           \A T \in SUBSET X : T # {} /\ (\A x \in T : T \ {x} \in Z) => T \in Z
    PROVE  \A T \in SUBSET X : T \in Z
<1>. DEFINE Sized == {n \in Nat : \A T \in SUBSET X : Cardinality(T) = n => T \in Z}
<1>1. \A T \in SUBSET X : IsFiniteSet(T) /\ Cardinality(T) \in Nat
  BY FS_Subset, FS_CardinalityType
<1>2. 0 \in Sized
  BY <1>1, FS_EmptySet
<1>3. ASSUME NEW n \in Nat, n \in Sized
      PROVE  n + 1 \in Sized
  <2>1. ASSUME NEW T \in SUBSET X, Cardinality(T) = n + 1
        PROVE  T \in Z
    <3>1. T # {}
      <4>1. Cardinality({}) = 0 /\ n + 1 # 0
        BY FS_EmptySet
      <4>. QED
        BY <2>1, <4>1
    <3>2. ASSUME NEW x \in T
          PROVE  T \ {x} \in Z
      <4>1. Cardinality(T \ {x}) = n /\ T \ {x} \in SUBSET X
        BY <1>1, <2>1, FS_RemoveElement
      <4>. QED
        BY <1>3, <4>1
    <3>. QED
      BY <3>1, <3>2
  <2>. QED
    BY <2>1
<1>4. Nat \subseteq Sized
  <2>. HIDE DEF Sized
  <2>. QED
    BY <1>2, <1>3, InductiveSet
<1>. QED
  BY <1>1, <1>4

\* A finite set of numbers has a bound.
LEMMA Bounded ==
    ASSUME NEW X, IsFiniteSet(X), X \subseteq Nat
    PROVE  \E m \in Nat : \A x \in X : x <= m
<1>. DEFINE B == {s \in SUBSET X : \E m \in Nat : \A x \in s : x <= m}
<1>1. {} \in B
  OBVIOUS
<1>2. ASSUME NEW s \in SUBSET X, s # {}, \A x \in s : s \ {x} \in B
      PROVE  s \in B
  <2>1. PICK x \in s : TRUE
    BY <1>2
  <2>2. PICK m \in Nat : \A y \in s \ {x} : y <= m
    BY <1>2
  <2>3. \A y \in s : y \in Nat /\ (y = x \/ y <= m)
    BY <2>2
  <2>4. \A y \in s : y <= m + x
    BY <2>3
  <2>5. m + x \in Nat
    OBVIOUS
  <2>. QED
    BY <2>4, <2>5
<1>3. \A s \in SUBSET X : s \in B
  <2>. HIDE DEF B
  <2>. QED
    BY <1>1, <1>2, SubsetInduction
<1>. QED
  BY <1>3
=============================================================================
