---------------------------- MODULE CommonLemmas ----------------------------
(***************************************************************************)
(* Lemmas that the proofs about more than one program need: induction over *)
(* the natural numbers in a form that takes no operator for a parameter,   *)
(* the property being the set of the numbers that have it; the existence   *)
(* of a function that recurs over them; and what a sequence is after one   *)
(* of its elements has been taken out.                                     *)
(***************************************************************************)
EXTENDS Integers, Sequences, TLAPS, WellFoundedInduction, SequenceTheorems

(* A set of natural numbers has a least one.                               *)
LEMMA LeastNatural ==
  ASSUME NEW T, T \subseteq Nat, T # {}
  PROVE  \E x \in T : \A y \in T : x <= y
<1> DEFINE R == OpToRel(<, Nat)
<1>1. IsWellFoundedOn(R, Nat)
  BY NatLessThanWellFounded
<1>2. \A x, y \in Nat : x < y => <<x, y>> \in R
  BY DEF OpToRel
<1> HIDE DEF R
<1>3. PICK x \in T : \A y \in T : ~ (<<y, x>> \in R)
  BY <1>1, WFMin
<1>4. \A y \in T : ~ (y < x)
  BY <1>2, <1>3
<1> QED
  BY <1>4

(* What has 0 and with every number the next one has them all.             *)
LEMMA NaturalSteps ==
  ASSUME NEW T, 0 \in T, \A n \in Nat : n \in T => n + 1 \in T
  PROVE  \A n \in Nat : n \in T
<1> SUFFICES ASSUME NEW n \in Nat, n \notin T PROVE FALSE
  OBVIOUS
<1> DEFINE U == {k \in Nat : k \notin T}
<1>1. PICK m \in U : \A k \in U : m <= k
  BY LeastNatural
<1>2. m # 0 /\ m - 1 \in Nat /\ m = (m - 1) + 1
  BY <1>1
<1>3. m - 1 \in T
  BY <1>1, <1>2
<1> QED
  BY <1>1, <1>2, <1>3

(* A function F repeated from a on: the first n terms exist, agree with    *)
(* those of any other length, and make up one sequence.                    *)
Terms(h, n, a, F) == /\ h[0] = a
                     /\ \A k \in 1 .. n : h[k] = F[h[k - 1]]

Orbits(S, a, F) ==
  {g \in [Nat -> S] : g[0] = a /\ \A k \in Nat : g[k + 1] = F[g[k]]}

LEMMA Repeated ==
  ASSUME NEW S, NEW a \in S, NEW F \in [S -> S]
  PROVE  Orbits(S, a, F) # {}
<1> DEFINE Some(n) == \E h \in [0 .. n -> S] : Terms(h, n, a, F)
           T == {n \in Nat : Some(n)}
<1>1. 0 \in T
  <2>1. [k \in 0 .. 0 |-> a] \in [0 .. 0 -> S] /\ Terms([k \in 0 .. 0 |-> a], 0, a, F)
    BY DEF Terms
  <2> QED
    BY <2>1
<1>2. ASSUME NEW n \in Nat, n \in T PROVE n + 1 \in T
  <2>1. PICK h \in [0 .. n -> S] : Terms(h, n, a, F)
    BY <1>2
  <2> DEFINE hh == [k \in 0 .. n + 1 |-> IF k = n + 1 THEN F[h[n]] ELSE h[k]]
  <2>2. hh \in [0 .. n + 1 -> S]
    OBVIOUS
  <2>3. hh[0] = a
    BY <2>1 DEF Terms
  <2>4. ASSUME NEW k \in 1 .. n + 1 PROVE hh[k] = F[hh[k - 1]]
    <3>1. CASE k = n + 1
      BY <3>1
    <3>2. CASE k # n + 1
      BY <2>1, <3>2 DEF Terms
    <3> QED
      BY <3>1, <3>2
  <2> HIDE DEF hh
  <2>5. Terms(hh, n + 1, a, F)
    BY <2>3, <2>4 DEF Terms
  <2> QED
    BY <2>2, <2>5
<1> HIDE DEF T
<1>3. \A n \in Nat : n \in T
  BY <1>1, <1>2, NaturalSteps
<1>4. \A n \in Nat : Some(n)
  BY <1>3 DEF T
<1> DEFINE h(n) == CHOOSE x \in [0 .. n -> S] : Terms(x, n, a, F)
           g == [n \in Nat |-> h(n)[n]]
<1>5. \A n \in Nat : h(n) \in [0 .. n -> S] /\ Terms(h(n), n, a, F)
  BY <1>4
<1> HIDE DEF h
<1>6. ASSUME NEW n \in Nat
      PROVE  \A k \in 0 .. n : h(n + 1)[k] = h(n)[k]
  <2> DEFINE V == {k \in Nat : k \in 0 .. n => h(n + 1)[k] = h(n)[k]}
  <2>1. Terms(h(n), n, a, F) /\ Terms(h(n + 1), n + 1, a, F)
    BY <1>5
  <2>2. 0 \in V
    BY <2>1 DEF Terms
  <2>3. ASSUME NEW k \in Nat, k \in V PROVE k + 1 \in V
    <3> SUFFICES ASSUME k + 1 \in 0 .. n PROVE h(n + 1)[k + 1] = h(n)[k + 1]
      OBVIOUS
    <3>1. h(n + 1)[k] = h(n)[k]
      BY <2>3
    <3>2. k + 1 \in 1 .. n /\ k + 1 \in 1 .. n + 1 /\ (k + 1) - 1 = k
      OBVIOUS
    <3>3. h(n)[k + 1] = F[h(n)[(k + 1) - 1]] /\ h(n + 1)[k + 1] = F[h(n + 1)[(k + 1) - 1]]
      BY <2>1, <3>2 DEF Terms
    <3> QED
      BY <3>1, <3>2, <3>3
  <2> HIDE DEF V
  <2>4. \A k \in Nat : k \in V
    BY <2>2, <2>3, NaturalSteps
  <2> QED
    BY <2>4 DEF V
<1>7. g \in [Nat -> S]
  BY <1>5
<1>8. g[0] = a
  BY <1>5 DEF Terms
<1>9. ASSUME NEW k \in Nat PROVE g[k + 1] = F[g[k]]
  <2>1. h(k + 1)[k + 1] = F[h(k + 1)[k]]
    <3>1. k + 1 \in 1 .. k + 1 /\ (k + 1) - 1 = k
      OBVIOUS
    <3>2. h(k + 1)[k + 1] = F[h(k + 1)[(k + 1) - 1]]
      BY <1>5, <3>1 DEF Terms
    <3> QED
      BY <3>1, <3>2
  <2>2. h(k + 1)[k] = h(k)[k]
    BY <1>6
  <2> QED
    BY <2>1, <2>2
<1> HIDE DEF g
<1> QED
  BY <1>7, <1>8, <1>9 DEF Orbits
(* The same for a function that looks at the number of the term as well.   *)
Countings(S, a, F) ==
  {f \in [Nat -> S] : f[0] = a /\ \A n \in Nat : f[n + 1] = F[<<n, f[n]>>]}

LEMMA Counted ==
  ASSUME NEW S, NEW a \in S, NEW F \in [Nat \X S -> S]
  PROVE  Countings(S, a, F) # {}
<1> DEFINE P == Nat \X S
           G == [p \in P |-> <<p[1] + 1, F[p]>>]
           start == <<0, a>>
<1>1. start \in P /\ G \in [P -> P]
  OBVIOUS
<1>2. \A n \in Nat, x \in S : <<n, x>> \in P /\ G[<<n, x>>] = <<n + 1, F[<<n, x>>]>>
  OBVIOUS
<1>3. \A p \in P : p[1] \in Nat /\ p[2] \in S /\ p = <<p[1], p[2]>>
  OBVIOUS
<1> HIDE DEF P, G
<1>4. PICK g \in [Nat -> P] : g[0] = start /\ \A k \in Nat : g[k + 1] = G[g[k]]
  <2> HIDE DEF start
  <2>1. PICK g \in Orbits(P, start, G) : TRUE
    BY <1>1, Repeated
  <2> QED
    BY <2>1 DEF Orbits
<1> DEFINE T == {n \in Nat : g[n][1] = n}
<1>5. 0 \in T
  BY <1>4
<1>6. ASSUME NEW n \in Nat, n \in T PROVE n + 1 \in T
  <2>1. g[n] \in P /\ g[n][1] = n
    BY <1>4, <1>6
  <2>2. g[n] = <<n, g[n][2]>> /\ g[n][2] \in S
    BY <1>3, <2>1
  <2>3. g[n + 1] = <<n + 1, F[<<n, g[n][2]>>]>>
    BY <1>2, <1>4, <2>2
  <2> QED
    BY <2>3
<1>7. \A n \in Nat : g[n][1] = n
  <2> HIDE DEF T
  <2>1. \A n \in Nat : n \in T
    BY <1>5, <1>6, NaturalSteps
  <2> QED
    BY <2>1 DEF T
<1> DEFINE f == [n \in Nat |-> g[n][2]]
<1>8. f \in [Nat -> S]
  BY <1>3, <1>4
<1>9. f[0] = a
  BY <1>4
<1>10. ASSUME NEW n \in Nat PROVE f[n + 1] = F[<<n, f[n]>>]
  <2>1. g[n] = <<n, g[n][2]>> /\ g[n][2] \in S
    BY <1>3, <1>4, <1>7
  <2>2. g[n + 1] = <<n + 1, F[<<n, g[n][2]>>]>>
    BY <1>2, <1>4, <2>1
  <2> QED
    BY <2>2
<1> HIDE DEF f
<1> QED
  BY <1>8, <1>9, <1>10 DEF Countings
-----------------------------------------------------------------------------
(* Two sequences are the same if they agree at every position.             *)
LEMMA SameSequence ==
  ASSUME NEW S, NEW s \in Seq(S), NEW t \in Seq(S), Len(s) = Len(t),
         \A k \in 1 .. Len(s) : s[k] = t[k]
  PROVE  s = t
OBVIOUS

(* The i-th element is gone, and those behind it have moved up.            *)
LEMMA ElementGone ==
  ASSUME NEW S, NEW s \in Seq(S), NEW i \in 1 .. Len(s)
  PROVE  LET rest == SubSeq(s, 1, i - 1) \o SubSeq(s, i + 1, Len(s))
         IN  /\ rest \in Seq(S) /\ Len(rest) = Len(s) - 1
             /\ \A k \in 1 .. Len(s) - 1 :
                  rest[k] = IF k < i THEN s[k] ELSE s[k + 1]
<1> DEFINE n == Len(s)
           left == SubSeq(s, 1, i - 1)
           right == SubSeq(s, i + 1, n)
           rest == left \o right
<1>1. n \in Nat /\ i \in Nat /\ 1 <= i /\ i <= n
  OBVIOUS
<1>2. /\ left \in Seq(S) /\ Len(left) = i - 1
      /\ \A k \in 1 .. i - 1 : left[k] = s[k]
  <2>1. \A j \in 1 .. i - 1 : s[j] \in S
    BY <1>1
  <2> QED
    BY <1>1, <2>1, SubSeqProperties
<1>3. /\ right \in Seq(S) /\ Len(right) = n - i
      /\ \A k \in 1 .. n - i : right[k] = s[i + k]
  <2>1. \A j \in i + 1 .. n : s[j] \in S
    BY <1>1
  <2> QED
    BY <1>1, <2>1, SubSeqProperties
<1> HIDE DEF n, left, right
<1>4. /\ rest \in Seq(S) /\ Len(rest) = Len(left) + Len(right)
      /\ \A k \in 1 .. Len(left) + Len(right) :
           rest[k] = IF k <= Len(left) THEN left[k] ELSE right[k - Len(left)]
  BY <1>2, <1>3, ConcatProperties
<1> HIDE DEF rest
<1>5. Len(rest) = n - 1
  BY <1>1, <1>2, <1>3, <1>4
<1>6. ASSUME NEW k \in 1 .. n - 1 PROVE rest[k] = IF k < i THEN s[k] ELSE s[k + 1]
  <2>1. k \in 1 .. Len(left) + Len(right)
    BY <1>1, <1>2, <1>3
  <2>2. CASE k < i
    <3>1. k <= Len(left) /\ k \in 1 .. i - 1
      BY <1>1, <1>2, <2>2
    <3> QED
      BY <1>2, <1>4, <2>1, <2>2, <3>1
  <2>3. CASE ~(k < i)
    <3> DEFINE j == k - (i - 1)
    <3>1. ~(k <= Len(left)) /\ j \in 1 .. n - i /\ i + j = k + 1
      BY <1>1, <1>2, <2>3
    <3>2. rest[k] = right[j]
      BY <1>2, <1>4, <2>1, <3>1
    <3> HIDE DEF j
    <3>3. right[j] = s[i + j]
      BY <1>3, <3>1
    <3> QED
      BY <2>3, <3>1, <3>2, <3>3
  <2> QED
    BY <2>2, <2>3
<1> QED
  BY <1>4, <1>5, <1>6 DEF rest, left, right, n
=============================================================================
