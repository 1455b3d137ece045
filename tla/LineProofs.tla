---------------------------- MODULE LineProofs ----------------------------
(***************************************************************************)
(* Proofs about CommandLine, for lines of any length, words of any length  *)
(* and any room for them.  getargs() finds the words of every line; main() *)
(* gets from gettoken() the tokens of every line with short words, and     *)
(* gives each command what is its own.                                     *)
(*                                                                         *)
(* What the reference definitions say is counted: the n-th word, token or  *)
(* command is the one whose beginning has n beginnings up to it (Rank).    *)
(* The loops are followed by invariants over their rounds: Ended for       *)
(* getargs(), Stands for main() over the tokens.                           *)
(***************************************************************************)
EXTENDS CommandLine, TLAPS, FiniteSetTheorems, CommonLemmas

(* How many numbers of S there are up to i.                                *)
Rank(S, i) == Cardinality({j \in S : j <= i})

LEMMA RankType ==
  ASSUME NEW S \in SUBSET Nat, IsFiniteSet(S), NEW i \in S
  PROVE  Rank(S, i) \in 1 .. Cardinality(S)
<1> DEFINE A == {j \in S : j <= i}
<1>1. A \in SUBSET S /\ i \in A
  OBVIOUS
<1>2. IsFiniteSet(A) /\ Cardinality(A) <= Cardinality(S)
  BY <1>1, FS_Subset
<1>3. Cardinality(A) \in Nat /\ Cardinality(S) \in Nat /\ Cardinality(A) # 0
  BY <1>1, <1>2, FS_CardinalityType, FS_EmptySet
<1> QED
  BY <1>2, <1>3 DEF Rank

LEMMA RankGrows ==
  ASSUME NEW S \in SUBSET Nat, IsFiniteSet(S), NEW i \in S, NEW k \in S, i < k
  PROVE  Rank(S, i) < Rank(S, k)
<1> DEFINE A == {j \in S : j <= i}
           B == {j \in S : j <= k}
<1>1. A \in SUBSET B /\ B \in SUBSET S /\ k \in B /\ k \notin A
  <2>1. \A j \in S : j <= i => j <= k
    OBVIOUS
  <2>2. k <= k /\ ~(k <= i)
    OBVIOUS
  <2> QED
    BY <2>1, <2>2, Zenon
<1>2. IsFiniteSet(B)
  BY <1>1, FS_Subset
<1>3. IsFiniteSet(A) /\ Cardinality(A) <= Cardinality(B) /\ Cardinality(B) # Cardinality(A)
  BY <1>1, <1>2, FS_Subset
<1>4. Cardinality(A) \in Nat /\ Cardinality(B) \in Nat
  BY <1>2, <1>3, FS_CardinalityType
<1> QED
  BY <1>3, <1>4 DEF Rank

(* Two numbers of S have two ranks.                                        *)
LEMMA RankOnce ==
  ASSUME NEW S \in SUBSET Nat, IsFiniteSet(S), NEW i \in S, NEW k \in S,
         Rank(S, i) = Rank(S, k)
  PROVE  i = k
<1>1. Rank(S, i) \in Nat /\ Rank(S, k) \in Nat
  BY RankType
<1>2. i < k => Rank(S, i) < Rank(S, k)
  BY RankGrows
<1>3. k < i => Rank(S, k) < Rank(S, i)
  BY RankGrows
<1> QED
  BY <1>1, <1>2, <1>3

(* Every rank is taken.                                                    *)
LEMMA RankTaken ==
  ASSUME NEW S \in SUBSET Nat, IsFiniteSet(S), NEW n \in 1 .. Cardinality(S)
  PROVE  \E i \in S : Rank(S, i) = n
<1> DEFINE N == Cardinality(S)
           R == (1 .. N) \ {n}
           f == [i \in S |-> Rank(S, i)]
<1> SUFFICES ASSUME \A i \in S : Rank(S, i) # n PROVE FALSE
  OBVIOUS
<1>1. N \in Nat
  BY FS_CardinalityType
<1>2. IsFiniteSet(1 .. N) /\ Cardinality(1 .. N) = N
  <2> HIDE DEF N
  <2>1. IsFiniteSet(1 .. N) /\ Cardinality(1 .. N) = IF 1 > N THEN 0 ELSE N - 1 + 1
    BY <1>1, FS_Interval
  <2> QED
    BY <1>1, <2>1
<1>3. IsFiniteSet(R) /\ Cardinality(R) = N - 1
  <2>I. PICK I : I = 1 .. N
    OBVIOUS
  <2>1. n \in I /\ IsFiniteSet(I) /\ Cardinality(I) = N
    BY <1>2, <2>I
  <2>2. IsFiniteSet(I \ {n}) /\ Cardinality(I \ {n}) = N - 1
    <3> HIDE DEF N
    <3>1. IsFiniteSet(I \ {n})
          /\ Cardinality(I \ {n}) = IF n \in I THEN Cardinality(I) - 1 ELSE Cardinality(I)
      BY <2>1, FS_RemoveElement
    <3> QED
      BY <2>1, <3>1
  <2> QED
    BY <2>2, <2>I, Zenon
<1>4. f \in [S -> R]
  <2> SUFFICES ASSUME NEW i \in S PROVE Rank(S, i) \in R
    OBVIOUS
  <2> QED
    BY RankType
<1>5. N - 1 < N
  BY <1>1
<1>6. \E i, k \in S : i # k /\ f[i] = f[k]
  <2> HIDE DEF f, R
  <2>1. Cardinality(R) < Cardinality(S)
    BY <1>3, <1>5
  <2> QED
    BY <1>3, <1>4, <2>1, FS_PigeonHole
<1> QED
  BY <1>6, RankOnce

(* Ups(S) has every number of S at its rank.                               *)
LEMMA UpsFacts ==
  ASSUME NEW S \in SUBSET Nat, IsFiniteSet(S)
  PROVE  /\ Ups(S) \in Seq(S) /\ Len(Ups(S)) = Cardinality(S)
         /\ Cardinality(S) \in Nat
         /\ \A n \in 1 .. Cardinality(S) : Ups(S)[n] \in S /\ Rank(S, Ups(S)[n]) = n
         /\ \A i \in S : /\ Rank(S, i) \in 1 .. Cardinality(S)
                         /\ Ups(S)[Rank(S, i)] = i
<1> DEFINE N == Cardinality(S)
           At(n) == CHOOSE i \in S : Rank(S, i) = n
<1>1. N \in Nat
  BY FS_CardinalityType
<1>2. Ups(S) = [n \in 1 .. N |-> At(n)]
  BY DEF Ups, Rank
<1>3. \A n \in 1 .. N : At(n) \in S /\ Rank(S, At(n)) = n
  BY RankTaken
<1> HIDE DEF At
<1>4. Ups(S) \in [1 .. N -> S]
  BY <1>2, <1>3
<1>5. Ups(S) \in Seq(S) /\ Len(Ups(S)) = N
  <2> HIDE DEF N
  <2> QED
    BY <1>1, <1>4
<1>6. \A n \in 1 .. N : Ups(S)[n] \in S /\ Rank(S, Ups(S)[n]) = n
  BY <1>2, <1>3
<1>7. \A i \in S : Rank(S, i) \in 1 .. N /\ Ups(S)[Rank(S, i)] = i
  BY <1>6, RankType, RankOnce
<1> QED
  BY <1>1, <1>5, <1>6, <1>7

(* Ups(S) ascends.                                                         *)
LEMMA UpsAscend ==
  ASSUME NEW S \in SUBSET Nat, IsFiniteSet(S),
         NEW m \in 1 .. Cardinality(S), NEW n \in 1 .. Cardinality(S), m < n
  PROVE  Ups(S)[m] < Ups(S)[n]
<1>0. Cardinality(S) \in Nat
  BY UpsFacts
<1> PICK i \in S : i = Ups(S)[m] /\ Rank(S, i) = m
  BY UpsFacts
<1> PICK k \in S : k = Ups(S)[n] /\ Rank(S, k) = n
  BY UpsFacts
<1>1. k < i => Rank(S, k) < Rank(S, i)
  BY RankGrows
<1>2. i # k
  BY <1>0
<1> QED
  BY <1>0, <1>1, <1>2

LEMMA UpsEmpty == Ups({}) = <<>> /\ IsFiniteSet({}) /\ Cardinality({}) = 0
  BY FS_EmptySet DEF Ups

(* A number above all of S comes last.                                     *)
LEMMA UpsAppend ==
  ASSUME NEW S \in SUBSET Nat, IsFiniteSet(S), NEW m \in Nat, \A i \in S : i < m
  PROVE  /\ S \cup {m} \in SUBSET Nat /\ IsFiniteSet(S \cup {m})
         /\ Cardinality(S \cup {m}) = Cardinality(S) + 1
         /\ Ups(S \cup {m}) = Append(Ups(S), m)
<1> DEFINE T == S \cup {m}
           N == Cardinality(S)
<1>1. T \in SUBSET Nat /\ m \notin S /\ N \in Nat
  BY FS_CardinalityType
<1>2. IsFiniteSet(T) /\ Cardinality(T) = N + 1
  BY <1>1, FS_AddElement
<1>3. \A i \in S : Rank(T, i) = Rank(S, i)
  <2> SUFFICES ASSUME NEW i \in S PROVE Rank(T, i) = Rank(S, i)
    OBVIOUS
  <2>1. {j \in T : j <= i} = {j \in S : j <= i}
    OBVIOUS
  <2> QED
    BY <2>1 DEF Rank
<1>4. Rank(T, m) = N + 1
  <2>1. \A j \in T : j <= m
    OBVIOUS
  <2>2. {j \in T : j <= m} = T
    BY <2>1, Zenon
  <2> QED
    BY <1>2, <2>2 DEF Rank
<1>5. /\ Ups(T) \in Seq(T) /\ Len(Ups(T)) = N + 1
      /\ \A i \in T : Ups(T)[Rank(T, i)] = i
  BY <1>1, <1>2, UpsFacts
<1>6. /\ Ups(S) \in Seq(S) /\ Len(Ups(S)) = N
      /\ \A n \in 1 .. N : Ups(S)[n] \in S /\ Rank(S, Ups(S)[n]) = n
  BY UpsFacts
<1>7. /\ Append(Ups(S), m) \in Seq(T) /\ Len(Append(Ups(S), m)) = N + 1
      /\ \A n \in 1 .. N : Append(Ups(S), m)[n] = Ups(S)[n]
      /\ Append(Ups(S), m)[N + 1] = m
  <2>1. Ups(S) \in Seq(T) /\ m \in T
    BY <1>6
  <2> HIDE DEF T, N
  <2> QED
    BY <1>6, <2>1, AppendProperties
<1>8. \A n \in 1 .. N : Ups(T)[n] = Ups(S)[n]
  <2> SUFFICES ASSUME NEW n \in 1 .. N PROVE Ups(T)[n] = Ups(S)[n]
    OBVIOUS
  <2> PICK i \in S : i = Ups(S)[n] /\ Rank(S, i) = n
    BY <1>6
  <2> QED
    BY <1>3, <1>5
<1>9. Ups(T)[N + 1] = m
  BY <1>4, <1>5
<1>10. \A n \in 1 .. N + 1 : Ups(T)[n] = Append(Ups(S), m)[n]
  <2> SUFFICES ASSUME NEW n \in 1 .. N + 1 PROVE Ups(T)[n] = Append(Ups(S), m)[n]
    OBVIOUS
  <2>1. n = N + 1 \/ n \in 1 .. N
    BY <1>1
  <2> QED
    BY <1>7, <1>8, <1>9, <2>1
<1>11. Ups(T) = Append(Ups(S), m)
  <2> HIDE DEF T, N
  <2> QED
    BY <1>5, <1>7, <1>10, SeqEqual
<1> QED
  BY <1>1, <1>2, <1>11

(* What is picked out of a sequence, and out of one that is longer.        *)
LEMMA PickedFacts ==
  ASSUME NEW V, NEW s \in Seq(V), NEW P \in SUBSET (1 .. Len(s))
  PROVE  /\ P \in SUBSET Nat /\ IsFiniteSet(P) /\ Cardinality(P) \in Nat
         /\ Picked(s, P) \in Seq(V) /\ Len(Picked(s, P)) = Cardinality(P)
         /\ \A n \in 1 .. Cardinality(P) : /\ Picked(s, P)[n] = s[Ups(P)[n]]
                                          /\ Ups(P)[n] \in P
<1>1. Len(s) \in Nat /\ \A i \in 1 .. Len(s) : s[i] \in V
  BY ElementOfSeq, LenProperties
<1>2. P \in SUBSET Nat
  BY <1>1
<1>3. IsFiniteSet(P)
  <2>1. \A m \in Nat : IsFiniteSet(1 .. m)
    BY FS_Interval
  <2>2. IsFiniteSet(1 .. Len(s))
    BY <1>1, <2>1
  <2> QED
    BY <2>2, FS_Subset
<1> DEFINE N == Cardinality(P)
<1>4. /\ Ups(P) \in Seq(P) /\ Len(Ups(P)) = N /\ N \in Nat
      /\ \A n \in 1 .. N : Ups(P)[n] \in P
  BY <1>2, <1>3, UpsFacts
<1>5. DOMAIN Ups(P) = 1 .. N
  BY <1>4, LenProperties
<1>6. Picked(s, P) = [n \in 1 .. N |-> s[Ups(P)[n]]]
  BY <1>5 DEF Picked
<1>7. Picked(s, P) \in [1 .. N -> V]
  BY <1>1, <1>4, <1>6
<1>8. Picked(s, P) \in Seq(V) /\ Len(Picked(s, P)) = N
  <2> HIDE DEF N
  <2> QED
    BY <1>4, <1>7
<1> QED
  BY <1>2, <1>3, <1>4, <1>6, <1>8

(* A character that is not picked changes nothing, one that is picked      *)
(* comes last.                                                             *)
LEMMA PickedSame ==
  ASSUME NEW V, NEW s \in Seq(V), NEW P \in SUBSET (1 .. Len(s)), NEW c \in V
  PROVE  Picked(Append(s, c), P) = Picked(s, P)
<1> DEFINE t == Append(s, c)
<1> PICK m \in Nat : m = Len(s)
  BY LenProperties
<1>1. t \in Seq(V) /\ Len(t) = m + 1 /\ (\A i \in 1 .. m : t[i] = s[i]) /\ t[m + 1] = c
  BY AppendProperties
<1> HIDE DEF t
<1>0. P \in SUBSET (1 .. m)
  OBVIOUS
<1>2. P \in SUBSET (1 .. Len(t))
  <2>0. \A i \in 1 .. m : i \in 1 .. m + 1
    OBVIOUS
  <2>1. P \in SUBSET (1 .. m + 1)
    BY <1>0, <2>0, Zenon
  <2> QED
    BY <1>1, <2>1
<1> PICK N \in Nat : N = Cardinality(P)
  BY PickedFacts
<1>3. /\ P \in SUBSET Nat /\ IsFiniteSet(P)
      /\ Picked(s, P) \in Seq(V) /\ Len(Picked(s, P)) = N
      /\ \A n \in 1 .. N : /\ Picked(s, P)[n] = s[Ups(P)[n]]
                           /\ Ups(P)[n] \in P
  BY PickedFacts
<1>4. /\ Picked(t, P) \in Seq(V) /\ Len(Picked(t, P)) = N
      /\ \A n \in 1 .. N : Picked(t, P)[n] = t[Ups(P)[n]]
  <2>1. /\ Picked(t, P) \in Seq(V) /\ Len(Picked(t, P)) = Cardinality(P)
        /\ \A n \in 1 .. Cardinality(P) : Picked(t, P)[n] = t[Ups(P)[n]]
    BY <1>1, <1>2, PickedFacts
  <2> QED
    BY <2>1
<1>5. \A n \in 1 .. N : t[Ups(P)[n]] = s[Ups(P)[n]]
  BY <1>0, <1>1, <1>3
<1>6. Picked(t, P) = Picked(s, P)
  BY <1>3, <1>4, <1>5, SeqEqual
<1> QED
  BY <1>6 DEF t

LEMMA PickedGrows ==
  ASSUME NEW V, NEW s \in Seq(V), NEW P \in SUBSET (1 .. Len(s)), NEW c \in V,
         NEW next, next = Len(s) + 1
  PROVE  Picked(Append(s, c), P \cup {next}) = Append(Picked(s, P), c)
<1> DEFINE t == Append(s, c)
           Q == P \cup {next}
<1> PICK m \in Nat : m = Len(s)
  BY LenProperties
<1>1. t \in Seq(V) /\ Len(t) = m + 1 /\ (\A i \in 1 .. m : t[i] = s[i]) /\ t[m + 1] = c
  BY AppendProperties
<1> HIDE DEF t
<1>0. P \in SUBSET (1 .. m) /\ Q = P \cup {m + 1}
  OBVIOUS
<1> HIDE DEF Q
<1>2. P \in SUBSET (1 .. Len(t)) /\ Q \in SUBSET (1 .. Len(t))
  <2>0. (\A i \in 1 .. m : i \in 1 .. m + 1) /\ m + 1 \in 1 .. m + 1
    OBVIOUS
  <2>1. P \in SUBSET (1 .. m + 1) /\ Q \in SUBSET (1 .. m + 1)
    BY <1>0, <2>0, Zenon
  <2> QED
    BY <1>1, <2>1
<1> PICK N \in Nat : N = Cardinality(P)
  BY PickedFacts
<1>3. /\ P \in SUBSET Nat /\ IsFiniteSet(P)
      /\ Picked(s, P) \in Seq(V) /\ Len(Picked(s, P)) = N
      /\ \A n \in 1 .. N : /\ Picked(s, P)[n] = s[Ups(P)[n]]
                           /\ Ups(P)[n] \in P
  BY PickedFacts
<1>5. \A n \in 1 .. N : t[Ups(P)[n]] = s[Ups(P)[n]]
  BY <1>0, <1>1, <1>3
<1>7. Cardinality(Q) = N + 1 /\ Ups(Q) = Append(Ups(P), m + 1)
  <2>1. (\A i \in P : i < m + 1) /\ m + 1 \in Nat
    BY <1>0
  <2>2. Cardinality(P \cup {m + 1}) = Cardinality(P) + 1 /\ Ups(P \cup {m + 1}) = Append(Ups(P), m + 1)
    BY <1>3, <2>1, UpsAppend
  <2> QED
    BY <1>0, <2>2
<1>8. /\ Picked(t, Q) \in Seq(V) /\ Len(Picked(t, Q)) = N + 1
      /\ \A n \in 1 .. N + 1 : Picked(t, Q)[n] = t[Ups(Q)[n]]
  <2>1. /\ Picked(t, Q) \in Seq(V) /\ Len(Picked(t, Q)) = Cardinality(Q)
        /\ \A n \in 1 .. Cardinality(Q) : Picked(t, Q)[n] = t[Ups(Q)[n]]
    BY <1>1, <1>2, PickedFacts
  <2> QED
    BY <1>7, <2>1
<1>9. (\A n \in 1 .. N : Ups(Q)[n] = Ups(P)[n]) /\ Ups(Q)[N + 1] = m + 1
  <2>1. Ups(P) \in Seq(P) /\ Len(Ups(P)) = N
    BY <1>3, UpsFacts
  <2>2. Ups(P) \in Seq(Nat)
    BY <1>3, <2>1, SeqMonotonic
  <2> QED
    BY <1>7, <2>1, <2>2, AppendProperties
<1>10. /\ Append(Picked(s, P), c) \in Seq(V) /\ Len(Append(Picked(s, P), c)) = N + 1
       /\ \A n \in 1 .. N : Append(Picked(s, P), c)[n] = Picked(s, P)[n]
       /\ Append(Picked(s, P), c)[N + 1] = c
  BY <1>3, AppendProperties
<1>11. \A n \in 1 .. N + 1 : Picked(t, Q)[n] = Append(Picked(s, P), c)[n]
  <2> SUFFICES ASSUME NEW n \in 1 .. N + 1
               PROVE  Picked(t, Q)[n] = Append(Picked(s, P), c)[n]
    OBVIOUS
  <2>1. n = N + 1 \/ n \in 1 .. N
    OBVIOUS
  <2>2. CASE n = N + 1
    BY <1>1, <1>8, <1>9, <1>10, <2>2
  <2>3. CASE n \in 1 .. N
    <3>1. Picked(t, Q)[n] = t[Ups(P)[n]]
      BY <1>8, <1>9, <2>3
    <3> QED
      BY <1>3, <1>5, <1>10, <2>3, <3>1
  <2> QED
    BY <2>1, <2>2, <2>3
<1>12. Picked(t, Q) = Append(Picked(s, P), c)
  BY <1>8, <1>10, <1>11, SeqEqual
<1> QED
  BY <1>0, <1>12 DEF t, Q

-----------------------------------------------------------------------------
(* What of a line getargs() takes for a character of a word or a blank,    *)
(* where the words start in that, where the one from i on ends, and the    *)
(* words themselves.                                                       *)
Visible(s) == Picked(s, {i \in DOMAIN s : s[i] # "x"})
Starts(t) == {i \in DOMAIN t : t[i] # " " /\ (i = 1 \/ t[i - 1] = " ")}
EndOf(t, i) == Max({j \in i .. Len(t) : \A k \in i .. j : t[k] # " "})
Split(t) == [n \in DOMAIN Ups(Starts(t)) |->
               SubSeq(t, Ups(Starts(t))[n], EndOf(t, Ups(Starts(t))[n]))]

(* The words that a line means, by these names.                            *)
LEMMA MeantIsSplit == ASSUME NEW s PROVE WordsMeant(s) = Split(Visible(s))
  BY DEF WordsMeant, Seen, Split, Visible, Starts, EndOf

(* A character that is printable or a blank comes last.                    *)
LEMMA VisibleGrows ==
  ASSUME NEW s \in Seq(Char), NEW c \in Char
  PROVE  /\ Visible(s) \in Seq(Char)
         /\ Visible(Append(s, c)) = IF c = "x" THEN Visible(s) ELSE Append(Visible(s), c)
<1> DEFINE P == {i \in DOMAIN s : s[i] # "x"}
           t == Append(s, c)
           Q == {i \in DOMAIN t : t[i] # "x"}
<1> PICK m \in Nat : m = Len(s)
  BY LenProperties
<1> PICK next \in Nat : next = m + 1
  OBVIOUS
<1>1. t \in Seq(Char) /\ Len(t) = next /\ (\A i \in 1 .. m : t[i] = s[i]) /\ t[next] = c
  BY AppendProperties
<1>2. DOMAIN s = 1 .. m /\ DOMAIN t = 1 .. next
  BY <1>1, LenProperties
<1>3. P \in SUBSET (1 .. Len(s))
  BY <1>2
<1>4. 1 .. next = (1 .. m) \cup {next} /\ next \notin 1 .. m
  OBVIOUS
<1>5. Q = IF c = "x" THEN P ELSE P \cup {next}
  <2>1. ASSUME NEW i \in 1 .. next
        PROVE  t[i] # "x" <=> (i \in 1 .. m /\ s[i] # "x") \/ (i = next /\ c # "x")
    BY <1>1, <1>4, Zenon
  <2> QED
    BY <1>2, <1>4, <2>1, Zenon
<1>6. Visible(s) = Picked(s, P) /\ Visible(t) = Picked(t, Q)
  BY DEF Visible
<1> HIDE DEF P, Q
<1>7. Picked(s, P) \in Seq(Char)
  BY <1>3, PickedFacts
<1>8. /\ Picked(t, P) = Picked(s, P)
      /\ Picked(t, P \cup {next}) = Append(Picked(s, P), c)
  <2>1. PICK R \in SUBSET (1 .. Len(s)) : R = P
    BY <1>3
  <2>2. Picked(t, R) = Picked(s, R)
    BY PickedSame
  <2>3. Picked(t, R \cup {next}) = Append(Picked(s, R), c)
    BY PickedGrows
  <2> QED
    BY <2>1, <2>2, <2>3
<1> QED
  BY <1>5, <1>6, <1>7, <1>8, Zenon

(* A set of numbers up to n has a greatest one.                            *)
LEMMA MaxFacts ==
  ASSUME NEW n \in Nat, NEW T, T \subseteq 0 .. n, T # {}
  PROVE  Max(T) \in T /\ \A x \in T : x <= Max(T)
<1> DEFINE D == {k \in 0 .. n : n - k \in T}
<1>1. D \subseteq Nat /\ D # {}
  <2>0. D \subseteq Nat
    OBVIOUS
  <2>1. PICK x \in T : TRUE
    OBVIOUS
  <2>2. x \in 0 .. n
    OBVIOUS
  <2>3. n - (n - x) = x /\ n - x \in 0 .. n
    BY <2>2
  <2>4. n - x \in D
    BY <2>3
  <2> QED
    BY <2>0, <2>4
<1>2. PICK k \in D : \A j \in D : k <= j
  BY <1>1, LeastNatural
<1>3. k \in 0 .. n /\ n - k \in T
  OBVIOUS
<1>4. \A x \in T : n - k >= x
  <2> SUFFICES ASSUME NEW x \in T PROVE n - k >= x
    OBVIOUS
  <2>1. x \in 0 .. n /\ n - (n - x) = x /\ n - x \in 0 .. n
    OBVIOUS
  <2>2. n - x \in D
    BY <2>1
  <2>3. k <= n - x
    BY <1>2, <2>2
  <2> QED
    BY <1>3, <2>1, <2>3
<1>5. Max(T) \in T /\ \A x \in T : Max(T) >= x
  BY <1>3, <1>4 DEF Max
<1>6. \A x \in T : x \in Nat
  OBVIOUS
<1> QED
  BY <1>5, <1>6

(* A text of m characters; no blank from i to e, and the run of characters *)
(* ends there.                                                             *)
Text(t, m) == t \in Seq(Char) /\ Len(t) = m
Blank(t, k) == t[k] = " "
Solid(t, i, e) == \A k \in i .. e : ~Blank(t, k)
RunEnds(t, m, i, e) == /\ e \in i .. m /\ Solid(t, i, e)
                       /\ e = m \/ Blank(t, e + 1)

LEMMA TextFacts ==
  ASSUME NEW t, NEW m \in Nat, Text(t, m)
  PROVE  DOMAIN t = 1 .. m /\ \A i \in 1 .. m : t[i] \in Char
  BY LenProperties, ElementOfSeq DEF Text

(* EndOf() finds the end of the run, and there is only one.                *)
LEMMA EndIs ==
  ASSUME NEW t, NEW m \in Nat, Text(t, m), NEW i \in 1 .. m, ~Blank(t, i)
  PROVE  RunEnds(t, m, i, EndOf(t, i))
<1> DEFINE J == {j \in i .. m : Solid(t, i, j)}
<1>0. i \in 1 .. m
  OBVIOUS
<1>1. i \in J
  <2>1. \A k \in i .. i : k = i
    BY <1>0
  <2>2. i \in i .. m
    BY <1>0
  <2> QED
    BY <2>1, <2>2 DEF Solid
<1>2. J \subseteq 0 .. m
  BY <1>0
<1> PICK e : e = Max(J)
  OBVIOUS
<1>3. e \in J /\ \A j \in J : j <= e
  BY <1>1, <1>2, MaxFacts
<1>4. e = EndOf(t, i)
  BY DEF EndOf, Solid, Text, Blank
<1>5. e = m \/ Blank(t, e + 1)
  <2> SUFFICES ASSUME e # m, ~Blank(t, e + 1) PROVE FALSE
    OBVIOUS
  <2>1. e \in i .. m
    BY <1>3
  <2>2. e + 1 \in i .. m /\ \A k \in i .. e + 1 : k \in i .. e \/ k = e + 1
    BY <1>0, <2>1
  <2>3. Solid(t, i, e)
    BY <1>3
  <2>4. Solid(t, i, e + 1)
    BY <2>2, <2>3 DEF Solid
  <2>5. e + 1 <= e
    BY <1>3, <2>2, <2>4
  <2> QED
    BY <1>0, <2>1, <2>5
<1> QED
  BY <1>3, <1>4, <1>5 DEF RunEnds

LEMMA EndOnly ==
  ASSUME NEW t, NEW m \in Nat, Text(t, m), NEW i \in 1 .. m, NEW e, RunEnds(t, m, i, e)
  PROVE  e = EndOf(t, i)
<1>0. /\ i \in 1 .. m /\ e \in i .. m /\ Solid(t, i, e) /\ (e = m \/ Blank(t, e + 1))
  BY DEF RunEnds
<1>1. ~Blank(t, i)
  <2>1. i \in i .. e
    BY <1>0
  <2> QED
    BY <1>0, <2>1 DEF Solid
<1> PICK f : f = EndOf(t, i)
  OBVIOUS
<1>2. /\ f \in i .. m /\ Solid(t, i, f) /\ (f = m \/ Blank(t, f + 1))
  BY <1>1, EndIs DEF RunEnds
<1>3. ~(e < f)
  <2> SUFFICES ASSUME e < f PROVE FALSE
    OBVIOUS
  <2>0. i \in Nat /\ e \in Nat /\ f \in Nat /\ i <= e /\ f <= m
    BY <1>0, <1>2
  <2>1. e # m /\ e + 1 \in i .. f
    BY <2>0
  <2> QED
    BY <1>0, <1>2, <2>1 DEF Solid
<1>4. ~(f < e)
  <2> SUFFICES ASSUME f < e PROVE FALSE
    OBVIOUS
  <2>0. i \in Nat /\ e \in Nat /\ f \in Nat /\ i <= f /\ e <= m
    BY <1>0, <1>2
  <2>1. f # m /\ f + 1 \in i .. e
    BY <2>0
  <2> QED
    BY <1>0, <1>2, <2>1 DEF Solid
<1>5. e \in Nat /\ f \in Nat
  BY <1>0, <1>2
<1> PICK g : g = EndOf(t, i) /\ g = f
  OBVIOUS
<1>6. e = f
  BY <1>3, <1>4, <1>5
<1> QED
  BY <1>6

(* The words of a line, one for each start.                                *)
LEMMA SplitFacts ==
  ASSUME NEW t, NEW m \in Nat, Text(t, m)
  PROVE  /\ Starts(t) \in SUBSET (1 .. m) /\ Starts(t) \in SUBSET Nat
         /\ IsFiniteSet(Starts(t)) /\ Cardinality(Starts(t)) \in Nat
         /\ Split(t) \in Seq(Seq(Char)) /\ Len(Split(t)) = Cardinality(Starts(t))
         /\ \A n \in 1 .. Cardinality(Starts(t)) :
              /\ Ups(Starts(t))[n] \in Starts(t)
              /\ Split(t)[n] = SubSeq(t, Ups(Starts(t))[n], EndOf(t, Ups(Starts(t))[n]))
<1>1. DOMAIN t = 1 .. m /\ \A i \in 1 .. m : t[i] \in Char
  BY TextFacts
<1> DEFINE S == Starts(t)
           N == Cardinality(S)
           Piece(i) == SubSeq(t, i, EndOf(t, i))
<1>2. S \in SUBSET (1 .. m) /\ \A i \in S : ~Blank(t, i)
  BY <1>1 DEF Starts, Blank
<1> HIDE DEF S
<1>3. S \in SUBSET Nat
  BY <1>2
<1>4. IsFiniteSet(S)
  <2>1. IsFiniteSet(1 .. m)
    BY FS_Interval
  <2> QED
    BY <1>2, <2>1, FS_Subset
<1>5. /\ Ups(S) \in Seq(S) /\ Len(Ups(S)) = N /\ N \in Nat
      /\ \A n \in 1 .. N : Ups(S)[n] \in S
  BY <1>3, <1>4, UpsFacts
<1>6. DOMAIN Ups(S) = 1 .. N
  BY <1>5, LenProperties
<1>7. Split(t) = [n \in 1 .. N |-> Piece(Ups(S)[n])]
  BY <1>6 DEF Split, S
<1>8. \A i \in S : Piece(i) \in Seq(Char)
  <2> SUFFICES ASSUME NEW i \in S PROVE Piece(i) \in Seq(Char)
    OBVIOUS
  <2> PICK e : e = EndOf(t, i)
    OBVIOUS
  <2>1. i \in 1 .. m /\ ~Blank(t, i)
    BY <1>2
  <2>2. e \in i .. m
    BY <2>1, EndIs DEF RunEnds
  <2> HIDE DEF S
  <2>3. i \in Int /\ e \in Int /\ \A k \in i .. e : k \in 1 .. m
    BY <2>1, <2>2
  <2>4. SubSeq(t, i, e) \in Seq(Char)
    BY <1>1, <2>3, SubSeqProperties
  <2> QED
    BY <2>4
<1> HIDE DEF Piece
<1>9. Split(t) \in [1 .. N -> Seq(Char)]
  BY <1>5, <1>7, <1>8
<1>10. Split(t) \in Seq(Seq(Char)) /\ Len(Split(t)) = N
  <2> HIDE DEF N
  <2> QED
    BY <1>5, <1>9
<1> QED
  BY <1>2, <1>3, <1>4, <1>5, <1>7, <1>10 DEF Piece, S

-----------------------------------------------------------------------------
Space(c) == c = " "

(* A text with one more character.                                         *)
LEMMA OneMore ==
  ASSUME NEW t, NEW m \in Nat, Text(t, m), NEW c \in Char
  PROVE  /\ Text(Append(t, c), m + 1)
         /\ \A k \in 1 .. m : Append(t, c)[k] = t[k]
         /\ Append(t, c)[m + 1] = c
         /\ \A k \in 1 .. m : Blank(Append(t, c), k) <=> Blank(t, k)
         /\ Blank(Append(t, c), m + 1) <=> Space(c)
<1>u. PICK u : u = Append(t, c)
  OBVIOUS
<1>1. u \in Seq(Char) /\ Len(u) = m + 1 /\ (\A k \in 1 .. m : u[k] = t[k]) /\ u[m + 1] = c
  BY <1>u, AppendProperties DEF Text
<1>2. \A k \in 1 .. m : Blank(u, k) <=> Blank(t, k)
  BY <1>1, Zenon DEF Blank
<1>3. Blank(u, m + 1) <=> Space(c)
  BY <1>1, Zenon DEF Blank, Space
<1> QED
  BY <1>u, <1>1, <1>2, <1>3, Zenon DEF Text

(* A word starts at a character that is no blank, after one that is or     *)
(* none.                                                                   *)
LEMMA StartsAre ==
  ASSUME NEW t, NEW m \in Nat, Text(t, m)
  PROVE  Starts(t) = {i \in 1 .. m : ~Blank(t, i) /\ (i = 1 \/ Blank(t, i - 1))}
  BY TextFacts, Zenon DEF Starts, Blank

(* The text ends within a word.                                            *)
Open(t, m) == m # 0 /\ ~Blank(t, m)

LEMMA StartsGrow ==
  ASSUME NEW t, NEW m \in Nat, Text(t, m), NEW c \in Char
  PROVE  Starts(Append(t, c)) =
           IF Space(c) \/ Open(t, m) THEN Starts(t) ELSE Starts(t) \cup {m + 1}
<1>u. PICK u : u = Append(t, c)
  OBVIOUS
<1>1. /\ Text(u, m + 1)
      /\ \A k \in 1 .. m : Blank(u, k) <=> Blank(t, k)
      /\ Blank(u, m + 1) <=> Space(c)
  BY <1>u, OneMore
<1> DEFINE A(i) == ~Blank(t, i) /\ (i = 1 \/ Blank(t, i - 1))
           B(i) == ~Blank(u, i) /\ (i = 1 \/ Blank(u, i - 1))
<1>2. ASSUME NEW i \in 1 .. m PROVE A(i) <=> B(i)
  <2>1. i = 1 \/ i - 1 \in 1 .. m
    OBVIOUS
  <2> QED
    BY <1>1, <2>1
<1>3. B(m + 1) <=> ~(Space(c) \/ Open(t, m))
  <2>0. m + 1 - 1 = m /\ (m + 1 = 1 <=> m = 0) /\ (m # 0 => m \in 1 .. m)
    OBVIOUS
  <2>1. m # 0 => (Blank(u, m) <=> Blank(t, m))
    BY <1>1, <2>0
  <2>2. B(m + 1) <=> ~Blank(u, m + 1) /\ (m = 0 \/ Blank(u, m))
    BY <2>0
  <2> QED
    BY <1>1, <2>1, <2>2, Zenon DEF Open
<1>4. 1 .. m + 1 = (1 .. m) \cup {m + 1}
  OBVIOUS
<1>5. Starts(t) = {i \in 1 .. m : A(i)} /\ Starts(u) = {i \in 1 .. m + 1 : B(i)}
  <2>1. Starts(t) = {i \in 1 .. m : A(i)}
    BY StartsAre
  <2>2. Starts(u) = {i \in 1 .. m + 1 : B(i)}
    <3>1. m + 1 \in Nat
      OBVIOUS
    <3> QED
      BY <1>1, <3>1, StartsAre
  <2> QED
    BY <2>1, <2>2
<1> HIDE DEF A, B
<1>6. CASE Space(c) \/ Open(t, m)
  BY <1>u, <1>2, <1>3, <1>4, <1>5, <1>6, Zenon
<1>7. CASE ~(Space(c) \/ Open(t, m))
  BY <1>u, <1>2, <1>3, <1>4, <1>5, <1>7, Zenon
<1> QED
  BY <1>u, <1>6, <1>7

(* A word that ends before the end stays as it is.  One that reaches it is *)
(* longer with a character that is no blank.                               *)
LEMMA EndStays ==
  ASSUME NEW t, NEW m \in Nat, Text(t, m), NEW c \in Char,
         NEW i \in 1 .. m, ~Blank(t, i), EndOf(t, i) # m \/ Space(c)
  PROVE  EndOf(Append(t, c), i) = EndOf(t, i)
<1>u. PICK u : u = Append(t, c)
  OBVIOUS
<1>e. PICK e : e = EndOf(t, i)
  OBVIOUS
<1>1. /\ Text(u, m + 1)
      /\ \A k \in 1 .. m : Blank(u, k) <=> Blank(t, k)
      /\ Blank(u, m + 1) <=> Space(c)
  BY <1>u, OneMore
<1>2. e \in i .. m /\ Solid(t, i, e) /\ (e = m \/ Blank(t, e + 1))
  BY <1>e, EndIs DEF RunEnds
<1>3. e \in i .. m + 1 /\ i \in 1 .. m + 1 /\ (\A k \in i .. e : k \in 1 .. m)
      /\ (e # m => e + 1 \in 1 .. m) /\ m + 1 \in Nat
  <2>1. e \in i .. m
    BY <1>2
  <2> QED
    BY <2>1
<1>4. Solid(u, i, e)
  BY <1>1, <1>2, <1>3, Zenon DEF Solid
<1>5. Blank(u, e + 1)
  <2>1. CASE e = m
    BY <1>e, <1>1, <2>1
  <2>2. CASE e # m
    BY <1>1, <1>2, <1>3, <2>2, Zenon
  <2> QED
    BY <2>1, <2>2
<1>6. RunEnds(u, m + 1, i, e)
  BY <1>3, <1>4, <1>5, Zenon DEF RunEnds
<1>7. e = EndOf(u, i)
  BY <1>1, <1>3, <1>6, EndOnly
<1> QED
  BY <1>u, <1>e, <1>7

(* The end of the last word moves with it.                                 *)
LEMMA EndMoves ==
  ASSUME NEW t, NEW m \in Nat, Text(t, m), NEW c \in Char, ~Space(c),
         NEW i \in 1 .. m + 1, Solid(t, i, m)
  PROVE  EndOf(Append(t, c), i) = m + 1
<1>u. PICK u : u = Append(t, c)
  OBVIOUS
<1>1. /\ Text(u, m + 1)
      /\ \A k \in 1 .. m : Blank(u, k) <=> Blank(t, k)
      /\ Blank(u, m + 1) <=> Space(c)
  BY <1>u, OneMore
<1>2. /\ m + 1 \in i .. m + 1 /\ m + 1 \in Nat
      /\ \A k \in i .. m + 1 : k = m + 1 \/ (k \in 1 .. m /\ k \in i .. m)
  OBVIOUS
<1>3. Solid(u, i, m + 1)
  BY <1>1, <1>2, Zenon DEF Solid
<1>4. RunEnds(u, m + 1, i, m + 1)
  BY <1>2, <1>3, Zenon DEF RunEnds
<1>5. m + 1 = EndOf(u, i)
  BY <1>1, <1>2, <1>4, EndOnly
<1> QED
  BY <1>u, <1>5

(* What is cut out of the text before the new character, and up to it.     *)
LEMMA PieceStays ==
  ASSUME NEW t, NEW m \in Nat, Text(t, m), NEW c \in Char,
         NEW i \in 1 .. m, NEW e \in i .. m
  PROVE  SubSeq(Append(t, c), i, e) = SubSeq(t, i, e)
<1>u. PICK u : u = Append(t, c)
  OBVIOUS
<1>1. \A k \in 1 .. m : u[k] = t[k] /\ t[k] \in Char
  BY <1>u, OneMore, TextFacts
<1>2. (\A k \in i .. e : k \in 1 .. m) /\ i \in Int /\ e \in Int /\ e - i + 1 \in Nat
      /\ i <= e /\ \A k \in 1 .. e - i + 1 : i + k - 1 \in 1 .. m
  OBVIOUS
<1>3. /\ SubSeq(u, i, e) \in Seq(Char) /\ Len(SubSeq(u, i, e)) = e - i + 1
      /\ \A k \in 1 .. e - i + 1 : SubSeq(u, i, e)[k] = u[i + k - 1]
  BY <1>1, <1>2, SubSeqProperties
<1>4. /\ SubSeq(t, i, e) \in Seq(Char) /\ Len(SubSeq(t, i, e)) = e - i + 1
      /\ \A k \in 1 .. e - i + 1 : SubSeq(t, i, e)[k] = t[i + k - 1]
  BY <1>1, <1>2, SubSeqProperties
<1>5. \A k \in 1 .. e - i + 1 : SubSeq(u, i, e)[k] = SubSeq(t, i, e)[k]
  BY <1>1, <1>2, <1>3, <1>4, Zenon
<1>6. SubSeq(u, i, e) = SubSeq(t, i, e)
  BY <1>3, <1>4, <1>5, SeqEqual
<1> QED
  BY <1>u, <1>6

LEMMA PieceMoves ==
  ASSUME NEW t, NEW m \in Nat, Text(t, m), NEW c \in Char, NEW i \in 1 .. m + 1
  PROVE  SubSeq(Append(t, c), i, m + 1) = Append(SubSeq(t, i, m), c)
<1>u. PICK u : u = Append(t, c)
  OBVIOUS
<1> DEFINE n == m - i + 1
           a == SubSeq(t, i, m)
           b == SubSeq(u, i, m + 1)
<1>1. (\A k \in 1 .. m : u[k] = t[k] /\ t[k] \in Char) /\ u[m + 1] = c
  BY <1>u, OneMore, TextFacts
<1>2. /\ \A k \in i .. m : k \in 1 .. m
      /\ \A k \in i .. m + 1 : k \in 1 .. m \/ k = m + 1
      /\ i \in Int /\ m \in Int /\ m + 1 \in Int /\ n \in Nat
      /\ \A k \in 1 .. n : i + k - 1 \in 1 .. m
      /\ i + (n + 1) - 1 = m + 1
      /\ (IF i <= m THEN m - i + 1 ELSE 0) = n
      /\ (IF i <= m + 1 THEN m + 1 - i + 1 ELSE 0) = n + 1 /\ m + 1 - i + 1 = n + 1
      /\ \A k \in 1 .. n + 1 : k \in 1 .. n \/ k = n + 1
  OBVIOUS
<1>3. \A k \in i .. m + 1 : u[k] \in Char
  BY <1>1, <1>2
<1>4. /\ a \in Seq(Char) /\ Len(a) = n
      /\ \A k \in 1 .. n : a[k] = t[i + k - 1]
  <2>1. /\ a \in Seq(Char) /\ Len(a) = IF i <= m THEN m - i + 1 ELSE 0
        /\ \A k \in 1 .. m - i + 1 : a[k] = t[i + k - 1]
    BY <1>1, <1>2, SubSeqProperties
  <2> QED
    BY <1>2, <2>1
<1>5. /\ b \in Seq(Char) /\ Len(b) = n + 1
      /\ \A k \in 1 .. n + 1 : b[k] = u[i + k - 1]
  <2>1. /\ b \in Seq(Char) /\ Len(b) = IF i <= m + 1 THEN m + 1 - i + 1 ELSE 0
        /\ \A k \in 1 .. m + 1 - i + 1 : b[k] = u[i + k - 1]
    BY <1>2, <1>3, SubSeqProperties
  <2> QED
    BY <1>2, <2>1
<1> HIDE DEF a, b, n
<1>6. /\ Append(a, c) \in Seq(Char) /\ Len(Append(a, c)) = n + 1
      /\ (\A k \in 1 .. n : Append(a, c)[k] = a[k]) /\ Append(a, c)[n + 1] = c
  BY <1>4, AppendProperties
<1>7. \A k \in 1 .. n + 1 : b[k] = Append(a, c)[k]
  <2>1. n + 1 \in 1 .. n + 1 /\ \A k \in 1 .. n : k \in 1 .. n + 1
    BY <1>2
  <2>2. \A k \in 1 .. n : b[k] = Append(a, c)[k]
    BY <1>1, <1>2, <1>4, <1>5, <1>6, <2>1, Zenon
  <2>3. b[n + 1] = Append(a, c)[n + 1]
    BY <1>1, <1>2, <1>5, <1>6, <2>1, Zenon
  <2> QED
    BY <1>2, <2>2, <2>3, Zenon
<1>8. b = Append(a, c)
  BY <1>5, <1>6, <1>7, SeqEqual
<1> QED
  BY <1>u, <1>8 DEF a, b

(* What a character does to the words before it: a blank nothing, another  *)
(* one makes a new word of one character, or the last word longer.         *)
Piece(t, i) == SubSeq(t, i, EndOf(t, i))

(* From a start to its end there is no blank.                              *)
LEMMA StartFacts ==
  ASSUME NEW t, NEW m \in Nat, Text(t, m), NEW i \in Starts(t)
  PROVE  /\ i \in 1 .. m /\ ~Blank(t, i)
         /\ EndOf(t, i) \in i .. m /\ Solid(t, i, EndOf(t, i))
<1>1. i \in 1 .. m /\ ~Blank(t, i)
  BY StartsAre
<1>2. RunEnds(t, m, i, EndOf(t, i))
  BY <1>1, EndIs
<1> QED
  BY <1>1, <1>2, Zenon DEF RunEnds

LEMMA WordStays ==
  ASSUME NEW t, NEW m \in Nat, Text(t, m), NEW c \in Char, NEW i \in Starts(t),
         EndOf(t, i) # m \/ Space(c)
  PROVE  Piece(Append(t, c), i) = Piece(t, i)
<1>1. i \in 1 .. m /\ ~Blank(t, i) /\ EndOf(t, i) \in i .. m
  BY StartFacts
<1>2. EndOf(Append(t, c), i) = EndOf(t, i)
  BY <1>1, EndStays
<1>e. PICK e : e = EndOf(t, i)
  OBVIOUS
<1>3. e \in i .. m
  BY <1>1, <1>e
<1>4. SubSeq(Append(t, c), i, e) = SubSeq(t, i, e)
  BY <1>1, <1>3, PieceStays
<1> QED
  BY <1>2, <1>4, <1>e, Zenon DEF Piece

(* The words, in the order of their starts.                                *)
LEMMA SplitIs ==
  ASSUME NEW t, NEW m \in Nat, Text(t, m), NEW S, S = Starts(t),
         NEW N, N = Cardinality(S)
  PROVE  /\ S \in SUBSET (1 .. m) /\ S \in SUBSET Nat /\ IsFiniteSet(S) /\ N \in Nat
         /\ Split(t) \in Seq(Seq(Char)) /\ Len(Split(t)) = N
         /\ \A n \in 1 .. N : Ups(S)[n] \in S /\ Split(t)[n] = Piece(t, Ups(S)[n])
  BY SplitFacts, Zenon DEF Piece

LEMMA SplitBlank ==
  ASSUME NEW t, NEW m \in Nat, Text(t, m), NEW c \in Char, Space(c)
  PROVE  Split(Append(t, c)) = Split(t)
<1>u. PICK u : u = Append(t, c)
  OBVIOUS
<1>1. Text(u, m + 1) /\ m + 1 \in Nat
  BY <1>u, OneMore
<1>S. PICK S : S = Starts(t)
  OBVIOUS
<1>N. PICK N : N = Cardinality(S)
  OBVIOUS
<1>2. S = Starts(u)
  BY <1>u, <1>S, StartsGrow
<1>3. /\ Split(t) \in Seq(Seq(Char)) /\ Len(Split(t)) = N /\ N \in Nat
      /\ \A n \in 1 .. N : Ups(S)[n] \in S /\ Split(t)[n] = Piece(t, Ups(S)[n])
  BY <1>S, <1>N, SplitIs
<1>4. /\ Split(u) \in Seq(Seq(Char)) /\ Len(Split(u)) = N
      /\ \A n \in 1 .. N : Split(u)[n] = Piece(u, Ups(S)[n])
  BY <1>1, <1>2, <1>N, SplitIs
<1>5. \A i \in S : Piece(u, i) = Piece(t, i)
  BY <1>u, <1>S, WordStays
<1>6. \A n \in 1 .. N : Split(u)[n] = Split(t)[n]
  BY <1>3, <1>4, <1>5, Zenon
<1>7. Split(u) = Split(t)
  BY <1>3, <1>4, <1>6, SeqEqual
<1> QED
  BY <1>7, <1>u

LEMMA SplitNew ==
  ASSUME NEW t, NEW m \in Nat, Text(t, m), NEW c \in Char, ~Space(c), ~Open(t, m)
  PROVE  Split(Append(t, c)) = Append(Split(t), Append(<<>>, c))
<1>u. PICK u : u = Append(t, c)
  OBVIOUS
<1>m. PICK next \in Nat : next = m + 1
  OBVIOUS
<1>1. Text(u, next)
  BY <1>u, <1>m, OneMore
<1>S. PICK S : S = Starts(t)
  OBVIOUS
<1>N. PICK N : N = Cardinality(S)
  OBVIOUS
<1>2. S \cup {next} = Starts(u)
  BY <1>u, <1>m, <1>S, StartsGrow
<1>3. /\ Split(t) \in Seq(Seq(Char)) /\ Len(Split(t)) = N /\ N \in Nat
      /\ \A n \in 1 .. N : Ups(S)[n] \in S /\ Split(t)[n] = Piece(t, Ups(S)[n])
      /\ S \in SUBSET (1 .. m) /\ S \in SUBSET Nat /\ IsFiniteSet(S)
  BY <1>S, <1>N, SplitIs
<1>4. Cardinality(S \cup {next}) = N + 1 /\ Ups(S \cup {next}) = Append(Ups(S), next)
  <2>1. \A i \in S : i < next
    BY <1>m, <1>3
  <2> QED
    BY <1>3, <1>N, <2>1, UpsAppend
<1>5. /\ \A n \in 1 .. N : Ups(S \cup {next})[n] = Ups(S)[n]
      /\ Ups(S \cup {next})[N + 1] = next
  <2>1. Ups(S) \in Seq(S) /\ Len(Ups(S)) = N
    BY <1>3, <1>N, UpsFacts
  <2>2. Ups(S) \in Seq(Nat)
    BY <1>3, <2>1, SeqMonotonic
  <2>3. /\ \A n \in 1 .. N : Append(Ups(S), next)[n] = Ups(S)[n]
        /\ Append(Ups(S), next)[N + 1] = next
    BY <2>1, <2>2, AppendProperties
  <2> QED
    BY <1>4, <2>3, Zenon
<1>6. /\ Split(u) \in Seq(Seq(Char)) /\ Len(Split(u)) = N + 1
      /\ \A n \in 1 .. N + 1 : Split(u)[n] = Piece(u, Ups(S \cup {next})[n])
  <2>1. PICK T : T = S \cup {next}
    OBVIOUS
  <2>2. PICK M : M = N + 1 /\ M = Cardinality(T)
    BY <1>4, <2>1
  <2>4. T = Starts(u) /\ M = Cardinality(T)
    BY <1>2, <2>1, <2>2, Zenon
  <2>3. /\ Split(u) \in Seq(Seq(Char)) /\ Len(Split(u)) = M
        /\ \A n \in 1 .. M : Split(u)[n] = Piece(u, Ups(T)[n])
    BY <1>1, <2>4, SplitIs
  <2> QED
    BY <2>1, <2>2, <2>3, Zenon
<1>7. \A i \in S : Piece(u, i) = Piece(t, i)
  <2> SUFFICES ASSUME NEW i \in S PROVE Piece(u, i) = Piece(t, i)
    OBVIOUS
  <2>1. i \in 1 .. m /\ EndOf(t, i) \in i .. m /\ Solid(t, i, EndOf(t, i))
    BY <1>S, StartFacts
  <2>2. m # 0 /\ m \in i .. m
    BY <2>1
  <2>3. Blank(t, m)
    BY <2>2 DEF Open
  <2>4. EndOf(t, i) # m
    BY <2>1, <2>2, <2>3, Zenon DEF Solid
  <2> QED
    BY <1>u, <1>S, <2>4, WordStays
<1>8. Piece(u, next) = Append(<<>>, c)
  <2>1. next \in 1 .. m + 1 /\ next \in Int /\ m \in Int /\ m < next
        /\ \A k \in next .. m : FALSE
    BY <1>m
  <2>2. Solid(t, next, m)
    BY <2>1 DEF Solid
  <2>3. EndOf(u, next) = m + 1
    BY <1>u, <2>1, <2>2, EndMoves
  <2>4. SubSeq(u, next, m + 1) = Append(SubSeq(t, next, m), c)
    BY <1>u, <2>1, PieceMoves
  <2>5. SubSeq(t, next, m) = <<>>
    BY <2>1, SubSeqEmpty
  <2> QED
    BY <2>3, <2>4, <2>5, Zenon DEF Piece
<1>9. Append(<<>>, c) \in Seq(Char)
  OBVIOUS
<1>w. PICK w : w = Append(<<>>, c)
  OBVIOUS
<1>10. /\ Append(Split(t), w) \in Seq(Seq(Char))
       /\ Len(Append(Split(t), w)) = N + 1
       /\ \A n \in 1 .. N : Append(Split(t), w)[n] = Split(t)[n]
       /\ Append(Split(t), w)[N + 1] = w
  <2>1. w \in Seq(Char)
    BY <1>9, <1>w
  <2> QED
    BY <1>3, <2>1, AppendProperties
<1>11. /\ \A n \in 1 .. N + 1 : n \in 1 .. N \/ n = N + 1
       /\ \A n \in 1 .. N : n \in 1 .. N + 1
       /\ N + 1 \in 1 .. N + 1
  BY <1>3
<1>12. \A n \in 1 .. N : Split(u)[n] = Append(Split(t), w)[n]
  <2> SUFFICES ASSUME NEW n \in 1 .. N PROVE Split(u)[n] = Append(Split(t), w)[n]
    OBVIOUS
  <2> QED
    BY <1>3, <1>5, <1>6, <1>7, <1>10, <1>11, Zenon
<1>13. Split(u)[N + 1] = Append(Split(t), w)[N + 1]
  BY <1>5, <1>6, <1>8, <1>10, <1>11, <1>w, Zenon
<1>14. \A n \in 1 .. N + 1 : Split(u)[n] = Append(Split(t), w)[n]
  BY <1>11, <1>12, <1>13, Zenon
<1>15. Split(u) = Append(Split(t), w)
  BY <1>6, <1>10, <1>14, SeqEqual
<1> QED
  BY <1>15, <1>u, <1>w

(* In a text that ends within a word, this word is the last one.           *)
LEMMA LastStart ==
  ASSUME NEW t, NEW m \in Nat, Text(t, m), Open(t, m)
  PROVE  \E p \in Starts(t) :
           /\ Solid(t, p, m) /\ EndOf(t, p) = m
           /\ \A i \in Starts(t) : i <= p /\ (i # p => EndOf(t, i) # m)
<1>0. m \in 1 .. m /\ ~Blank(t, m) /\ m # 0
  BY DEF Open
<1> DEFINE T == {p \in 1 .. m : Solid(t, p, m)}
<1>1. m \in T
  <2>1. \A k \in m .. m : k = m
    OBVIOUS
  <2> QED
    BY <1>0, <2>1, Zenon DEF Solid
<1>2. T \subseteq Nat
  OBVIOUS
<1>3. PICK p \in T : \A q \in T : p <= q
  BY <1>1, <1>2, LeastNatural
<1>4. p \in 1 .. m /\ Solid(t, p, m)
  OBVIOUS
<1> HIDE DEF T
<1>5. p \in p .. m /\ m \in p .. m
  BY <1>4
<1>6. ~Blank(t, p)
  BY <1>4, <1>5, Zenon DEF Solid
<1>7. p = 1 \/ Blank(t, p - 1)
  <2> SUFFICES ASSUME p # 1, ~Blank(t, p - 1) PROVE FALSE
    OBVIOUS
  <2>1. /\ p - 1 \in 1 .. m /\ ~(p <= p - 1)
        /\ \A k \in p - 1 .. m : k = p - 1 \/ k \in p .. m
    BY <1>4
  <2>2. Solid(t, p - 1, m)
    BY <1>4, <2>1, Zenon DEF Solid
  <2>3. p - 1 \in T
    BY <2>1, <2>2 DEF T
  <2> QED
    BY <1>3, <2>1, <2>3
<1>8. p \in Starts(t)
  BY <1>4, <1>6, <1>7, StartsAre
<1>9. EndOf(t, p) = m
  <2>1. RunEnds(t, m, p, m)
    BY <1>4, <1>5, Zenon DEF RunEnds
  <2> QED
    BY <1>4, <2>1, EndOnly
<1>10. ASSUME NEW i \in Starts(t) PROVE i <= p /\ (i # p => EndOf(t, i) # m)
  <2>1. i \in 1 .. m /\ (i = 1 \/ Blank(t, i - 1))
    BY StartsAre
  <2>2. ~(p < i)
    <3> SUFFICES ASSUME p < i PROVE FALSE
      OBVIOUS
    <3>1. i # 1 /\ i - 1 \in p .. m
      BY <1>4, <2>1
    <3> QED
      BY <1>4, <2>1, <3>1, Zenon DEF Solid
  <2>3. i <= p
    BY <1>4, <2>1, <2>2
  <2>4. ASSUME i # p, EndOf(t, i) = m PROVE FALSE
    <3>1. Solid(t, i, m)
      BY <2>4, StartFacts
    <3>2. p # 1 /\ p - 1 \in i .. m
      BY <1>4, <2>1, <2>3, <2>4
    <3> QED
      BY <1>7, <3>1, <3>2, Zenon DEF Solid
  <2> QED
    BY <2>3, <2>4
<1> QED
  BY <1>4, <1>8, <1>9, <1>10

LEMMA SplitLonger ==
  ASSUME NEW t, NEW m \in Nat, Text(t, m), NEW c \in Char, ~Space(c), Open(t, m)
  PROVE  \E W \in Seq(Seq(Char)), w \in Seq(Char) :
           /\ Split(t) = Append(W, w)
           /\ Split(Append(t, c)) = Append(W, Append(w, c))
<1>u. PICK u : u = Append(t, c)
  OBVIOUS
<1>1. Text(u, m + 1) /\ m + 1 \in Nat
  BY <1>u, OneMore
<1>S. PICK S : S = Starts(t)
  OBVIOUS
<1>N. PICK N : N = Cardinality(S)
  OBVIOUS
<1>2. S = Starts(u)
  BY <1>u, <1>S, StartsGrow
<1>3. /\ Split(t) \in Seq(Seq(Char)) /\ Len(Split(t)) = N /\ N \in Nat
      /\ \A n \in 1 .. N : Ups(S)[n] \in S /\ Split(t)[n] = Piece(t, Ups(S)[n])
      /\ S \in SUBSET (1 .. m) /\ S \in SUBSET Nat /\ IsFiniteSet(S)
  BY <1>S, <1>N, SplitIs
<1>4. /\ Split(u) \in Seq(Seq(Char)) /\ Len(Split(u)) = N
      /\ \A n \in 1 .. N : Split(u)[n] = Piece(u, Ups(S)[n])
  BY <1>1, <1>2, <1>N, SplitIs
<1>5. PICK p \in S : /\ Solid(t, p, m) /\ EndOf(t, p) = m
                     /\ \A i \in S : i <= p /\ (i # p => EndOf(t, i) # m)
  BY <1>S, LastStart
<1>6. Ups(S)[N] = p /\ N \in 1 .. N
  <2>1. {j \in S : j <= p} = S
    BY <1>5, Zenon
  <2>2. Rank(S, p) = N
    BY <1>N, <2>1 DEF Rank
  <2> QED
    BY <1>3, <1>N, <2>2, UpsFacts
<1>M. PICK M \in Nat : N = M + 1
  BY <1>3, <1>6
<1>7. \A n \in 1 .. M : /\ n \in 1 .. N /\ Ups(S)[n] \in S /\ Ups(S)[n] # p
  <2> SUFFICES ASSUME NEW n \in 1 .. M
               PROVE  n \in 1 .. N /\ Ups(S)[n] \in S /\ Ups(S)[n] # p
    OBVIOUS
  <2>1. n \in 1 .. N /\ n < N
    BY <1>M
  <2>2. Ups(S)[n] \in S
    BY <1>3, <2>1
  <2>3. Ups(S)[n] < Ups(S)[N]
    BY <1>3, <1>6, <1>N, <2>1, UpsAscend
  <2>4. PICK i \in Nat : i = Ups(S)[n]
    BY <1>3, <2>2
  <2>5. PICK q \in Nat : q = p
    BY <1>3
  <2>6. i < q
    BY <1>6, <2>3, <2>4, <2>5, Zenon
  <2>7. i # q
    BY <2>6
  <2> QED
    BY <2>1, <2>2, <2>4, <2>5, <2>7, Zenon
<1>8. \A n \in 1 .. M : Split(u)[n] = Split(t)[n]
  <2> SUFFICES ASSUME NEW n \in 1 .. M PROVE Split(u)[n] = Split(t)[n]
    OBVIOUS
  <2>1. PICK i \in S : i = Ups(S)[n] /\ i # p
    BY <1>7
  <2>2. EndOf(t, i) # m
    BY <1>5, <2>1
  <2>3. Piece(u, i) = Piece(t, i)
    BY <1>u, <1>S, <2>2, WordStays
  <2> QED
    BY <1>3, <1>4, <1>7, <2>1, <2>3, Zenon
<1>w. PICK w : w = Piece(t, p)
  OBVIOUS
<1>9. p \in 1 .. m + 1 /\ w \in Seq(Char) /\ Split(t)[N] = w
  <2>1. Split(t)[N] = w
    BY <1>3, <1>6, <1>w, Zenon
  <2>2. w \in Seq(Char)
    BY <1>3, <1>6, <2>1, ElementOfSeq
  <2>3. p \in 1 .. m
    BY <1>3
  <2> QED
    BY <2>1, <2>2, <2>3
<1>10. Split(u)[N] = Append(w, c)
  <2>1. EndOf(u, p) = m + 1
    BY <1>u, <1>5, <1>9, EndMoves
  <2>2. SubSeq(u, p, m + 1) = Append(SubSeq(t, p, m), c)
    BY <1>u, <1>9, PieceMoves
  <2>3. Split(u)[N] = Piece(u, p)
    BY <1>4, <1>6, Zenon
  <2> QED
    BY <1>5, <1>w, <2>1, <2>2, <2>3, Zenon DEF Piece
<1>11. Append(w, c) \in Seq(Char)
  BY <1>9, AppendProperties
<1>W. PICK W : W = SubSeq(Split(t), 1, M)
  OBVIOUS
<1>12. /\ W \in Seq(Seq(Char)) /\ Len(W) = M
       /\ \A n \in 1 .. M : W[n] = Split(t)[n]
  <2>0. 1 \in Int /\ M \in Int /\ (IF 1 <= M THEN M - 1 + 1 ELSE 0) = M /\ M - 1 + 1 = M
        /\ \A i \in 1 .. M : 1 + i - 1 = i
    OBVIOUS
  <2>1. \A i \in 1 .. M : Split(t)[i] \in Seq(Char)
    BY <1>3, <1>7, ElementOfSeq
  <2>2. /\ W \in Seq(Seq(Char)) /\ Len(W) = IF 1 <= M THEN M - 1 + 1 ELSE 0
        /\ \A i \in 1 .. M - 1 + 1 : W[i] = Split(t)[1 + i - 1]
    BY <1>W, <2>0, <2>1, SubSeqProperties
  <2> QED
    BY <2>0, <2>2
<1>14. \A n \in 1 .. N : n \in 1 .. M \/ n = N
  BY <1>M
<1>15. Split(t) = Append(W, w)
  <2>3. /\ Append(W, w) \in Seq(Seq(Char)) /\ Len(Append(W, w)) = N
        /\ \A n \in 1 .. M : Append(W, w)[n] = W[n]
        /\ Append(W, w)[N] = w
    BY <1>9, <1>12, <1>M, AppendProperties
  <2>4. \A n \in 1 .. M : Split(t)[n] = Append(W, w)[n]
    BY <1>12, <2>3, Zenon
  <2>1. \A n \in 1 .. N : Split(t)[n] = Append(W, w)[n]
    BY <1>9, <1>14, <2>3, <2>4, Zenon
  <2> QED
    BY <1>3, <2>1, <2>3, SeqEqual
<1>16. Split(u) = Append(W, Append(w, c))
  <2>v. PICK v : v = Append(w, c)
    OBVIOUS
  <2>0. v \in Seq(Char) /\ Split(u)[N] = v
    BY <1>10, <1>11, <2>v, Zenon
  <2>4. /\ Append(W, v) \in Seq(Seq(Char)) /\ Len(Append(W, v)) = N
        /\ \A n \in 1 .. M : Append(W, v)[n] = W[n]
        /\ Append(W, v)[N] = v
    BY <1>12, <1>M, <2>0, AppendProperties
  <2>5. \A n \in 1 .. M : Split(u)[n] = Append(W, v)[n]
    BY <1>8, <1>12, <2>4, Zenon
  <2>1. \A n \in 1 .. N : Split(u)[n] = Append(W, v)[n]
    BY <1>14, <2>0, <2>4, <2>5, Zenon
  <2>3. Split(u) = Append(W, v)
    BY <1>4, <2>1, <2>4, SeqEqual
  <2> QED
    BY <2>3, <2>v
<1> QED
  BY <1>9, <1>12, <1>15, <1>16, <1>u, Zenon

-----------------------------------------------------------------------------
(* getargs() has a state after each character that it is given.            *)
Args == [read : Nat, done : BOOLEAN, words : Seq(Seq(Char)), word : Seq(Char)]
NoArgs == [read |-> 0, done |-> FALSE, words |-> <<>>, word |-> <<>>]
Rounds(h, s) == h = [n \in 0 .. Len(s) |-> IF n = 0 THEN NoArgs ELSE Round(h[n - 1], s[n])]

LEMMA GetargsIs == ASSUME NEW s PROVE Getargs(s) = (CHOOSE h : Rounds(h, s))[Len(s)]
  BY DEF Getargs, Rounds, NoArgs

LEMMA ArgsWords ==
  ASSUME NEW acc \in Args
  PROVE  /\ acc.read \in Nat /\ acc.done \in BOOLEAN /\ acc.words \in Seq(Seq(Char))
         /\ acc.word \in Seq(Char) /\ Len(acc.words) \in Nat
  BY LenProperties DEF Args

(* A round keeps the types of the state.                                   *)
LEMMA RoundType ==
  ASSUME NEW acc \in Args, NEW c \in Char \cup {NewLine}
  PROVE  Round(acc, c) \in Args
<1>1. acc.read \in Nat /\ acc.read + 1 \in Nat
  BY DEF Args
<1>2. Printable(c) => Append(acc.word, c) \in Seq(Char)
  <2>1. Printable(c) => c \in Char
    BY DEF Printable
  <2>2. acc.word \in Seq(Char)
    BY DEF Args
  <2> QED
    BY <2>1, <2>2, AppendProperties
<1>3. Append(acc.words, acc.word) \in Seq(Seq(Char))
  BY AppendProperties DEF Args
<1>4. <<>> \in Seq(Char)
  OBVIOUS
<1>5. CASE acc.done
  BY <1>5 DEF Round
<1>6. CASE ~acc.done /\ (acc.read = MaxChar - 1 \/ Len(acc.words) > MaxCom - 2)
  <2>1. Round(acc, c) = [acc EXCEPT !.read = acc.read + 1, !.done = TRUE]
    BY <1>6 DEF Round
  <2> QED
    BY <1>1, <2>1 DEF Args
<1>7. CASE ~acc.done /\ ~(acc.read = MaxChar - 1 \/ Len(acc.words) > MaxCom - 2)
  <2> DEFINE W == IF EndsWord(c, acc.word) THEN Append(acc.words, acc.word) ELSE acc.words
             w == IF Printable(c) THEN Append(acc.word, c)
                  ELSE IF EndsWord(c, acc.word) THEN <<>> ELSE acc.word
  <2>1. Round(acc, c) = [read |-> acc.read + 1, done |-> c = NewLine, words |-> W, word |-> w]
    BY <1>7 DEF Round
  <2>2. W \in Seq(Seq(Char))
    BY <1>3 DEF Args
  <2>3. w \in Seq(Char)
    BY <1>2, <1>4 DEF Args
  <2> HIDE DEF W, w
  <2> QED
    BY <1>1, <2>1, <2>2, <2>3 DEF Args
<1> QED
  BY <1>5, <1>6, <1>7

(* Getargs() is the last of the states, each of which is one round after   *)
(* the one before it.                                                      *)
LEMMA GetargsSteps ==
  ASSUME NEW s \in Seq(Char \cup {NewLine}), NEW m \in Nat, Len(s) = m
  PROVE  \E f : /\ f[0] = NoArgs /\ Getargs(s) = f[m]
                /\ \A n \in 0 .. m : f[n] \in Args
                /\ \A n \in 1 .. m : f[n] = Round(f[n - 1], s[n])
<1> DEFINE F == [p \in Nat \X Args |->
                   IF p[1] + 1 \in 1 .. m THEN Round(p[2], s[p[1] + 1]) ELSE p[2]]
<1>1. NoArgs \in Args
  BY DEF NoArgs, Args
<1>2. \A n \in 1 .. m : s[n] \in Char \cup {NewLine}
  BY ElementOfSeq
<1>3. F \in [Nat \X Args -> Args]
  <2> SUFFICES ASSUME NEW p \in Nat \X Args
               PROVE  (IF p[1] + 1 \in 1 .. m THEN Round(p[2], s[p[1] + 1]) ELSE p[2]) \in Args
    OBVIOUS
  <2>1. p[1] \in Nat /\ p[2] \in Args
    OBVIOUS
  <2> QED
    BY <1>2, <2>1, RoundType
<1>4. \A n \in Nat, x \in Args :
        F[<<n, x>>] = IF n + 1 \in 1 .. m THEN Round(x, s[n + 1]) ELSE x
  OBVIOUS
<1> HIDE DEF F
<1>5. PICK f \in [Nat -> Args] : f[0] = NoArgs /\ \A n \in Nat : f[n + 1] = F[<<n, f[n]>>]
  <2>1. PICK f \in Countings(Args, NoArgs, F) : TRUE
    BY <1>1, <1>3, Counted
  <2> QED
    BY <2>1 DEF Countings
<1>6. \A n \in 1 .. m : f[n] = Round(f[n - 1], s[n])
  <2> SUFFICES ASSUME NEW n \in 1 .. m PROVE f[n] = Round(f[n - 1], s[n])
    OBVIOUS
  <2>1. n - 1 \in Nat /\ n - 1 + 1 = n
    OBVIOUS
  <2>2. f[n - 1 + 1] = F[<<n - 1, f[n - 1]>>] /\ f[n - 1] \in Args
    BY <1>5, <2>1
  <2> QED
    BY <1>4, <2>1, <2>2
<1> DEFINE G == [n \in 0 .. m |-> f[n]]
<1>7. Rounds(G, s)
  <2>1. \A n \in 0 .. m : G[n] = IF n = 0 THEN NoArgs ELSE Round(G[n - 1], s[n])
    <3> SUFFICES ASSUME NEW n \in 0 .. m
                 PROVE  G[n] = IF n = 0 THEN NoArgs ELSE Round(G[n - 1], s[n])
      OBVIOUS
    <3>1. CASE n = 0
      BY <1>5, <3>1
    <3>2. CASE n # 0
      <4>1. n \in 1 .. m /\ n - 1 \in 0 .. m
        BY <3>2
      <4> QED
        BY <1>6, <3>2, <4>1
    <3> QED
      BY <3>1, <3>2
  <2>2. G = [n \in 0 .. m |-> G[n]]
    OBVIOUS
  <2> HIDE DEF G
  <2>3. G = [n \in 0 .. m |-> IF n = 0 THEN NoArgs ELSE Round(G[n - 1], s[n])]
    BY <2>1, <2>2, Zenon
  <2> QED
    BY <2>3, Zenon DEF Rounds
<1>h. PICK h : h = CHOOSE g : Rounds(g, s)
  OBVIOUS
<1>8. Rounds(h, s) /\ Getargs(s) = h[m]
  BY <1>7, <1>h, GetargsIs
<1>9. h = [n \in 0 .. m |-> IF n = 0 THEN NoArgs ELSE Round(h[n - 1], s[n])]
  BY <1>8, Zenon DEF Rounds
<1>10. h[0] = NoArgs /\ \A n \in 1 .. m : h[n] = Round(h[n - 1], s[n])
  <2>1. 0 \in 0 .. m /\ \A n \in 1 .. m : n \in 0 .. m /\ n # 0
    OBVIOUS
  <2> QED
    BY <1>9, <2>1, Zenon
<1> DEFINE T == {n \in Nat : n <= m => h[n] \in Args}
<1>11. 0 \in T
  BY <1>1, <1>10
<1>12. ASSUME NEW n \in Nat, n \in T PROVE n + 1 \in T
  <2> SUFFICES ASSUME n + 1 <= m PROVE h[n + 1] \in Args
    OBVIOUS
  <2>1. n + 1 \in 1 .. m /\ n + 1 - 1 = n /\ h[n] \in Args
    BY <1>12
  <2>2. h[n + 1] = Round(h[n], s[n + 1])
    BY <1>10, <2>1
  <2> QED
    BY <1>2, <2>1, <2>2, RoundType
<1>13. \A n \in 0 .. m : h[n] \in Args
  <2> HIDE DEF T
  <2>1. \A n \in Nat : n \in T
    BY <1>11, <1>12, NaturalSteps
  <2> QED
    BY <2>1 DEF T
<1> QED
  BY <1>8, <1>10, <1>13

-----------------------------------------------------------------------------
(* W are the words of a text that does (open) or does not end within one.  *)
(* Going: getargs() has the words that have ended, and what there is of    *)
(* the one that has not.  Full: it has all it has room for, from the       *)
(* first, and none of them can change any more.                            *)
Heads(a, b) == Len(a) <= Len(b) /\ \A i \in 1 .. Len(a) : a[i] = b[i]
HeadsClosed(words, W, open) ==
  IF open THEN \E U \in Seq(Seq(Char)), w \in Seq(Char) : W = Append(U, w) /\ Heads(words, U)
  ELSE Heads(words, W)
Going(acc, n, W, open) ==
  /\ ~acc.done /\ acc.read = n /\ Len(acc.words) <= MaxCom - 1
  /\ IF open THEN acc.word # <<>> /\ W = Append(acc.words, acc.word)
     ELSE acc.word = <<>> /\ W = acc.words
Full(acc, W, open) ==
  acc.done /\ Len(acc.words) = MaxCom - 1 /\ HeadsClosed(acc.words, W, open)

(* A sequence that begins another still does when that one is longer.      *)
LEMMA HeadsAppend ==
  ASSUME NEW V, NEW a \in Seq(V), NEW b \in Seq(V), NEW e \in V, Heads(a, b)
  PROVE  Heads(a, Append(b, e))
<1>a. PICK m \in Nat : m = Len(a)
  BY LenProperties
<1>b. PICK n \in Nat : n = Len(b)
  BY LenProperties
<1>1. m <= n /\ \A i \in 1 .. m : a[i] = b[i]
  BY <1>a, <1>b, Zenon DEF Heads
<1>2. Len(Append(b, e)) = n + 1 /\ \A i \in 1 .. n : Append(b, e)[i] = b[i]
  BY <1>b, AppendProperties
<1>3. m <= n + 1 /\ \A i \in 1 .. m : i \in 1 .. n
  BY <1>1
<1>4. \A i \in 1 .. m : a[i] = Append(b, e)[i]
  BY <1>1, <1>2, <1>3, Zenon
<1> QED
  BY <1>2, <1>3, <1>4, <1>a, Zenon DEF Heads

LEMMA HeadsSelf == ASSUME NEW V, NEW a \in Seq(V) PROVE Heads(a, a)
  BY LenProperties DEF Heads

(* As long as getargs() goes on, it has the words that have ended.         *)
LEMMA GoingIsClosed ==
  ASSUME NEW acc \in Args, NEW n, NEW W, NEW open, Going(acc, n, W, open)
  PROVE  HeadsClosed(acc.words, W, open)
<1>1. acc.words \in Seq(Seq(Char)) /\ acc.word \in Seq(Char)
  BY ArgsWords
<1>2. Heads(acc.words, acc.words)
  BY <1>1, HeadsSelf
<1>3. CASE open
  <2>1. W = Append(acc.words, acc.word)
    BY <1>3, Zenon DEF Going
  <2> QED
    BY <1>1, <1>2, <1>3, <2>1, Zenon DEF HeadsClosed
<1>4. CASE ~open
  <2>1. W = acc.words
    BY <1>4, Zenon DEF Going
  <2> QED
    BY <1>2, <1>4, <2>1, Zenon DEF HeadsClosed
<1> QED
  BY <1>3, <1>4

(* The words that have ended stay when another character comes.            *)
LEMMA ClosedStays ==
  ASSUME NEW words \in Seq(Seq(Char)), NEW t, NEW m \in Nat, Text(t, m), NEW c \in Char,
         HeadsClosed(words, Split(t), Open(t, m))
  PROVE  HeadsClosed(words, Split(Append(t, c)), Open(Append(t, c), m + 1))
<1>1. Open(Append(t, c), m + 1) <=> ~Space(c)
  <2>1. m + 1 # 0
    OBVIOUS
  <2>2. Blank(Append(t, c), m + 1) <=> Space(c)
    BY OneMore
  <2> QED
    BY <2>1, <2>2, Zenon DEF Open
<1>2. Split(t) \in Seq(Seq(Char))
  BY SplitFacts
<1>3. CASE Space(c)
  <2>1. Split(Append(t, c)) = Split(t)
    BY <1>3, SplitBlank
  <2>2. Heads(words, Split(t))
    <3>1. CASE Open(t, m)
      <4>1. PICK U \in Seq(Seq(Char)), w \in Seq(Char) : Split(t) = Append(U, w) /\ Heads(words, U)
        BY <3>1, Zenon DEF HeadsClosed
      <4>2. Heads(words, Append(U, w))
        BY <4>1, HeadsAppend
      <4> QED
        BY <4>1, <4>2, Zenon
    <3>2. CASE ~Open(t, m)
      BY <3>2, Zenon DEF HeadsClosed
    <3> QED
      BY <3>1, <3>2
  <2> QED
    BY <1>1, <1>3, <2>1, <2>2, Zenon DEF HeadsClosed
<1>4. CASE ~Space(c) /\ ~Open(t, m)
  <2>1. Split(Append(t, c)) = Append(Split(t), Append(<<>>, c))
    BY <1>4, SplitNew
  <2>2. Heads(words, Split(t))
    BY <1>4, Zenon DEF HeadsClosed
  <2>3. Append(<<>>, c) \in Seq(Char)
    OBVIOUS
  <2> QED
    BY <1>1, <1>2, <1>4, <2>1, <2>2, <2>3, Zenon DEF HeadsClosed
<1>5. CASE ~Space(c) /\ Open(t, m)
  <2>1. PICK W \in Seq(Seq(Char)), w \in Seq(Char) :
          /\ Split(t) = Append(W, w)
          /\ Split(Append(t, c)) = Append(W, Append(w, c))
    BY <1>5, SplitLonger
  <2>2. PICK U \in Seq(Seq(Char)), v \in Seq(Char) : Split(t) = Append(U, v) /\ Heads(words, U)
    BY <1>5, Zenon DEF HeadsClosed
  <2>3. U = W
    <3>1. Append(U, v) = Append(W, w)
      BY <2>1, <2>2, Zenon
    <3> QED
      BY <3>1, AppendInjective
  <2>4. Append(w, c) \in Seq(Char)
    BY AppendProperties
  <2> QED
    BY <1>1, <1>5, <2>1, <2>2, <2>3, <2>4, Zenon DEF HeadsClosed
<1> QED
  BY <1>3, <1>4, <1>5

(* A round that is not the last.                                           *)
LEMMA RoundGoesOn ==
  ASSUME NEW acc \in Args, NEW c \in Char, NEW n \in Nat, ~acc.done, acc.read = n,
         n < MaxChar - 1, Len(acc.words) <= MaxCom - 2
  PROVE  /\ ~Round(acc, c).done /\ Round(acc, c).read = n + 1
         /\ c = "x" => Round(acc, c).words = acc.words /\ Round(acc, c).word = acc.word
         /\ Space(c) => /\ Round(acc, c).words = IF acc.word # <<>> THEN Append(acc.words, acc.word)
                                                 ELSE acc.words
                        /\ Round(acc, c).word = <<>>
         /\ c # "x" /\ ~Space(c) => /\ Round(acc, c).words = acc.words
                                    /\ Round(acc, c).word = Append(acc.word, c)
<1>1. ~(acc.read = MaxChar - 1 \/ Len(acc.words) > MaxCom - 2)
  <2>1. MaxChar \in Nat /\ MaxCom \in Nat
    BY LineAssumption
  <2>2. PICK k \in Nat : k = Len(acc.words)
    BY ArgsWords
  <2>3. k <= MaxCom - 2
    BY <2>2
  <2>4. ~(k > MaxCom - 2) /\ n # MaxChar - 1
    BY <2>1, <2>3
  <2> QED
    BY <2>2, <2>4, Zenon
<1> DEFINE W == IF EndsWord(c, acc.word) THEN Append(acc.words, acc.word) ELSE acc.words
           w == IF Printable(c) THEN Append(acc.word, c)
                ELSE IF EndsWord(c, acc.word) THEN <<>> ELSE acc.word
<1>2. Round(acc, c) = [read |-> n + 1, done |-> c = NewLine, words |-> W, word |-> w]
  <2>1. Round(acc, c) = [read |-> acc.read + 1, done |-> c = NewLine, words |-> W, word |-> w]
    BY <1>1, Zenon DEF Round
  <2> QED
    BY <2>1, Zenon
<1>3. c # NewLine
  BY DEF Char, NewLine
<1>4. c = "x" => ~Printable(c) /\ ~EndsWord(c, acc.word)
  BY DEF Printable, EndsWord, NewLine
<1>5. Space(c) => ~Printable(c) /\ (EndsWord(c, acc.word) <=> acc.word # <<>>)
  BY DEF Printable, EndsWord, Space
<1>6. c # "x" /\ ~Space(c) => Printable(c) /\ ~EndsWord(c, acc.word)
  BY <1>3 DEF Printable, EndsWord, Space
<1> HIDE DEF W, w
<1>7. /\ Round(acc, c).read = n + 1 /\ Round(acc, c).done = (c = NewLine)
      /\ Round(acc, c).words = W /\ Round(acc, c).word = w
  BY <1>2
<1>8. c = "x" => W = acc.words /\ w = acc.word
  BY <1>4, Zenon DEF W, w
<1>9. Space(c) => W = (IF acc.word # <<>> THEN Append(acc.words, acc.word) ELSE acc.words) /\ w = <<>>
  BY <1>5, Zenon DEF W, w
<1>10. c # "x" /\ ~Space(c) => W = acc.words /\ w = Append(acc.word, c)
  BY <1>6, Zenon DEF W, w
<1> QED
  BY <1>3, <1>7, <1>8, <1>9, <1>10, Zenon

(* The round in which getargs() sees that it has all it has room for.      *)
LEMMA RoundStops ==
  ASSUME NEW acc \in Args, NEW c, NEW n \in Nat, ~acc.done, acc.read = n,
         Len(acc.words) = MaxCom - 1
  PROVE  Round(acc, c).done /\ Round(acc, c).words = acc.words /\ Round(acc, c).read = n + 1
<1>1. Len(acc.words) > MaxCom - 2
  BY LineAssumption
<1>2. Round(acc, c) = [acc EXCEPT !.read = acc.read + 1, !.done = TRUE]
  BY <1>1, Zenon DEF Round
<1> QED
  BY <1>2 DEF Args

LEMMA GoingRound ==
  ASSUME NEW acc \in Args, NEW n \in Nat, NEW t, NEW m \in Nat, Text(t, m), NEW c \in Char,
         Going(acc, n, Split(t), Open(t, m)), n < MaxChar - 1, c # "x"
  PROVE  \/ Going(Round(acc, c), n + 1, Split(Append(t, c)), Open(Append(t, c), m + 1))
         \/ Full(Round(acc, c), Split(Append(t, c)), Open(Append(t, c), m + 1))
<1>u. PICK u : u = Append(t, c)
  OBVIOUS
<1>r. PICK r : r = Round(acc, c)
  OBVIOUS
<1>W. PICK W : W = Split(t)
  OBVIOUS
<1>k. PICK k \in Nat : k = Len(acc.words)
  BY ArgsWords
<1>1. /\ acc.words \in Seq(Seq(Char)) /\ acc.word \in Seq(Char)
  BY ArgsWords
<1>2. ~acc.done /\ acc.read = n /\ k <= MaxCom - 1
  BY <1>k DEF Going
<1>3. Open(u, m + 1) <=> ~Space(c)
  <2>1. m + 1 # 0
    OBVIOUS
  <2>2. Blank(u, m + 1) <=> Space(c)
    BY <1>u, OneMore
  <2> QED
    BY <2>1, <2>2, Zenon DEF Open
<1>6. Append(acc.word, c) # <<>>
  BY <1>1, AppendProperties
<1>4. CASE k = MaxCom - 1
  <2>1. r.done /\ r.words = acc.words
    BY <1>2, <1>4, <1>k, <1>r, RoundStops
  <2>2. HeadsClosed(acc.words, Split(t), Open(t, m))
    BY GoingIsClosed
  <2>3. HeadsClosed(acc.words, Split(u), Open(u, m + 1))
    BY <1>1, <1>u, <2>2, ClosedStays
  <2>4. Full(r, Split(u), Open(u, m + 1))
    BY <1>4, <1>k, <2>1, <2>3, Zenon DEF Full
  <2> QED
    BY <1>u, <1>r, <2>4, Zenon
<1>5. CASE k # MaxCom - 1
  <2>0. k <= MaxCom - 2 /\ k + 1 <= MaxCom - 1
    BY <1>2, <1>5, LineAssumption
  <2>9. Len(acc.words) <= MaxCom - 2
    BY <1>k, <2>0, Zenon
  <2>1. /\ ~r.done /\ r.read = n + 1
        /\ Space(c) => /\ r.words = IF acc.word # <<>> THEN Append(acc.words, acc.word)
                                     ELSE acc.words
                       /\ r.word = <<>>
        /\ ~Space(c) => /\ r.words = acc.words
                        /\ r.word = Append(acc.word, c)
    BY <1>2, <1>r, <2>9, RoundGoesOn
  <2>2. Len(acc.words) <= MaxCom - 1 /\ Len(Append(acc.words, acc.word)) <= MaxCom - 1
    <3>1. Len(Append(acc.words, acc.word)) = k + 1
      BY <1>1, <1>k, AppendProperties
    <3>2. k <= MaxCom - 1
      BY <1>2
    <3> QED
      BY <1>k, <2>0, <3>1, <3>2, Zenon
  <2>3. CASE Space(c)
    <3>1. Split(u) = W
      BY <1>u, <1>W, <2>3, SplitBlank
    <3>2. Open(t, m) => acc.word # <<>> /\ W = Append(acc.words, acc.word)
      BY <1>W, Zenon DEF Going
    <3>3. ~Open(t, m) => acc.word = <<>> /\ W = acc.words
      BY <1>W, Zenon DEF Going
    <3>4. r.words = W /\ r.word = <<>> /\ Len(W) <= MaxCom - 1
      BY <2>1, <2>2, <2>3, <3>2, <3>3, Zenon
    <3>5. Going(r, n + 1, Split(u), Open(u, m + 1))
      BY <1>3, <2>1, <2>3, <3>1, <3>4, Zenon DEF Going
    <3> QED
      BY <1>u, <1>r, <3>5, Zenon
  <2>4. CASE ~Space(c) /\ ~Open(t, m)
    <3>1. Split(u) = Append(W, Append(<<>>, c))
      BY <1>u, <1>W, <2>4, SplitNew
    <3>2. acc.word = <<>> /\ W = acc.words
      BY <1>W, <2>4, Zenon DEF Going
    <3>3. r.words = acc.words /\ r.word = Append(acc.word, c) /\ r.word # <<>>
      BY <1>6, <2>1, <2>4, Zenon
    <3>4. Split(u) = Append(r.words, r.word)
      BY <3>1, <3>2, <3>3, Zenon
    <3>5. Going(r, n + 1, Split(u), Open(u, m + 1))
      BY <1>3, <2>1, <2>2, <2>4, <3>3, <3>4, Zenon DEF Going
    <3> QED
      BY <1>u, <1>r, <3>5, Zenon
  <2>5. CASE ~Space(c) /\ Open(t, m)
    <3>1. PICK U \in Seq(Seq(Char)), w \in Seq(Char) :
            /\ Split(t) = Append(U, w)
            /\ Split(u) = Append(U, Append(w, c))
      <4>1. \E U \in Seq(Seq(Char)), w \in Seq(Char) :
              /\ Split(t) = Append(U, w)
              /\ Split(Append(t, c)) = Append(U, Append(w, c))
        BY <2>5, SplitLonger
      <4> QED
        BY <1>u, <4>1, Zenon
    <3>2. Split(t) = Append(acc.words, acc.word)
      BY <2>5, Zenon DEF Going
    <3>3. U = acc.words /\ w = acc.word
      <4>a. PICK A \in Seq(Seq(Char)) : A = acc.words
        BY <1>1
      <4>b. PICK b \in Seq(Char) : b = acc.word
        BY <1>1
      <4>1. Append(U, w) = Append(A, b)
        BY <3>1, <3>2, <4>a, <4>b, Zenon
      <4>2. U = A /\ w = b
        BY <4>1, AppendInjective
      <4> QED
        BY <4>2, <4>a, <4>b, Zenon
    <3>4. r.words = acc.words /\ r.word = Append(acc.word, c) /\ r.word # <<>>
      BY <1>6, <2>1, <2>5, Zenon
    <3>5. Split(u) = Append(r.words, r.word)
      BY <3>1, <3>3, <3>4, Zenon
    <3>6. Going(r, n + 1, Split(u), Open(u, m + 1))
      BY <1>3, <2>1, <2>2, <2>5, <3>4, <3>5, Zenon DEF Going
    <3> QED
      BY <1>u, <1>r, <3>6, Zenon
  <2> QED
    BY <2>3, <2>4, <2>5
<1> QED
  BY <1>4, <1>5

(* A character that is not printed leaves the words as they are.           *)
LEMMA GoingHidden ==
  ASSUME NEW acc \in Args, NEW n \in Nat, NEW W, NEW open,
         Going(acc, n, W, open), n < MaxChar - 1, NEW c \in Char, c = "x"
  PROVE  Going(Round(acc, c), n + 1, W, open) \/ Full(Round(acc, c), W, open)
<1>k. PICK k \in Nat : k = Len(acc.words)
  BY ArgsWords
<1>1. ~acc.done /\ acc.read = n /\ k <= MaxCom - 1
  BY <1>k DEF Going
<1>2. CASE k = MaxCom - 1
  <2>1. Round(acc, c).done /\ Round(acc, c).words = acc.words
    BY <1>1, <1>2, <1>k, RoundStops
  <2>2. HeadsClosed(acc.words, W, open)
    BY GoingIsClosed
  <2> QED
    BY <1>2, <1>k, <2>1, <2>2, Zenon DEF Full
<1>3. CASE k # MaxCom - 1
  <2>0. k <= MaxCom - 2
    BY <1>1, <1>3, LineAssumption
  <2>9. Len(acc.words) <= MaxCom - 2
    BY <1>k, <2>0, Zenon
  <2>1. /\ ~Round(acc, c).done /\ Round(acc, c).read = n + 1
        /\ Round(acc, c).words = acc.words /\ Round(acc, c).word = acc.word
    BY <1>1, <2>9, RoundGoesOn
  <2> QED
    BY <2>1, Zenon DEF Going
<1> QED
  BY <1>2, <1>3

(* What getargs() has after n characters of a line.                        *)
Prefix(n) == SubSeq(line, 1, n)
Ended(acc, n) == LET t == Visible(Prefix(n)) IN
  \/ Going(acc, n, Split(t), Open(t, Len(t)))
  \/ Full(acc, Split(t), Open(t, Len(t)))

(* The line, one character after the other.                                *)
LEMMA PrefixGrows ==
  ASSUME NEW m \in Nat, Text(line, m)
  PROVE  /\ Prefix(0) = <<>> /\ Prefix(m) = line
         /\ \A n \in 1 .. m : /\ Prefix(n - 1) \in Seq(Char)
                              /\ Prefix(n) = Append(Prefix(n - 1), line[n])
<1>1. line \in Seq(Char) /\ Len(line) = m /\ \A n \in 1 .. m : line[n] \in Char
  BY TextFacts DEF Text
<1>2. Prefix(0) = <<>>
  BY SubSeqEmpty DEF Prefix
<1>3. Prefix(m) = line
  BY <1>1, SubSeqFull DEF Prefix
<1>4. ASSUME NEW n \in 1 .. m
      PROVE  Prefix(n - 1) \in Seq(Char) /\ Prefix(n) = Append(Prefix(n - 1), line[n])
  <2>0. n - 1 \in Int /\ 1 \in Int /\ \A i \in 1 .. n - 1 : i \in 1 .. m
    OBVIOUS
  <2>1. Prefix(n - 1) \in Seq(Char)
    BY <1>1, <2>0, SubSeqProperties DEF Prefix
  <2>2. 1 \in 1 .. m /\ n \in 1 .. m
    OBVIOUS
  <2>3. SubSeq(line, 1, n) = SubSeq(line, 1, n - 1) \o <<line[n]>>
    BY <1>1, <2>2, SubSeqRecursiveSecond
  <2>4. Append(Prefix(n - 1), line[n]) = Prefix(n - 1) \o <<line[n]>>
    BY <1>1, <2>1, AppendIsConcat
  <2> QED
    BY <2>1, <2>3, <2>4 DEF Prefix
<1> QED
  BY <1>2, <1>3, <1>4

(* The invariant Ended holds before the first character, and each round    *)
(* keeps it.                                                               *)
LEMMA EndedFirst == Ended(NoArgs, 0) /\ NoArgs \in Args
<1>1. NoArgs \in Args
  BY DEF NoArgs, Args
<1>2. Visible(<<>>) = <<>>
  <2>1. {i \in DOMAIN <<>> : <<>>[i] # "x"} = {}
    OBVIOUS
  <2>2. Ups({}) = <<>>
    BY UpsEmpty
  <2> QED
    BY <2>1, <2>2 DEF Visible, Picked
<1>3. Split(<<>>) = <<>>
  <2>1. Starts(<<>>) = {}
    BY DEF Starts
  <2>2. Ups({}) = <<>>
    BY UpsEmpty
  <2> QED
    BY <2>1, <2>2 DEF Split
<1>4. ~Open(<<>>, Len(<<>>))
  BY DEF Open
<1>5. Prefix(0) = <<>>
  BY SubSeqEmpty DEF Prefix
<1>6. /\ ~NoArgs.done /\ NoArgs.read = 0 /\ NoArgs.word = <<>> /\ NoArgs.words = <<>>
      /\ Len(NoArgs.words) = 0
  BY DEF NoArgs
<1>7. 0 <= MaxCom - 1
  BY LineAssumption
<1>8. Going(NoArgs, 0, Split(<<>>), Open(<<>>, Len(<<>>)))
  BY <1>3, <1>4, <1>6, <1>7, Zenon DEF Going
<1>9. Going(NoArgs, 0, Split(Visible(Prefix(0))), Open(Visible(Prefix(0)), Len(Visible(Prefix(0)))))
  BY <1>2, <1>5, <1>8, Zenon
<1> QED
  BY <1>1, <1>9, Zenon DEF Ended

LEMMA EndedNext ==
  ASSUME NEW m \in Nat, Text(line, m), NEW n \in 1 .. m, NEW acc \in Args,
         n - 1 < MaxChar - 1, Ended(acc, n - 1)
  PROVE  Ended(Round(acc, line[n]), n)
<1>s. PICK s : s = Prefix(n - 1)
  OBVIOUS
<1>c. PICK c \in Char : c = line[n]
  BY TextFacts
<1>1. s \in Seq(Char) /\ Prefix(n) = Append(s, c)
  BY <1>s, <1>c, PrefixGrows
<1>t. PICK t : t = Visible(s)
  OBVIOUS
<1>2. t \in Seq(Char) /\ Visible(Prefix(n)) = IF c = "x" THEN t ELSE Append(t, c)
  BY <1>1, <1>t, VisibleGrows
<1>k. PICK k \in Nat : k = Len(t)
  BY <1>2, LenProperties
<1>3. Text(t, k)
  BY <1>2, <1>k DEF Text
<1>n. PICK i \in Nat : i = n - 1 /\ n = i + 1 /\ i < MaxChar - 1
  BY LineAssumption
<1>4. Going(acc, i, Split(t), Open(t, k)) \/ Full(acc, Split(t), Open(t, k))
  BY <1>s, <1>t, <1>k, <1>n, Zenon DEF Ended
<1>r. PICK r : r = Round(acc, c)
  OBVIOUS
<1>f. ASSUME acc.done PROVE r = acc
  BY <1>f, <1>r, Zenon DEF Round
<1>5. CASE c = "x"
  <2>1. Going(r, i + 1, Split(t), Open(t, k)) \/ Full(r, Split(t), Open(t, k))
    <3>1. CASE Going(acc, i, Split(t), Open(t, k))
      BY <1>5, <1>n, <1>r, <3>1, GoingHidden
    <3>2. CASE Full(acc, Split(t), Open(t, k))
      BY <1>f, <3>2, Zenon DEF Full
    <3> QED
      BY <1>4, <3>1, <3>2
  <2> QED
    BY <1>2, <1>5, <1>k, <1>n, <1>r, <1>c, <2>1, Zenon DEF Ended
<1>6. CASE c # "x"
  <2>u. PICK u : u = Append(t, c)
    OBVIOUS
  <2>0. Len(u) = k + 1
    BY <1>2, <1>k, <2>u, AppendProperties
  <2>1. Going(r, i + 1, Split(u), Open(u, k + 1)) \/ Full(r, Split(u), Open(u, k + 1))
    <3>1. CASE Going(acc, i, Split(t), Open(t, k))
      BY <1>3, <1>6, <1>n, <1>r, <2>u, <3>1, GoingRound
    <3>2. CASE Full(acc, Split(t), Open(t, k))
      <4>1. acc.done /\ Len(acc.words) = MaxCom - 1 /\ HeadsClosed(acc.words, Split(t), Open(t, k))
        BY <3>2, Zenon DEF Full
      <4>2. acc.words \in Seq(Seq(Char))
        BY ArgsWords
      <4>3. HeadsClosed(acc.words, Split(u), Open(u, k + 1))
        BY <1>3, <2>u, <4>1, <4>2, ClosedStays
      <4> QED
        BY <1>f, <4>1, <4>3, Zenon DEF Full
    <3> QED
      BY <1>4, <3>1, <3>2
  <2> QED
    BY <1>2, <1>6, <1>n, <1>r, <1>c, <2>0, <2>1, <2>u, Zenon DEF Ended
<1> QED
  BY <1>5, <1>6

(* The last round, at the end of the line.                                 *)
LEMMA MinOfTwo ==
  ASSUME NEW a \in Nat, NEW b \in Nat
  PROVE  Min({a, b}) = IF a <= b THEN a ELSE b
<1>m. PICK v : v = IF a <= b THEN a ELSE b
  OBVIOUS
<1>1. v \in {a, b} /\ \A y \in {a, b} : v <= y
  BY <1>m
<1>2. \A x \in {a, b} : (\A y \in {a, b} : x <= y) => x = v
  BY <1>m
<1>3. Min({a, b}) \in {a, b} /\ \A y \in {a, b} : Min({a, b}) <= y
  BY <1>1 DEF Min
<1> QED
  BY <1>2, <1>3, <1>m

LEMMA HeadsFull ==
  ASSUME NEW words \in Seq(Seq(Char)), NEW W \in Seq(Seq(Char)), NEW open,
         HeadsClosed(words, W, open)
  PROVE  Heads(words, W)
<1>1. CASE open
  <2>1. PICK U \in Seq(Seq(Char)), w \in Seq(Char) : W = Append(U, w) /\ Heads(words, U)
    BY <1>1, Zenon DEF HeadsClosed
  <2>2. Heads(words, Append(U, w))
    BY <2>1, HeadsAppend
  <2> QED
    BY <2>1, <2>2, Zenon
<1>2. CASE ~open
  BY <1>2, Zenon DEF HeadsClosed
<1> QED
  BY <1>1, <1>2

(* The words got are the first ones meant, as many as there is room for.   *)
LEMMA FirstWords ==
  ASSUME NEW words \in Seq(Seq(Char)), NEW W \in Seq(Seq(Char)), Heads(words, W),
         Len(words) = MaxCom - 1
  PROVE  /\ words = SubSeq(W, 1, Min({Len(W), MaxCom - 1}))
         /\ ~(Len(W) < MaxCom - 1)
<1>k. PICK k \in Nat : k = Len(words) /\ k = MaxCom - 1
  BY LenProperties
<1>n. PICK n \in Nat : n = Len(W)
  BY LenProperties
<1>1. k <= n /\ \A i \in 1 .. k : words[i] = W[i]
  BY <1>k, <1>n, Zenon DEF Heads
<1>2. Min({n, k}) = k
  <2>1. Min({n, k}) = IF n <= k THEN n ELSE k
    BY MinOfTwo
  <2> QED
    BY <1>1, <2>1
<1>3. 1 \in Int /\ k \in Int /\ (IF 1 <= k THEN k - 1 + 1 ELSE 0) = k /\ k - 1 + 1 = k
      /\ (\A i \in 1 .. k : i \in 1 .. n /\ 1 + i - 1 = i) /\ ~(n < k)
  BY <1>1
<1>s. PICK s : s = SubSeq(W, 1, k)
  OBVIOUS
<1>4. s \in Seq(Seq(Char)) /\ Len(s) = k /\ \A i \in 1 .. k : s[i] = W[i]
  <2>1. \A i \in 1 .. k : W[i] \in Seq(Char)
    BY <1>3, <1>n, ElementOfSeq
  <2>2. /\ s \in Seq(Seq(Char)) /\ Len(s) = IF 1 <= k THEN k - 1 + 1 ELSE 0
        /\ \A i \in 1 .. k - 1 + 1 : s[i] = W[1 + i - 1]
    BY <1>s, <1>3, <2>1, SubSeqProperties
  <2> QED
    BY <1>3, <2>2
<1>5. \A i \in 1 .. k : words[i] = s[i]
  BY <1>1, <1>4, Zenon
<1>6. words = s
  BY <1>k, <1>4, <1>5, SeqEqual
<1> QED
  BY <1>2, <1>3, <1>6, <1>k, <1>n, <1>s, Zenon

LEMMA AllWords ==
  ASSUME NEW W \in Seq(Seq(Char)), Len(W) <= MaxCom - 1
  PROVE  W = SubSeq(W, 1, Min({Len(W), MaxCom - 1}))
<1>n. PICK n \in Nat : n = Len(W)
  BY LenProperties
<1>k. PICK k \in Nat : k = MaxCom - 1
  BY LineAssumption
<1>0. n <= k
  BY <1>n, <1>k, Zenon
<1>2. Min({n, k}) = n
  <2>1. Min({n, k}) = IF n <= k THEN n ELSE k
    BY MinOfTwo
  <2> QED
    BY <1>0, <2>1
<1>3. SubSeq(W, 1, Len(W)) = W
  BY SubSeqFull
<1> QED
  BY <1>2, <1>3, <1>k, <1>n, Zenon

(* The newline ends the last word: what getargs() returns are the words    *)
(* meant.                                                                  *)
LEMMA LastRound ==
  ASSUME NEW acc \in Args, NEW n \in Nat, NEW W \in Seq(Seq(Char)), NEW open, n < MaxChar - 1,
         Going(acc, n, W, open) \/ Full(acc, W, open)
  PROVE  /\ Round(acc, NewLine).words = SubSeq(W, 1, Min({Len(W), MaxCom - 1}))
         /\ Len(W) < MaxCom - 1 => Round(acc, NewLine).read = n + 1
<1>0. acc.words \in Seq(Seq(Char)) /\ acc.word \in Seq(Char)
  BY ArgsWords
<1>1. CASE Full(acc, W, open)
  <2>1. acc.done /\ Len(acc.words) = MaxCom - 1 /\ HeadsClosed(acc.words, W, open)
    BY <1>1, Zenon DEF Full
  <2>2. Round(acc, NewLine) = acc
    BY <2>1, Zenon DEF Round
  <2>3. Heads(acc.words, W)
    BY <1>0, <2>1, HeadsFull
  <2>4. acc.words = SubSeq(W, 1, Min({Len(W), MaxCom - 1})) /\ ~(Len(W) < MaxCom - 1)
    BY <1>0, <2>1, <2>3, FirstWords
  <2> QED
    BY <2>2, <2>4, Zenon
<1>2. CASE Going(acc, n, W, open) /\ Len(acc.words) = MaxCom - 1
  <2>0. ~acc.done /\ acc.read = n
    BY <1>2, Zenon DEF Going
  <2>1. Round(acc, NewLine).words = acc.words /\ Round(acc, NewLine).read = n + 1
    BY <1>2, <2>0, RoundStops
  <2>2. Heads(acc.words, W)
    <3>1. HeadsClosed(acc.words, W, open)
      BY <1>2, GoingIsClosed
    <3> QED
      BY <1>0, <3>1, HeadsFull
  <2>3. acc.words = SubSeq(W, 1, Min({Len(W), MaxCom - 1}))
    BY <1>0, <1>2, <2>2, FirstWords
  <2> QED
    BY <2>1, <2>3, Zenon
<1>3. CASE Going(acc, n, W, open) /\ Len(acc.words) # MaxCom - 1
  <2>k. PICK k \in Nat : k = Len(acc.words)
    BY ArgsWords
  <2>0. ~acc.done /\ acc.read = n /\ k <= MaxCom - 1 /\ k # MaxCom - 1
    BY <1>3, <2>k, Zenon DEF Going
  <2>1. ~(k > MaxCom - 2) /\ n # MaxChar - 1 /\ k + 1 <= MaxCom - 1
    BY <2>0, LineAssumption
  <2>2. ~(acc.read = MaxChar - 1 \/ Len(acc.words) > MaxCom - 2)
    BY <2>k, <2>0, <2>1, Zenon
  <2>3. /\ Round(acc, NewLine).read = n + 1
        /\ Round(acc, NewLine).words =
             IF EndsWord(NewLine, acc.word) THEN Append(acc.words, acc.word) ELSE acc.words
    <3> DEFINE w == IF Printable(NewLine) THEN Append(acc.word, NewLine)
                    ELSE IF EndsWord(NewLine, acc.word) THEN <<>> ELSE acc.word
               V == IF EndsWord(NewLine, acc.word) THEN Append(acc.words, acc.word) ELSE acc.words
    <3>1. Round(acc, NewLine) =
            [read |-> acc.read + 1, done |-> NewLine = NewLine, words |-> V, word |-> w]
      BY <2>0, <2>2, Zenon DEF Round
    <3> HIDE DEF w, V
    <3>2. Round(acc, NewLine).read = acc.read + 1 /\ Round(acc, NewLine).words = V
      BY <3>1
    <3> QED
      BY <2>0, <3>2, Zenon DEF V
  <2>4. EndsWord(NewLine, acc.word) <=> acc.word # <<>>
    BY DEF EndsWord, NewLine
  <2>5. Round(acc, NewLine).words = W
    BY <1>3, <2>3, <2>4, Zenon DEF Going
  <2>6. Len(W) <= MaxCom - 1
    <3>1. Len(Append(acc.words, acc.word)) = k + 1
      BY <1>0, <2>k, AppendProperties
    <3>2. W = acc.words \/ W = Append(acc.words, acc.word)
      BY <1>3, Zenon DEF Going
    <3> QED
      BY <2>k, <2>0, <2>1, <3>1, <3>2, Zenon
  <2>7. W = SubSeq(W, 1, Min({Len(W), MaxCom - 1}))
    BY <2>6, AllWords
  <2> QED
    BY <2>3, <2>5, <2>7, Zenon
<1> QED
  BY <1>1, <1>2, <1>3

(* The MAXCHAR-th character ends the loop: what getargs() returns are the  *)
(* words that have ended before it.                                        *)
LEMMA FrontOf ==
  ASSUME NEW V, NEW U \in Seq(V), NEW w \in V
  PROVE  Front(Append(U, w)) = U
<1>n. PICK n \in Nat : n = Len(U)
  BY LenProperties
<1>a. PICK a : a = Append(U, w)
  OBVIOUS
<1>1. a \in Seq(V) /\ Len(a) = n + 1 /\ \A i \in 1 .. n : a[i] = U[i]
  BY <1>n, <1>a, AppendProperties
<1>2. Front(a) = SubSeq(a, 1, n)
  BY <1>1 DEF Front
<1>3. 1 \in Int /\ n \in Int /\ (IF 1 <= n THEN n - 1 + 1 ELSE 0) = n /\ n - 1 + 1 = n
      /\ \A i \in 1 .. n : i \in 1 .. n + 1 /\ 1 + i - 1 = i
  OBVIOUS
<1>s. PICK s : s = SubSeq(a, 1, n)
  OBVIOUS
<1>4. s \in Seq(V) /\ Len(s) = n /\ \A i \in 1 .. n : s[i] = a[i]
  <2>1. \A i \in 1 .. n : a[i] \in V
    BY <1>1, <1>3, ElementOfSeq
  <2>2. /\ s \in Seq(V) /\ Len(s) = IF 1 <= n THEN n - 1 + 1 ELSE 0
        /\ \A i \in 1 .. n - 1 + 1 : s[i] = a[1 + i - 1]
    BY <1>s, <1>3, <2>1, SubSeqProperties
  <2> QED
    BY <1>3, <2>2
<1>5. s = U
  <2>1. \A i \in 1 .. n : s[i] = U[i]
    BY <1>1, <1>4, Zenon
  <2> QED
    BY <1>n, <1>4, <2>1, SeqEqual
<1> QED
  BY <1>2, <1>5, <1>a, <1>s, Zenon

LastKept(n) == n = MaxChar - 1
EndedIn(V, W, open) == W \in Seq(Seq(Char)) /\ V = IF open THEN Front(W) ELSE W
Holding(acc, n, W, open) == Going(acc, n, W, open) \/ Full(acc, W, open)

(* The state a of getargs() has the words V, and has read n characters     *)
(* where they are not too many.                                            *)
Took(a, V, n) == /\ a.words = SubSeq(V, 1, Min({Len(V), MaxCom - 1}))
                 /\ Len(V) < MaxCom - 1 => a.read = n

LEMMA CutRound ==
  ASSUME NEW acc \in Args, NEW n \in Nat, NEW W, NEW open, NEW c, NEW V,
         LastKept(n), Holding(acc, n, W, open), EndedIn(V, W, open)
  PROVE  Took(Round(acc, c), V, n + 1) /\ Round(acc, c).done
<1> USE DEF EndedIn, Holding
<1> SUFFICES /\ Round(acc, c).words = SubSeq(V, 1, Min({Len(V), MaxCom - 1}))
             /\ Len(V) < MaxCom - 1 => Round(acc, c).read = n + 1
             /\ Round(acc, c).done
  BY Zenon DEF Took
<1>0. acc.words \in Seq(Seq(Char)) /\ acc.word \in Seq(Char)
  BY ArgsWords
<1>1. CASE Full(acc, W, open)
  <2>1. acc.done /\ Len(acc.words) = MaxCom - 1 /\ HeadsClosed(acc.words, W, open)
    BY <1>1, Zenon DEF Full
  <2>2. Round(acc, c) = acc
    BY <2>1, Zenon DEF Round
  <2>3. V \in Seq(Seq(Char)) /\ Heads(acc.words, V)
    <3>1. CASE open
      <4>1. PICK U \in Seq(Seq(Char)), w \in Seq(Char) : W = Append(U, w) /\ Heads(acc.words, U)
        BY <2>1, <3>1, Zenon DEF HeadsClosed
      <4>2. Front(Append(U, w)) = U
        BY FrontOf
      <4> QED
        BY <3>1, <4>1, <4>2, Zenon
    <3>2. CASE ~open
      BY <2>1, <3>2, Zenon DEF HeadsClosed
    <3> QED
      BY <3>1, <3>2
  <2>4. acc.words = SubSeq(V, 1, Min({Len(V), MaxCom - 1})) /\ ~(Len(V) < MaxCom - 1)
    BY <1>0, <2>1, <2>3, FirstWords
  <2> QED
    BY <2>1, <2>2, <2>4, Zenon
<1>2. CASE Going(acc, n, W, open)
  <2>1. ~acc.done /\ acc.read = n /\ Len(acc.words) <= MaxCom - 1
    BY <1>2, Zenon DEF Going
  <2>2. Round(acc, c) = [acc EXCEPT !.read = acc.read + 1, !.done = TRUE]
    BY <2>1, Zenon DEF Round, LastKept
  <2>3. /\ Round(acc, c).words = acc.words /\ Round(acc, c).read = n + 1
        /\ Round(acc, c).done
    BY <2>1, <2>2 DEF Args
  <2>4. V = acc.words
    <3>1. CASE open
      <4>1. W = Append(acc.words, acc.word)
        BY <1>2, <3>1, Zenon DEF Going
      <4>2. Front(Append(acc.words, acc.word)) = acc.words
        BY <1>0, FrontOf
      <4> QED
        BY <3>1, <4>1, <4>2, Zenon
    <3>2. CASE ~open
      BY <1>2, <3>2, Zenon DEF Going
    <3> QED
      BY <3>1, <3>2
  <2>5. V = SubSeq(V, 1, Min({Len(V), MaxCom - 1}))
    BY <1>0, <2>1, <2>4, AllWords
  <2> QED
    BY <2>3, <2>4, <2>5, Zenon
<1> QED
  BY <1>1, <1>2

(* f are the states that the rounds over the line and its newline lead to. *)
RunOver(f, s, m) ==
  /\ \A n \in 1 .. m : s[n] = line[n]
  /\ s[m + 1] = NewLine
  /\ f[0] = NoArgs
  /\ \A n \in 0 .. m + 1 : f[n] \in Args
  /\ \A n \in 1 .. m + 1 : f[n] = Round(f[n - 1], s[n])

(* The invariant holds as long as no more than MAXCHAR - 1 characters of   *)
(* the line have been read.                                                *)
LEMMA EndedUpTo ==
  ASSUME NEW m \in Nat, Text(line, m), NEW k \in 0 .. m, k <= MaxChar - 1,
         NEW s, NEW f, RunOver(f, s, m)
  PROVE  Ended(f[k], k)
<1> DEFINE T == {n \in Nat : n <= k => Ended(f[n], n)}
<1>5. 0 \in T
  BY EndedFirst DEF RunOver
<1>6. ASSUME NEW n \in Nat, n \in T PROVE n + 1 \in T
  <2> SUFFICES ASSUME n + 1 <= k PROVE Ended(f[n + 1], n + 1)
    OBVIOUS
  <2>k. PICK l \in 1 .. m : /\ l = n + 1 /\ n = l - 1 /\ l \in 1 .. m + 1 /\ n \in 0 .. m + 1
                            /\ l - 1 < MaxChar - 1
    BY LineAssumption
  <2>1. Ended(f[n], n)
    BY <1>6
  <2>2. f[l] = Round(f[n], line[l]) /\ f[n] \in Args
    BY <2>k, Zenon DEF RunOver
  <2>3. Ended(f[n], l - 1)
    BY <2>1, <2>k, Zenon
  <2>4. Ended(Round(f[n], line[l]), l)
    BY <2>2, <2>3, <2>k, EndedNext
  <2> QED
    BY <2>2, <2>4, <2>k, Zenon
<1>7. k \in T
  <2> HIDE DEF T
  <2>1. \A n \in Nat : n \in T
    BY <1>5, <1>6, NaturalSteps
  <2> QED
    BY <2>1
<1> QED
  BY <1>7

(* Of any beginning of a line the words are such, and the word at its end  *)
(* is open where no blank has come behind it.                              *)
LEMMA EndedWords ==
  ASSUME NEW s \in Seq(Char), NEW t, t = Visible(s)
  PROVE  /\ WordsMeant(s) = Split(t) /\ Split(t) \in Seq(Seq(Char))
         /\ WordsEnded(s) = IF Open(t, Len(t)) THEN Front(Split(t)) ELSE Split(t)
<1>1. t \in Seq(Char)
  <2>1. " " \in Char
    BY DEF Char
  <2> QED
    BY <2>1, VisibleGrows
<1>2. PICK k \in Nat : k = Len(t)
  BY <1>1, LenProperties
<1>3. Text(t, k)
  BY <1>1, <1>2 DEF Text
<1>4. Split(t) \in Seq(Seq(Char))
  BY <1>3, SplitFacts
<1>5. WordsMeant(s) = Split(t)
  BY MeantIsSplit
<1>6. Seen(s) = t
  BY DEF Seen, Visible
<1>7. t = <<>> <=> Len(t) = 0
  BY <1>1, EmptySeq
<1>8. Open(t, Len(t)) <=> ~(t = <<>> \/ t[Len(t)] = " ")
  BY <1>7 DEF Open, Blank
<1> QED
  BY <1>4, <1>5, <1>6, <1>8, Zenon DEF WordsEnded

(* So it is for every line that has room ...                               *)
LEMMA ArgsOfShort ==
  ASSUME NEW m \in Nat, Text(line, m), m < MaxChar - 1, NEW W, W = WordsMeant(line),
         NEW s, NEW f, RunOver(f, s, m)
  PROVE  /\ f[m + 1].words = SubSeq(W, 1, Min({Len(W), MaxCom - 1}))
         /\ Len(W) < MaxCom - 1 => f[m + 1].read = m + 1
<1>1. m \in 0 .. m /\ m <= MaxChar - 1 /\ m \in 0 .. m + 1
  BY LineAssumption
<1>2. Ended(f[m], m)
  BY <1>1, EndedUpTo
<1>v. PICK v : v = Visible(line)
  OBVIOUS
<1>3. Prefix(m) = line
  BY PrefixGrows
<1>4. W = Split(v) /\ W \in Seq(Seq(Char))
  BY <1>v, EndedWords DEF Text
<1>5. Going(f[m], m, W, Open(v, Len(v))) \/ Full(f[m], W, Open(v, Len(v)))
  BY <1>2, <1>3, <1>4, <1>v, Zenon DEF Ended
<1>6. f[m] \in Args /\ f[m + 1] = Round(f[m], NewLine)
  <2>k. PICK k \in 1 .. m + 1 : k = m + 1 /\ k - 1 = m
    OBVIOUS
  <2>1. f[k] = Round(f[k - 1], s[k])
    BY DEF RunOver
  <2> QED
    BY <1>1, <2>1, <2>k, Zenon DEF RunOver
<1>7. /\ Round(f[m], NewLine).words = SubSeq(W, 1, Min({Len(W), MaxCom - 1}))
      /\ Len(W) < MaxCom - 1 => Round(f[m], NewLine).read = m + 1
  BY <1>4, <1>5, <1>6, LastRound
<1> QED
  BY <1>6, <1>7, Zenon

(* ... and for every longer one.                                           *)
LEMMA ArgsOfLong ==
  ASSUME NEW m \in Nat, Text(line, m), NEW k \in 0 .. m, LastKept(k),
         NEW V, V = WordsEnded(Prefix(k)),
         NEW s, NEW f, RunOver(f, s, m)
  PROVE  Took(f[m + 1], V, k + 1)
<1>1. k \in Nat /\ k <= MaxChar - 1 /\ k \in 0 .. m + 1
  BY LineAssumption DEF LastKept
<1>2. Ended(f[k], k) /\ f[k] \in Args
  <2>1. Ended(f[k], k)
    BY <1>1, EndedUpTo
  <2> QED
    BY <1>1, <2>1, Zenon DEF RunOver
<1>p. PICK p : p = Prefix(k)
  OBVIOUS
<1>v. PICK v : v = Visible(p)
  OBVIOUS
<1>3. p \in Seq(Char)
  <2>1. line \in Seq(Char) /\ Len(line) = m
    BY DEF Text
  <2>2. 1 \in Int /\ k \in Int /\ \A i \in 1 .. k : i \in 1 .. m
    BY <1>1
  <2>3. \A i \in 1 .. k : line[i] \in Char
    BY <2>2, TextFacts
  <2> QED
    BY <1>p, <2>2, <2>3, SubSeqProperties DEF Prefix
<1>4. EndedIn(V, Split(v), Open(v, Len(v)))
  BY <1>3, <1>p, <1>v, EndedWords DEF EndedIn
<1>5. Holding(f[k], k, Split(v), Open(v, Len(v)))
  BY <1>2, <1>p, <1>v, Zenon DEF Ended, Holding
<1>l. PICK l \in 1 .. m + 1 : l = k + 1 /\ l - 1 = k
  BY <1>1
<1>r. PICK r : r = f[l]
  OBVIOUS
<1>6. r = Round(f[k], s[l])
  BY <1>l, <1>r, Zenon DEF RunOver
<1>7. Took(r, V, k + 1) /\ r.done
  <2>1. Took(Round(f[k], s[l]), V, k + 1) /\ Round(f[k], s[l]).done
    BY <1>1, <1>2, <1>4, <1>5, CutRound, Zenon
  <2> QED
    BY <1>6, <2>1, Zenon
<1> DEFINE T == {n \in Nat : l + n <= m + 1 => f[l + n] = r}
<1>8. 0 \in T
  BY <1>r
<1>9. ASSUME NEW n \in Nat, n \in T PROVE n + 1 \in T
  <2> SUFFICES ASSUME l + (n + 1) <= m + 1 PROVE f[l + (n + 1)] = r
    OBVIOUS
  <2>j. PICK j \in 1 .. m + 1 : j = l + (n + 1) /\ j - 1 = l + n
    OBVIOUS
  <2>1. f[j - 1] = r
    BY <1>9, <2>j
  <2>2. f[j] = Round(r, s[j])
    BY <2>1, <2>j, Zenon DEF RunOver
  <2>3. Round(r, s[j]) = r
    BY <1>7, Zenon DEF Round
  <2> QED
    BY <2>2, <2>3, <2>j, Zenon
<1>10. f[m + 1] = r
  <2>n. PICK n \in Nat : n = m - k /\ l + n = m + 1
    BY <1>l
  <2> HIDE DEF T
  <2>1. \A i \in Nat : i \in T
    BY <1>8, <1>9, NaturalSteps
  <2>2. n \in T
    BY <2>1
  <2> QED
    BY <2>2, <2>n DEF T
<1> QED
  BY <1>7, <1>10, Zenon

LEMMA ArgsMeant == ASSUME line \in Seq(Char) PROVE ArgsAreWords
<1>m. PICK m \in Nat : m = Len(line)
  BY LenProperties
<1>s. PICK s : s = Input
  OBVIOUS
<1>1. Text(line, m)
  BY <1>m DEF Text
<1>2. /\ s \in Seq(Char \cup {NewLine}) /\ Len(s) = m + 1
      /\ (\A n \in 1 .. m : s[n] = line[n]) /\ s[m + 1] = NewLine
  <2>1. line \in Seq(Char \cup {NewLine}) /\ NewLine \in Char \cup {NewLine}
    OBVIOUS
  <2> QED
    BY <1>m, <1>s, <2>1, AppendProperties DEF Input
<1>c. PICK c \in Nat : c = MaxChar
  BY LineAssumption
<1>V. PICK V : V = IF m + 1 < c THEN WordsMeant(line) ELSE WordsEnded(SubSeq(line, 1, MaxChar - 1))
  OBVIOUS
<1> SUFFICES /\ Getargs(s).words = SubSeq(V, 1, Min({Len(V), MaxCom - 1}))
             /\ Len(V) < MaxCom - 1 => Getargs(s).read = Min({m + 1, c})
  BY <1>s, <1>2, <1>c, <1>V, Zenon DEF ArgsAreWords
<1>3. m + 1 \in Nat
  OBVIOUS
<1>4. PICK f : /\ f[0] = NoArgs /\ Getargs(s) = f[m + 1]
               /\ \A n \in 0 .. m + 1 : f[n] \in Args
               /\ \A n \in 1 .. m + 1 : f[n] = Round(f[n - 1], s[n])
  BY <1>2, <1>3, GetargsSteps
<1>r. RunOver(f, s, m)
  BY <1>2, <1>4, Zenon DEF RunOver
<1>5. Min({m + 1, c}) = IF m + 1 <= c THEN m + 1 ELSE c
  BY <1>3, MinOfTwo
<1>6. CASE m + 1 < c
  <2>1. m < MaxChar - 1 /\ m + 1 <= c
    BY <1>6, <1>c
  <2>2. V = WordsMeant(line)
    BY <1>6, <1>V
  <2>3. /\ f[m + 1].words = SubSeq(V, 1, Min({Len(V), MaxCom - 1}))
        /\ Len(V) < MaxCom - 1 => f[m + 1].read = m + 1
    BY <1>1, <1>r, <2>1, <2>2, ArgsOfShort
  <2> QED
    BY <1>4, <1>5, <2>1, <2>3, Zenon
<1>7. CASE ~(m + 1 < c)
  <2>k. PICK k \in 0 .. m : LastKept(k) /\ k = MaxChar - 1 /\ k + 1 = c
    BY <1>7, <1>c, LineAssumption DEF LastKept
  <2>1. Min({m + 1, c}) = c
    BY <1>5, <1>7
  <2>2. V = WordsEnded(Prefix(k))
    BY <1>7, <1>V, <2>k, Zenon DEF Prefix
  <2>3. Took(f[m + 1], V, k + 1)
    BY <1>1, <1>r, <2>2, <2>k, ArgsOfLong, Zenon
  <2> QED
    BY <1>4, <2>1, <2>3, <2>k, Zenon DEF Took
<1> QED
  BY <1>6, <1>7

-----------------------------------------------------------------------------
(* Standard input from some character on.                                  *)
AnyChar == Char \cup {NewLine}
Reads(s, m) == s \in Seq(AnyChar) /\ Len(s) = m

LEMMA ReadsFacts ==
  ASSUME NEW s, NEW m \in Nat, Reads(s, m)
  PROVE  \A i \in 1 .. m : s[i] \in AnyChar
  BY ElementOfSeq DEF Reads

(* From(s, p) has the characters of s from p on.                           *)
LEMMA FromFacts ==
  ASSUME NEW s, NEW m \in Nat, Reads(s, m), NEW p \in 1 .. m + 1, NEW n \in Nat, n + p = m + 1
  PROVE  /\ Reads(From(s, p), n)
         /\ \A i \in 1 .. n : From(s, p)[i] = s[p + i - 1]
<1>1. /\ p \in Int /\ m \in Int /\ m - p + 1 = n /\ (IF p <= m THEN m - p + 1 ELSE 0) = n
      /\ \A i \in p .. m : i \in 1 .. m
  OBVIOUS
<1>2. \A i \in p .. m : s[i] \in AnyChar
  BY <1>1, ReadsFacts
<1>f. PICK f : f = SubSeq(s, p, m)
  OBVIOUS
<1>3. /\ f \in Seq(AnyChar) /\ Len(f) = IF p <= m THEN m - p + 1 ELSE 0
      /\ \A i \in 1 .. m - p + 1 : f[i] = s[p + i - 1]
  BY <1>1, <1>2, <1>f, SubSeqProperties
<1>4. f = From(s, p)
  BY <1>f DEF From, Reads
<1> QED
  BY <1>1, <1>3, <1>4, Zenon DEF Reads

Tails(a, s, p, n) == \A i \in 1 .. n : a[i] = s[p + i - 1]

LEMMA FromTails ==
  ASSUME NEW s, NEW m \in Nat, Reads(s, m), NEW p \in 1 .. m + 1, NEW n \in Nat, n + p = m + 1
  PROVE  Reads(From(s, p), n) /\ Tails(From(s, p), s, p, n)
  BY FromFacts DEF Tails

(* What is left of what is left.                                           *)
LEMMA FromFrom ==
  ASSUME NEW s, NEW m \in Nat, Reads(s, m), NEW p \in 1 .. m + 1, NEW k \in Nat, k # 0,
         NEW q \in 1 .. m + 1, q = p + k - 1
  PROVE  From(From(s, p), k) = From(s, q)
<1>n. PICK n \in Nat : n + p = m + 1
  <2>1. m + 1 - p \in Nat /\ m + 1 - p + p = m + 1
    OBVIOUS
  <2> QED
    BY <2>1
<1>r. PICK r \in Nat : r + q = m + 1
  <2>1. m + 1 - q \in Nat /\ m + 1 - q + q = m + 1
    OBVIOUS
  <2> QED
    BY <2>1
<1>a. PICK a : a = From(s, p)
  OBVIOUS
<1>b. PICK b : b = From(s, q)
  OBVIOUS
<1>d. PICK d : d = From(a, k)
  OBVIOUS
<1>1. Reads(a, n) /\ \A i \in 1 .. n : a[i] = s[p + i - 1]
  <2>1. Reads(From(s, p), n) /\ Tails(From(s, p), s, p, n)
    BY <1>n, FromTails
  <2> QED
    BY <1>a, <2>1, Zenon DEF Tails
<1>2. Reads(b, r) /\ \A i \in 1 .. r : b[i] = s[q + i - 1]
  <2>1. Reads(From(s, q), r) /\ Tails(From(s, q), s, q, r)
    BY <1>r, FromTails
  <2> QED
    BY <1>b, <2>1, Zenon DEF Tails
<1>3. k \in 1 .. n + 1 /\ r + k = n + 1
  BY <1>n, <1>r
<1>4. Reads(d, r) /\ \A i \in 1 .. r : d[i] = a[k + i - 1]
  <2>h. PICK h \in 1 .. n + 1 : h = k
    BY <1>3
  <2>1. r + h = n + 1
    BY <1>3, <2>h
  <2>2. Reads(From(a, h), r) /\ Tails(From(a, h), a, h, r)
    <3>1. Reads(a, n)
      BY <1>1
    <3> QED
      BY <2>1, <3>1, FromTails
  <2> QED
    BY <1>d, <2>h, <2>2, Zenon DEF Tails
<1>5. \A i \in 1 .. r : d[i] = b[i]
  <2> SUFFICES ASSUME NEW i \in 1 .. r PROVE d[i] = b[i]
    OBVIOUS
  <2>1. k + i - 1 \in 1 .. n /\ p + (k + i - 1) - 1 = q + i - 1
    BY <1>3
  <2>2. d[i] = s[p + (k + i - 1) - 1]
    BY <1>1, <1>4, <2>1, Zenon
  <2>3. b[i] = s[q + i - 1]
    BY <1>2, Zenon
  <2> QED
    BY <2>1, <2>2, <2>3, Zenon
<1>6. d = b
  <2>1. d \in Seq(AnyChar) /\ b \in Seq(AnyChar) /\ Len(d) = r /\ Len(b) = r
    BY <1>2, <1>4, Zenon DEF Reads
  <2> QED
    BY <1>5, <2>1, SeqEqual
<1> QED
  BY <1>a, <1>b, <1>d, <1>6, Zenon

LEMMA MinIs ==
  ASSUME NEW T, T \subseteq Nat, NEW x \in T, \A y \in T : x <= y
  PROVE  Min(T) = x
<1>1. Min(T) \in T /\ \A y \in T : Min(T) <= y
  BY DEF Min
<1>y. PICK y \in T : y = Min(T)
  BY <1>1
<1>2. x \in Nat /\ y \in Nat /\ x <= y /\ y <= x
  BY <1>1, <1>y
<1> QED
  BY <1>2, <1>y

(* gettoken() from the first character that is no blank.                   *)
Lexed(s) ==
  CASE s = <<>> -> Token("EOF", <<>>, <<>>)
    [] s[1] = ">" /\ s[2] = ">" -> Token("REDIR_APPEND", <<>>, From(s, 3))
    [] s[1] = ">" /\ s[2] # ">" -> Token("REDIR_OUT", <<>>, AfterOut(s))
    [] Special(s[1]) /\ s[1] # ">" -> Token(TypeOf[s[1]], <<>>, From(s, 2))
    [] OTHER -> Word(s)

FirstDark(s) == LET J == {i \in 1 .. Len(s) : s[i] # " "} IN IF J # {} THEN Min(J) ELSE 0

(* gettoken() skips the blanks, and reads the token behind them.           *)
LEMMA GettokenIs ==
  ASSUME NEW s
  PROVE  Gettoken(s) = Lexed(IF FirstDark(s) = 0 THEN <<>> ELSE From(s, FirstDark(s)))
  BY DEF Gettoken, Lexed, SelectInSeq, FirstDark

LEMMA SkipBlanks ==
  ASSUME NEW s, NEW m \in Nat, Reads(s, m), NEW p \in 1 .. m, ~Blank(s, m)
  PROVE  \E j \in p .. m : /\ ~Blank(s, j) /\ \A k \in p .. j - 1 : Blank(s, k)
                           /\ Gettoken(From(s, p)) = Lexed(From(s, j))
<1> DEFINE T == {k \in p .. m : ~Blank(s, k)}
<1>1. T \subseteq Nat /\ m \in T
  OBVIOUS
<1>2. PICK j \in T : \A k \in T : j <= k
  BY <1>1, LeastNatural
<1>3. j \in p .. m /\ ~Blank(s, j)
  OBVIOUS
<1>4. \A k \in p .. j - 1 : Blank(s, k)
  <2> SUFFICES ASSUME NEW k \in p .. j - 1, ~Blank(s, k) PROVE FALSE
    OBVIOUS
  <2>1. k \in p .. m /\ ~(j <= k)
    BY <1>3
  <2>2. k \in T
    BY <2>1
  <2> QED
    BY <1>2, <2>1, <2>2
<1> HIDE DEF T
<1>n. PICK n \in Nat : n + p = m + 1
  <2>1. m + 1 - p \in Nat /\ m + 1 - p + p = m + 1
    OBVIOUS
  <2> QED
    BY <2>1
<1>x. PICK x \in 1 .. n : p + x - 1 = j
  <2>1. j - p + 1 \in 1 .. n /\ p + (j - p + 1) - 1 = j
    BY <1>3, <1>n
  <2> QED
    BY <2>1
<1>a. PICK a : a = From(s, p)
  OBVIOUS
<1>5. Reads(a, n) /\ \A i \in 1 .. n : a[i] = s[p + i - 1]
  BY <1>n, <1>a, FromFacts
<1>6. \A i \in 1 .. n : Blank(a, i) <=> Blank(s, p + i - 1)
  BY <1>5, Zenon DEF Blank
<1> DEFINE J == {i \in 1 .. n : ~Blank(a, i)}
<1>7. x \in J
  BY <1>3, <1>6, <1>x, Zenon
<1>8. \A i \in J : x <= i
  <2> SUFFICES ASSUME NEW i \in 1 .. n, ~Blank(s, p + i - 1), ~(x <= i) PROVE FALSE
    BY <1>6
  <2>1. p + i - 1 \in p .. j - 1
    BY <1>x, <1>3
  <2> QED
    BY <1>4, <2>1
<1>9. FirstDark(a) = x
  <2>1. J \subseteq Nat
    OBVIOUS
  <2>2. Min(J) = x
    <3> HIDE DEF J
    <3> QED
      BY <1>7, <1>8, <2>1, MinIs
  <2>3. Len(a) = n
    BY <1>5, Zenon DEF Reads
  <2>4. FirstDark(a) = IF J # {} THEN Min(J) ELSE 0
    BY <2>3, Zenon DEF FirstDark, Blank
  <2> QED
    BY <1>7, <2>2, <2>4
<1>10. x # 0 /\ x \in Nat /\ j \in 1 .. m + 1 /\ p \in 1 .. m + 1 /\ j = p + x - 1
  BY <1>3, <1>x
<1>11. From(a, x) = From(s, j)
  BY <1>10, <1>a, FromFrom
<1>12. Gettoken(a) = Lexed(From(s, j))
  <2>1. Gettoken(a) = Lexed(IF FirstDark(a) = 0 THEN <<>> ELSE From(a, FirstDark(a)))
    BY GettokenIs
  <2> QED
    BY <1>9, <1>10, <1>11, <2>1, Zenon
<1> QED
  BY <1>3, <1>4, <1>12, <1>a, Zenon

(* What a character is, and where the tokens of a line begin and end.      *)
Ord(t, k) == Ordinary(t[k])
Sp(t, k) == Special(t[k])
Gt(t, k) == t[k] = ">"

(* A character is a blank, ordinary or special; > is special.              *)
LEMMA Kinds ==
  ASSUME NEW t, NEW k, t[k] \in AnyChar
  PROVE  /\ Blank(t, k) => ~Ord(t, k) /\ ~Sp(t, k)
         /\ ~Blank(t, k) => (Ord(t, k) <=> ~Sp(t, k))
         /\ Gt(t, k) => Sp(t, k)
  BY DEF AnyChar, Char, NewLine, Blank, Ord, Sp, Gt, Ordinary, Special

(* The line ends the input, and is followed by its newline.                *)
LEMMA InputIs ==
  ASSUME NEW m \in Nat, Text(line, m)
  PROVE  /\ Reads(Input, m + 1)
         /\ \A k \in 1 .. m : Input[k] = line[k]
         /\ Input[m + 1] = NewLine
         /\ \A k \in 1 .. m : line[k] \in Char
<1>1. line \in Seq(AnyChar) /\ NewLine \in AnyChar /\ Len(line) = m
  BY DEF AnyChar, Text
<1>2. /\ Append(line, NewLine) \in Seq(AnyChar) /\ Len(Append(line, NewLine)) = m + 1
      /\ \A k \in 1 .. m : Append(line, NewLine)[k] = line[k]
      /\ Append(line, NewLine)[m + 1] = NewLine
  BY <1>1, AppendProperties
<1> QED
  BY <1>2, TextFacts, Zenon DEF Input, Reads

LEMMA InputKinds ==
  ASSUME NEW m \in Nat, Text(line, m)
  PROVE  /\ \A k \in 1 .. m : /\ Blank(Input, k) <=> Blank(line, k)
                              /\ Ord(Input, k) <=> Ord(line, k)
                              /\ Sp(Input, k) <=> Sp(line, k)
                              /\ Gt(Input, k) <=> Gt(line, k)
                              /\ Blank(line, k) => ~Ord(line, k) /\ ~Sp(line, k)
                              /\ ~Blank(line, k) => (Ord(line, k) <=> ~Sp(line, k))
                              /\ Gt(line, k) => Sp(line, k)
         /\ ~Blank(Input, m + 1) /\ ~Ord(Input, m + 1) /\ ~Gt(Input, m + 1)
<1>1. /\ \A k \in 1 .. m : Input[k] = line[k] /\ line[k] \in AnyChar
      /\ Input[m + 1] = NewLine
  BY InputIs DEF AnyChar
<1>2. ASSUME NEW k \in 1 .. m
      PROVE  /\ Blank(Input, k) <=> Blank(line, k)
             /\ Ord(Input, k) <=> Ord(line, k)
             /\ Sp(Input, k) <=> Sp(line, k)
             /\ Gt(Input, k) <=> Gt(line, k)
  BY <1>1, Zenon DEF Blank, Ord, Sp, Gt
<1>3. ASSUME NEW k \in 1 .. m
      PROVE  /\ Blank(line, k) => ~Ord(line, k) /\ ~Sp(line, k)
             /\ ~Blank(line, k) => (Ord(line, k) <=> ~Sp(line, k))
             /\ Gt(line, k) => Sp(line, k)
  BY <1>1, Kinds
<1>4. ~Blank(Input, m + 1) /\ ~Ord(Input, m + 1) /\ ~Gt(Input, m + 1)
  <2>1. NewLine # " " /\ ~Ordinary(NewLine) /\ NewLine # ">"
    BY DEF NewLine, Ordinary, Special
  <2> QED
    BY <1>1, <2>1, Zenon DEF Blank, Ord, Gt
<1> QED
  BY <1>2, <1>3, <1>4

(* A row of > is one longer after a >, and starts anew after another.      *)
LEMMA RowGrows ==
  ASSUME NEW s, NEW i \in Nat, i # 0
  PROVE  Row(s, 1) = 0 /\ Row(s, i + 1) = (IF Gt(s, i) THEN Row(s, i) + 1 ELSE 0)
         /\ Row(s, i) \in Nat
<1> DEFINE A(k) == {0} \cup {j \in 1 .. k - 1 : s[j] # ">"}
<1>1. ASSUME NEW k \in Nat, k # 0
      PROVE  A(k) \subseteq 0 .. k - 1 /\ A(k) # {} /\ k - 1 \in Nat
  <2>1. k - 1 \in Nat /\ 0 \in 0 .. k - 1 /\ \A j \in 1 .. k - 1 : j \in 0 .. k - 1
    BY <1>1
  <2>2. 0 \in A(k)
    OBVIOUS
  <2>3. ASSUME NEW j \in A(k) PROVE j \in 0 .. k - 1
    BY <2>1, <2>3, Zenon
  <2> HIDE DEF A
  <2> QED
    BY <2>1, <2>2, <2>3, Zenon
<1>2. ASSUME NEW k \in Nat, k # 0
      PROVE  Max(A(k)) \in A(k) /\ Max(A(k)) \in 0 .. k - 1 /\ \A x \in A(k) : x <= Max(A(k))
  <2> HIDE DEF A
  <2>1. Max(A(k)) \in A(k) /\ \A x \in A(k) : x <= Max(A(k))
    BY <1>1, <1>2, MaxFacts
  <2> QED
    BY <1>1, <1>2, <2>1
<1>3. ASSUME NEW k \in Nat PROVE Row(s, k) = k - 1 - Max(A(k))
  BY DEF Row
<1>j. PICK j \in Nat : j = i + 1 /\ j - 1 = i /\ j # 0
  OBVIOUS
<1>4. 1 .. i = (1 .. i - 1) \cup {i}
  OBVIOUS
<1>5. A(j) = IF Gt(s, i) THEN A(i) ELSE A(i) \cup {i}
  BY <1>4, <1>j, Zenon DEF Gt
<1> HIDE DEF A
<1>6. Row(s, 1) = 0
  <2>1. Max(A(1)) \in 0 .. 1 - 1
    BY <1>2
  <2> QED
    BY <1>3, <2>1
<1>7. Row(s, i) \in Nat
  <2>1. Max(A(i)) \in 0 .. i - 1
    BY <1>2
  <2> QED
    BY <1>3, <2>1
<1>8. CASE Gt(s, i)
  <2>1. A(j) = A(i)
    BY <1>5, <1>8
  <2>x. PICK x \in Nat : x = Max(A(i))
    BY <1>2
  <2>0. Row(s, j) = i - Max(A(j)) /\ Row(s, i) = i - 1 - Max(A(i))
    BY <1>3, <1>j, Zenon
  <2>2. Row(s, j) = i - x /\ Row(s, i) = i - 1 - x
    BY <2>0, <2>1, <2>x, Zenon
  <2>3. Row(s, j) = Row(s, i) + 1
    BY <2>2
  <2> QED
    BY <1>6, <1>7, <1>8, <1>j, <2>3, Zenon
<1>9. CASE ~Gt(s, i)
  <2>1. A(j) = A(i) \cup {i}
    BY <1>5, <1>9
  <2>x. PICK x : x = Max(A(j))
    OBVIOUS
  <2>2. x \in 0 .. i /\ i <= x
    BY <1>2, <1>j, <2>1, <2>x, Zenon
  <2>3. x = i
    BY <2>2
  <2>0. Row(s, j) = i - Max(A(j))
    BY <1>3, <1>j, Zenon
  <2>4. Row(s, j) = i - x
    BY <2>0, <2>x, Zenon
  <2>5. Row(s, j) = 0
    BY <2>3, <2>4
  <2> QED
    BY <1>6, <1>7, <1>9, <1>j, <2>5, Zenon
<1> QED
  BY <1>8, <1>9

LEMMA BeginsIs ==
  ASSUME NEW s, NEW i
  PROVE  Begins(s, i) <=> \/ Ord(s, i) /\ (i = 1 \/ ~Ord(s, i - 1))
                          \/ Sp(s, i) /\ ~Gt(s, i)
                          \/ Gt(s, i) /\ Row(s, i) % 2 = 0
  BY DEF Begins, Ord, Sp, Gt

(* A token begins where its first character is not within the one before.  *)
LEMMA BeginsAfter ==
  ASSUME NEW m \in Nat, Text(line, m), NEW i \in 1 .. m
  PROVE  /\ Blank(line, i) => ~Begins(line, i)
         /\ i = 1 /\ ~Blank(line, i) => Begins(line, i)
         /\ i < m /\ ~Blank(line, i + 1) /\ ~Ord(line, i) /\ ~Gt(line, i) => Begins(line, i + 1)
         /\ i < m /\ ~Blank(line, i + 1) /\ ~Gt(line, i) /\ ~Ord(line, i + 1)
              => Begins(line, i + 1)
         /\ i < m /\ ~Blank(line, i + 1) /\ ~Gt(line, i + 1) /\ Gt(line, i)
              => Begins(line, i + 1)
         /\ i < m /\ Ord(line, i) /\ Ord(line, i + 1) => ~Begins(line, i + 1)
         /\ i < m /\ Gt(line, i) /\ Gt(line, i + 1)
              => (Begins(line, i + 1) <=> ~Begins(line, i))
<1>j. PICK j \in Nat : j = i + 1 /\ j # 1 /\ j - 1 = i /\ (i < m => j \in 1 .. m)
  OBVIOUS
<1>1. i \in Nat /\ i # 0 /\ (i < m => j \in 1 .. m)
  BY <1>j
<1>2. ASSUME NEW k \in 1 .. m
      PROVE  /\ Blank(line, k) => ~Ord(line, k) /\ ~Sp(line, k)
             /\ ~Blank(line, k) => (Ord(line, k) <=> ~Sp(line, k))
             /\ Gt(line, k) => Sp(line, k)
  BY InputKinds
<1>3. Begins(line, i) <=> \/ Ord(line, i) /\ (i = 1 \/ ~Ord(line, i - 1))
                          \/ Sp(line, i) /\ ~Gt(line, i)
                          \/ Gt(line, i) /\ Row(line, i) % 2 = 0
  BY BeginsIs
<1>4. Begins(line, j) <=> \/ Ord(line, j) /\ ~Ord(line, i)
                          \/ Sp(line, j) /\ ~Gt(line, j)
                          \/ Gt(line, j) /\ Row(line, j) % 2 = 0
  <2>1. Begins(line, j) <=> \/ Ord(line, j) /\ (j = 1 \/ ~Ord(line, j - 1))
                            \/ Sp(line, j) /\ ~Gt(line, j)
                            \/ Gt(line, j) /\ Row(line, j) % 2 = 0
    BY BeginsIs
  <2> QED
    BY <1>j, <2>1, Zenon
<1>5. Row(line, 1) = 0 /\ Row(line, i) \in Nat
      /\ Row(line, j) = (IF Gt(line, i) THEN Row(line, i) + 1 ELSE 0)
  BY <1>1, <1>j, RowGrows
<1>6. 0 % 2 = 0
  OBVIOUS
<1>7. (Row(line, i) + 1) % 2 = 0 <=> ~(Row(line, i) % 2 = 0)
  <2>r. PICK r \in Nat : r = Row(line, i)
    BY <1>5
  <2>1. (r + 1) % 2 = 0 <=> ~(r % 2 = 0)
    OBVIOUS
  <2> QED
    BY <2>1, <2>r, Zenon
<1>8. Blank(line, i) => ~Begins(line, i)
  BY <1>2, <1>3, Zenon
<1>9. i = 1 /\ ~Blank(line, i) => Begins(line, i)
  BY <1>2, <1>3, <1>5, <1>6, Zenon
<1>10. ~Gt(line, i) => Row(line, j) % 2 = 0
  BY <1>5, <1>6, Zenon
<1>11. i < m /\ ~Blank(line, j) /\ ~Ord(line, i) /\ ~Gt(line, i) => Begins(line, j)
  BY <1>1, <1>2, <1>4, <1>10, Zenon
<1>12. i < m /\ ~Blank(line, j) /\ ~Gt(line, i) /\ ~Ord(line, j) => Begins(line, j)
  BY <1>1, <1>2, <1>4, <1>10, Zenon
<1>13. i < m /\ ~Blank(line, j) /\ ~Gt(line, j) /\ Gt(line, i) => Begins(line, j)
  <2>1. Gt(line, i) => ~Ord(line, i)
    BY <1>2, Zenon
  <2> QED
    BY <1>1, <1>2, <1>4, <2>1, Zenon
<1>14. i < m /\ Ord(line, i) /\ Ord(line, j) => ~Begins(line, j)
  BY <1>1, <1>2, <1>4, Zenon
<1>15. i < m /\ Gt(line, i) /\ Gt(line, j) => (Begins(line, j) <=> ~Begins(line, i))
  <2>1. Gt(line, i) => Row(line, j) = Row(line, i) + 1
    BY <1>5, Zenon
  <2>2. Gt(line, i) => (Row(line, j) % 2 = 0 <=> ~(Row(line, i) % 2 = 0))
    BY <1>7, <2>1, Zenon
  <2>3. ASSUME i < m, Gt(line, i), Gt(line, j)
        PROVE  /\ Begins(line, i) <=> Row(line, i) % 2 = 0
               /\ Begins(line, j) <=> Row(line, j) % 2 = 0
    <3>1. ~Ord(line, i) /\ ~Ord(line, j)
      BY <1>1, <1>2, <2>3, Zenon
    <3> QED
      BY <1>3, <1>4, <2>3, <3>1, Zenon
  <2> QED
    BY <2>2, <2>3, Zenon
<1> QED
  BY <1>8, <1>9, <1>11, <1>12, <1>13, <1>14, <1>15, <1>j, Zenon

(* A word goes from i to e, and what follows e in the input is none of it. *)
Chain(i, e) == \A k \in i .. e : Ord(line, k)
WordRuns(m, i, e) == e \in i .. m /\ Chain(i, e) /\ ~Ord(Input, e + 1)

(* The reference finds the end of a word.                                  *)
LEMMA WordEndIs ==
  ASSUME NEW m \in Nat, Text(line, m), NEW i \in 1 .. m, Ord(line, i)
  PROVE  WordRuns(m, i, WordEnd(line, i))
<1> DEFINE J == {j \in i .. m : Chain(i, j)}
<1>0. i \in 1 .. m
  OBVIOUS
<1>1. i \in J
  <2>1. \A k \in i .. i : k = i
    BY <1>0
  <2>2. i \in i .. m
    BY <1>0
  <2> QED
    BY <2>1, <2>2 DEF Chain
<1>2. J \subseteq 0 .. m
  BY <1>0
<1> PICK e : e = Max(J)
  OBVIOUS
<1>3. e \in J /\ \A j \in J : j <= e
  BY <1>1, <1>2, MaxFacts
<1>4. e = WordEnd(line, i)
  BY DEF WordEnd, Chain, Text, Ord
<1>d. PICK d \in Nat : d = e + 1
  BY <1>3, <1>0
<1>5. ~Ord(Input, d)
  <2> SUFFICES ASSUME Ord(Input, d) PROVE FALSE
    OBVIOUS
  <2>1. e \in i .. m
    BY <1>3
  <2>2. d # m + 1
    BY InputKinds
  <2>3. d \in 1 .. m /\ d \in i .. m /\ \A k \in i .. d : k \in i .. e \/ k = d
    BY <1>0, <1>d, <2>1, <2>2
  <2>4. Ord(line, d)
    BY <2>3, InputKinds
  <2>5. Chain(i, e)
    BY <1>3
  <2>6. Chain(i, d)
    BY <2>3, <2>4, <2>5 DEF Chain
  <2>7. d <= e
    BY <1>3, <2>3, <2>6
  <2> QED
    BY <1>0, <1>d, <2>1, <2>7
<1> QED
  <2>1. e \in i .. m /\ Chain(i, e)
    BY <1>3
  <2> QED
    BY <1>4, <1>5, <1>d, <2>1, Zenon DEF WordRuns

(* The characters of the input from j on, up to its end.                   *)
LEMMA RestIs ==
  ASSUME NEW m \in Nat, Text(line, m), NEW j \in 1 .. m + 1, NEW n \in Nat, n + j = m + 2
  PROVE  /\ Reads(From(Input, j), n)
         /\ \A i \in 1 .. n : From(Input, j)[i] = Input[j + i - 1]
         /\ n # 0
<1>k. PICK k \in Nat : k = m + 1
  OBVIOUS
<1>1. j \in 1 .. k + 1 /\ n + j = k + 1 /\ n # 0
  BY <1>k
<1>2. Reads(Input, k)
  BY <1>k, InputIs, Zenon
<1>3. Reads(From(Input, j), n) /\ Tails(From(Input, j), Input, j, n)
  BY <1>1, <1>2, FromTails
<1> QED
  BY <1>1, <1>3, Zenon DEF Tails

(* Word() stops at the first character that is not of the word.            *)
Stop(s) == SelectInSeq(s, LAMBDA c : ~Ordinary(c))

(* So does the loop of Word(), counted from where it begins.               *)
LEMMA StopIs ==
  ASSUME NEW m \in Nat, Text(line, m), NEW j \in 1 .. m, NEW e, WordRuns(m, j, e),
         NEW n \in Nat, n + j = m + 2, NEW x \in Nat, x + j = e + 2
  PROVE  Stop(From(Input, j)) = x /\ x \in 1 .. n
<1>0. e \in j .. m /\ j \in 1 .. m /\ Chain(j, e) /\ ~Ord(Input, e + 1)
  BY DEF WordRuns
<1>d. PICK d \in 1 .. m + 1 : d = e + 1
  BY <1>0
<1>x. x \in 1 .. n /\ j + x - 1 = d
  BY <1>0, <1>d
<1>a. PICK a : a = From(Input, j)
  OBVIOUS
<1>1. Reads(a, n) /\ \A i \in 1 .. n : a[i] = Input[j + i - 1]
  <2>1. j \in 1 .. m + 1
    OBVIOUS
  <2> QED
    BY <1>a, <2>1, RestIs
<1>2. \A i \in 1 .. n : Ord(a, i) <=> Ord(Input, j + i - 1)
  BY <1>1, Zenon DEF Ord
<1> DEFINE K == {i \in 1 .. n : ~Ord(a, i)}
<1>3. x \in K
  BY <1>0, <1>2, <1>d, <1>x, Zenon
<1>4. \A i \in K : x <= i
  <2> SUFFICES ASSUME NEW i \in 1 .. n, ~Ord(Input, j + i - 1), ~(x <= i) PROVE FALSE
    BY <1>2
  <2>k. PICK k \in 1 .. m : k = j + i - 1 /\ k \in j .. e
    BY <1>0, <1>x
  <2>1. Ord(line, k)
    BY <1>0, <2>k DEF Chain
  <2>2. Ord(Input, k)
    BY <2>1, InputKinds
  <2> QED
    BY <2>2, <2>k
<1>5. K # {} /\ Min(K) = x
  <2>1. K \subseteq Nat
    OBVIOUS
  <2> HIDE DEF K
  <2> QED
    BY <1>3, <1>4, <2>1, MinIs
<1>6. Stop(a) = x
  <2>1. Len(a) = n
    BY <1>1, Zenon DEF Reads
  <2>2. K = {i \in 1 .. Len(a) : ~Ordinary(a[i])}
    BY <2>1, Zenon DEF Ord
  <2> HIDE DEF K
  <2> QED
    BY <1>5, <2>2 DEF Stop, SelectInSeq
<1> QED
  BY <1>6, <1>a, <1>x, Zenon

(* Word() by whether the loop ends at the end of the word or by its count. *)
LEMMA WordBy ==
  ASSUME NEW s
  PROVE  /\ Stop(s) - 1 < TokenLen - 1 /\ Stop(s) - 1 # TokenLen - 1 =>
              Word(s) = Token("NORMAL", SubSeq(s, 1, Stop(s) - 1), From(s, Stop(s)))
         /\ ~(Stop(s) - 1 < TokenLen - 1) =>
              Word(s) = Token("NORMAL", SubSeq(s, 1, TokenLen - 1), From(s, TokenLen - 1))
<1>1. Word(s) =
        LET k == IF Stop(s) - 1 < TokenLen - 1 THEN Stop(s) - 1 ELSE TokenLen - 1
        IN Token("NORMAL", SubSeq(s, 1, k), From(s, IF k = TokenLen - 1 THEN k ELSE Stop(s)))
  BY DEF Word, Stop
<1> QED
  BY <1>1, Zenon

(* It reads a word that is short enough to its end.                        *)
LEMMA WordIs ==
  ASSUME NEW m \in Nat, Text(line, m), NEW j \in 1 .. m, NEW e, WordRuns(m, j, e),
         e - j < TokenLen - 2
  PROVE  Word(From(Input, j)) = Token("NORMAL", SubSeq(line, j, e), From(Input, e + 1))
<1>0. e \in j .. m /\ j \in 1 .. m /\ Chain(j, e) /\ ~Ord(Input, e + 1)
  BY DEF WordRuns
<1>n. PICK n \in Nat : n + j = m + 2
  <2>1. m + 2 - j \in Nat /\ m + 2 - j + j = m + 2
    OBVIOUS
  <2> QED
    BY <2>1
<1>d. PICK d \in 1 .. m + 1 : d = e + 1
  BY <1>0
<1>x. PICK x \in 1 .. n : j + x - 1 = d /\ x - 1 = e - j + 1 /\ x + j = e + 2 /\ x \in Nat
  <2>1. d - j + 1 \in 1 .. n /\ j + (d - j + 1) - 1 = d /\ d - j + 1 - 1 = e - j + 1
    BY <1>0, <1>n, <1>d
  <2>2. d - j + 1 + j = e + 2 /\ d - j + 1 \in Nat
    BY <1>0, <1>n, <1>d
  <2> QED
    BY <2>1, <2>2
<1>a. PICK a : a = From(Input, j)
  OBVIOUS
<1>1. Reads(a, n) /\ \A i \in 1 .. n : a[i] = Input[j + i - 1]
  <2>1. j \in 1 .. m + 1
    OBVIOUS
  <2> QED
    BY <1>n, <1>a, <2>1, RestIs
<1>6. Stop(a) = x
  BY <1>n, <1>a, <1>x, StopIs
<1>7. x - 1 < TokenLen - 1 /\ x - 1 # TokenLen - 1 /\ x # 0 /\ x \in Nat /\ TokenLen \in Nat
  BY <1>0, <1>x, LineAssumption
<1>8. Word(a) = Token("NORMAL", SubSeq(a, 1, x - 1), From(a, x))
  BY <1>6, <1>7, WordBy, Zenon
<1>9. From(a, x) = From(Input, d)
  <2>k. PICK k \in Nat : k = m + 1
    OBVIOUS
  <2>1. Reads(Input, k) /\ j \in 1 .. k + 1 /\ d \in 1 .. k + 1 /\ d = j + x - 1
    BY <1>x, <2>k, InputIs
  <2> QED
    BY <1>7, <1>a, <2>1, FromFrom
<1>10. SubSeq(a, 1, x - 1) = SubSeq(line, j, e)
  <2>y. PICK y \in Nat : y = x - 1
    BY <1>7
  <2>b. PICK b : b = SubSeq(a, 1, y)
    OBVIOUS
  <2>c. PICK c : c = SubSeq(line, j, e)
    OBVIOUS
  <2>0. \A i \in 1 .. m : line[i] \in AnyChar
    BY InputIs DEF AnyChar
  <2>1. /\ b \in Seq(AnyChar) /\ Len(b) = y
        /\ \A i \in 1 .. y : b[i] = a[i]
    <3>1. y \in 0 .. n /\ (IF 1 <= y THEN y - 1 + 1 ELSE 0) = y /\ \A i \in 1 .. y : i \in 1 .. n
      BY <1>x, <2>y
    <3>2. \A i \in 1 .. y : a[i] \in AnyChar
      <4>1. Reads(a, n)
        BY <1>1
      <4> QED
        BY <3>1, <4>1, ReadsFacts
    <3>3. 1 \in Int /\ y \in Int
      OBVIOUS
    <3>4. /\ b \in Seq(AnyChar) /\ Len(b) = IF 1 <= y THEN y - 1 + 1 ELSE 0
          /\ \A i \in 1 .. y - 1 + 1 : b[i] = a[1 + i - 1]
      BY <3>2, <3>3, <2>b, SubSeqProperties
    <3>5. \A i \in 1 .. y : b[i] = a[i]
      <4> SUFFICES ASSUME NEW i \in 1 .. y PROVE b[i] = a[i]
        OBVIOUS
      <4>1. i \in 1 .. y - 1 + 1 /\ 1 + i - 1 = i
        OBVIOUS
      <4> QED
        BY <3>4, <4>1, Zenon
    <3>6. Len(b) = y
      <4>1. Len(b) = IF 1 <= y THEN y - 1 + 1 ELSE 0
        BY <3>4
      <4> QED
        BY <4>1
    <3> QED
      BY <3>4, <3>5, <3>6, Zenon
  <2>2. /\ c \in Seq(AnyChar) /\ Len(c) = y
        /\ \A i \in 1 .. y : c[i] = line[j + i - 1]
    <3>1. /\ (IF j <= e THEN e - j + 1 ELSE 0) = y /\ e - j + 1 = y /\ j \in Int /\ e \in Int
          /\ \A i \in j .. e : i \in 1 .. m
      BY <1>0, <1>x, <2>y
    <3>2. \A i \in j .. e : line[i] \in AnyChar
      BY <3>1, <2>0
    <3>3. /\ c \in Seq(AnyChar) /\ Len(c) = IF j <= e THEN e - j + 1 ELSE 0
          /\ \A i \in 1 .. e - j + 1 : c[i] = line[j + i - 1]
      BY <3>1, <3>2, <2>c, SubSeqProperties
    <3> QED
      BY <3>1, <3>3, Zenon
  <2>3. \A i \in 1 .. y : b[i] = c[i]
    <3> SUFFICES ASSUME NEW i \in 1 .. y PROVE b[i] = c[i]
      OBVIOUS
    <3>1. i \in 1 .. n /\ j + i - 1 \in 1 .. m
      BY <1>0, <1>x, <2>y
    <3>2. Input[j + i - 1] = line[j + i - 1]
      BY <3>1, InputIs
    <3> QED
      BY <1>1, <2>1, <2>2, <3>1, <3>2, Zenon
  <2>4. b = c
    BY <2>1, <2>2, <2>3, SeqEqual
  <2> QED
    BY <2>b, <2>c, <2>y, <2>4, Zenon
<1> QED
  BY <1>8, <1>9, <1>10, <1>a, <1>d, Zenon

(* gettoken() by the first characters it has.                              *)
LEMMA LexedCases ==
  ASSUME NEW s, NEW n \in Nat, Reads(s, n), n # 0
  PROVE  /\ Ord(s, 1) => Lexed(s) = Word(s)
         /\ Gt(s, 1) /\ Gt(s, 2) => Lexed(s) = Token("REDIR_APPEND", <<>>, From(s, 3))
         /\ Gt(s, 1) /\ ~Gt(s, 2) => Lexed(s) = Token("REDIR_OUT", <<>>, From(s, 2))
         /\ Sp(s, 1) /\ ~Gt(s, 1) => Lexed(s) = Token(TypeOf[s[1]], <<>>, From(s, 2))
<1>1. s # <<>>
  BY DEF Reads
<1>2. Ord(s, 1) => ~Sp(s, 1)
  BY DEF Ord, Sp, Ordinary
<1>3. Gt(s, 1) => Sp(s, 1)
  BY DEF Gt, Sp, Special
<1>4. Lexed(s) =
        CASE s = <<>> -> Token("EOF", <<>>, <<>>)
          [] Gt(s, 1) /\ Gt(s, 2) -> Token("REDIR_APPEND", <<>>, From(s, 3))
          [] Gt(s, 1) /\ ~Gt(s, 2) -> Token("REDIR_OUT", <<>>, From(s, 2))
          [] Sp(s, 1) /\ ~Gt(s, 1) -> Token(TypeOf[s[1]], <<>>, From(s, 2))
          [] OTHER -> Word(s)
  BY Zenon DEF Lexed, Gt, Sp, AfterOut
<1> QED
  BY <1>1, <1>2, <1>3, <1>4

(* What the reference says of the token that begins at i.                  *)
Meant(s, i) ==
  IF Ordinary(s[i]) THEN [type |-> "NORMAL", text |-> SubSeq(s, i, WordEnd(s, i))]
  ELSE [type |-> IF s[i] = ">" /\ Append(s, NewLine)[i + 1] = ">" THEN "REDIR_APPEND"
                 ELSE TypeOf[s[i]],
        text |-> <<>>]

LEMMA MeantIs ==
  ASSUME NEW i, NEW d, d = i + 1
  PROVE  /\ Ord(line, i) => Meant(line, i) = [type |-> "NORMAL",
                                              text |-> SubSeq(line, i, WordEnd(line, i))]
         /\ ~Ord(line, i) /\ Gt(line, i) /\ Gt(Input, d) =>
              Meant(line, i) = [type |-> "REDIR_APPEND", text |-> <<>>]
         /\ ~Ord(line, i) /\ Gt(line, i) /\ ~Gt(Input, d) =>
              Meant(line, i) = [type |-> TypeOf[line[i]], text |-> <<>>]
         /\ ~Ord(line, i) /\ ~Gt(line, i) =>
              Meant(line, i) = [type |-> TypeOf[line[i]], text |-> <<>>]
<1>1. Meant(line, i) =
        IF Ord(line, i) THEN [type |-> "NORMAL", text |-> SubSeq(line, i, WordEnd(line, i))]
        ELSE [type |-> IF Gt(line, i) /\ Gt(Input, d) THEN "REDIR_APPEND" ELSE TypeOf[line[i]],
              text |-> <<>>]
  BY Zenon DEF Meant, Ord, Gt, Input
<1> QED
  BY <1>1, Zenon

(* The types of gettoken()'s tokens.                                       *)
LEMMA Types ==
  ASSUME NEW c, Special(c)
  PROVE  /\ TypeOf[">"] = "REDIR_OUT" /\ TypeOf[NewLine] = "EOL"
         /\ c # NewLine => TypeOf[c] \notin {"EOL", "EOF"}
<1>1. Special(c) <=> c \in {"|", "<", ">", "&", NewLine}
  BY DEF Special
<1>2. TypeOf[">"] = "REDIR_OUT" /\ TypeOf["|"] = "PIPE" /\ TypeOf["<"] = "REDIR_IN"
      /\ TypeOf["&"] = "BG" /\ TypeOf[NewLine] = "EOL"
  BY DEF TypeOf, NewLine
<1>3. c = ">" \/ c = "|" \/ c = "<" \/ c = "&" \/ c = NewLine
  BY <1>1
<1>4. c # NewLine => TypeOf[c] \in {"REDIR_OUT", "PIPE", "REDIR_IN", "BG"}
  BY <1>2, <1>3
<1>5. \A x \in {"REDIR_OUT", "PIPE", "REDIR_IN", "BG"} : x \notin {"EOL", "EOF"}
  OBVIOUS
<1> QED
  BY <1>2, <1>4, <1>5, Zenon

(* One token: from where it begins up to q, where the next may begin.      *)
LexedTo(j, q) ==
  \E t : /\ Lexed(From(Input, j)) = t /\ t.type \notin {"EOL", "EOF"}
         /\ [type |-> t.type, text |-> t.text] = Meant(line, j) /\ t.rest = From(Input, q)

LEMMA TokenFields ==
  ASSUME NEW type, NEW text, NEW rest, type \notin {"EOL", "EOF"}
  PROVE  \E t : /\ Token(type, text, rest) = t /\ t.type \notin {"EOL", "EOF"}
                /\ [type |-> t.type, text |-> t.text] = [type |-> type, text |-> text]
                /\ t.rest = rest
<1>t. PICK t : t = Token(type, text, rest)
  OBVIOUS
<1>1. t.type = type /\ t.text = text /\ t.rest = rest
  BY <1>t DEF Token
<1> QED
  BY <1>t, <1>1, Zenon

(* One token is taken from j to q if it is the one meant, and q is where   *)
(* the rest begins.                                                        *)
LEMMA LexedToIs ==
  ASSUME NEW j, NEW q, NEW type, NEW text, type \notin {"EOL", "EOF"},
         Lexed(From(Input, j)) = Token(type, text, From(Input, q)),
         Meant(line, j) = [type |-> type, text |-> text]
  PROVE  LexedTo(j, q)
<1>r. PICK rest : rest = From(Input, q)
  OBVIOUS
<1>1. \E t : /\ Token(type, text, rest) = t /\ t.type \notin {"EOL", "EOF"}
             /\ [type |-> t.type, text |-> t.text] = [type |-> type, text |-> text]
             /\ t.rest = rest
  BY TokenFields
<1> QED
  BY <1>1, <1>r, Zenon DEF LexedTo

(* Where the token that begins at j ends, as gettoken() reads it: the next *)
(* one begins at q, if there is no blank, and none in between.             *)
NoneWithin(j, q) == \A k \in j + 1 .. q - 1 : ~Begins(line, k)
MayBegin(m, q) == q \in 1 .. m + 1 /\ (q <= m /\ ~Blank(line, q) => Begins(line, q))
TokenEnds(m, j, q) == LexedTo(j, q) /\ NoneWithin(j, q) /\ MayBegin(m, q) /\ j < q

LEMMA OneKind ==
  ASSUME NEW m \in Nat, Text(line, m), NEW k \in 1 .. m
  PROVE  /\ Ord(line, k) => ~Gt(line, k) /\ ~Sp(line, k) /\ ~Blank(line, k)
         /\ Sp(line, k) => ~Blank(line, k)
         /\ Gt(line, k) => Sp(line, k)
         /\ ~Blank(line, k) /\ ~Ord(line, k) => Sp(line, k)
<1>1. /\ Blank(line, k) => ~Ord(line, k) /\ ~Sp(line, k)
      /\ ~Blank(line, k) => (Ord(line, k) <=> ~Sp(line, k))
      /\ Gt(line, k) => Sp(line, k)
  BY InputKinds
<1> QED
  BY <1>1, Zenon

(* The first two characters of the input from j on.                        *)
LEMMA FirstOfRest ==
  ASSUME NEW m \in Nat, Text(line, m), NEW j \in 1 .. m,
         NEW d \in Nat, d = j + 1, NEW n \in Nat, n + j = m + 2
  PROVE  LET s == From(Input, j)
         IN /\ Reads(s, n) /\ n # 0 /\ s[1] = line[j]
            /\ Ord(s, 1) <=> Ord(line, j)
            /\ Sp(s, 1) <=> Sp(line, j)
            /\ Gt(s, 1) <=> Gt(line, j)
            /\ Gt(s, 2) <=> Gt(Input, d)
<1>s. PICK s : s = From(Input, j)
  OBVIOUS
<1>0. j \in 1 .. m + 1 /\ 1 \in 1 .. n /\ 2 \in 1 .. n /\ j + 1 - 1 = j /\ j + 2 - 1 = d
  OBVIOUS
<1>1. Reads(s, n) /\ n # 0 /\ \A i \in 1 .. n : s[i] = Input[j + i - 1]
  <2>1. /\ Reads(From(Input, j), n)
        /\ \A i \in 1 .. n : From(Input, j)[i] = Input[j + i - 1]
        /\ n # 0
    BY <1>0, RestIs
  <2> QED
    BY <1>s, <2>1, Zenon
<1>2. s[1] = Input[j] /\ s[2] = Input[d]
  BY <1>0, <1>1, Zenon
<1>3. Input[j] = line[j]
  BY InputIs
<1>4. s[1] = line[j] /\ (Ord(s, 1) <=> Ord(line, j)) /\ (Sp(s, 1) <=> Sp(line, j))
      /\ (Gt(s, 1) <=> Gt(line, j)) /\ (Gt(s, 2) <=> Gt(Input, d))
  BY <1>2, <1>3, Zenon DEF Ord, Sp, Gt
<1> QED
  BY <1>1, <1>4, <1>s, Zenon

(* A short word.                                                           *)
LEMMA WordEnds ==
  ASSUME NEW m \in Nat, Text(line, m), NEW j \in 1 .. m, Ord(line, j),
         WordEnd(line, j) - j < TokenLen - 2
  PROVE  \E q : TokenEnds(m, j, q)
<1>e. PICK e : e = WordEnd(line, j)
  OBVIOUS
<1>1. WordRuns(m, j, e)
  BY <1>e, WordEndIs, Zenon
<1>2. e \in j .. m /\ Chain(j, e) /\ ~Ord(Input, e + 1) /\ e - j < TokenLen - 2
  BY <1>1, <1>e DEF WordRuns
<1>q. PICK q \in Nat : q = e + 1 /\ q - 1 = e
  BY <1>2
<1>n. PICK n \in Nat : n + j = m + 2
  <2>1. m + 2 - j \in Nat /\ m + 2 - j + j = m + 2
    OBVIOUS
  <2> QED
    BY <2>1
<1>d. PICK d \in Nat : d = j + 1
  OBVIOUS
<1>3. Lexed(From(Input, j)) = Word(From(Input, j))
  <2>s. PICK s : s = From(Input, j)
    OBVIOUS
  <2>1. Reads(s, n) /\ n # 0 /\ Ord(s, 1)
    BY <1>n, <1>d, <2>s, FirstOfRest
  <2>2. Ord(s, 1) => Lexed(s) = Word(s)
    BY <2>1, LexedCases
  <2> QED
    BY <2>s, <2>1, <2>2, Zenon
<1>4. Word(From(Input, j)) = Token("NORMAL", SubSeq(line, j, e), From(Input, q))
  <2>1. Word(From(Input, j)) = Token("NORMAL", SubSeq(line, j, e), From(Input, e + 1))
    BY <1>1, <1>2, WordIs
  <2> QED
    BY <1>q, <2>1, Zenon
<1>5. Meant(line, j) = [type |-> "NORMAL", text |-> SubSeq(line, j, e)]
  BY <1>d, <1>e, MeantIs, Zenon
<1>6. LexedTo(j, q)
  <2>1. "NORMAL" \notin {"EOL", "EOF"}
    OBVIOUS
  <2>2. Lexed(From(Input, j)) = Token("NORMAL", SubSeq(line, j, e), From(Input, q))
    BY <1>3, <1>4, Zenon
  <2> QED
    BY <1>5, <2>1, <2>2, LexedToIs
<1>7. NoneWithin(j, q)
  <2> SUFFICES ASSUME NEW k \in j + 1 .. q - 1 PROVE ~Begins(line, k)
    BY DEF NoneWithin
  <2>i. PICK i \in 1 .. m : i + 1 = k /\ i \in j .. e /\ k \in j .. e /\ i < m
    <3>1. k - 1 \in 1 .. m /\ k - 1 + 1 = k /\ k - 1 \in j .. e /\ k \in j .. e /\ k - 1 < m
      BY <1>2, <1>q
    <3> QED
      BY <3>1
  <2>1. Ord(line, i) /\ Ord(line, k)
    BY <1>2, <2>i DEF Chain
  <2>2. i < m /\ Ord(line, i) /\ Ord(line, i + 1) => ~Begins(line, i + 1)
    BY BeginsAfter
  <2> QED
    BY <2>i, <2>1, <2>2, Zenon
<1>8. MayBegin(m, q)
  <2>1. q \in 1 .. m + 1 /\ e \in 1 .. m /\ (q <= m => e < m /\ q \in 1 .. m) /\ e \in j .. e
    BY <1>2, <1>q
  <2>2. Ord(line, e)
    BY <1>2, <2>1 DEF Chain
  <2>3. q <= m => ~Ord(line, q)
    <3>1. q <= m => (Ord(Input, q) <=> Ord(line, q))
      BY <2>1, InputKinds
    <3> QED
      BY <1>2, <1>q, <3>1, Zenon
  <2>4. ~Gt(line, e)
    BY <2>1, <2>2, OneKind
  <2>5. e < m /\ ~Blank(line, e + 1) /\ ~Gt(line, e) /\ ~Ord(line, e + 1) => Begins(line, e + 1)
    BY <2>1, BeginsAfter
  <2>6. q <= m /\ ~Blank(line, q) => Begins(line, q)
    BY <1>q, <2>1, <2>3, <2>4, <2>5, Zenon
  <2> QED
    BY <2>1, <2>6 DEF MayBegin
<1> QED
  <2>1. j < q
    BY <1>2, <1>q
  <2> QED
    BY <1>6, <1>7, <1>8, <2>1 DEF TokenEnds

(* A character with a meaning: two of them are one token if they are >.    *)
LEMMA SpecialEnds ==
  ASSUME NEW m \in Nat, Text(line, m), NEW j \in 1 .. m, Begins(line, j), Sp(line, j)
  PROVE  \E q : TokenEnds(m, j, q)
<1>n. PICK n \in Nat : n + j = m + 2
  <2>1. m + 2 - j \in Nat /\ m + 2 - j + j = m + 2
    OBVIOUS
  <2> QED
    BY <2>1
<1>d. PICK d \in 1 .. m + 1 : d = j + 1 /\ d - 1 = j /\ j < d
  OBVIOUS
<1>0. d \in Nat /\ d = j + 1
  BY <1>d
<1>s. PICK s : s = From(Input, j)
  OBVIOUS
<1>1. /\ Reads(s, n) /\ n # 0 /\ s[1] = line[j]
      /\ Sp(s, 1)
      /\ Gt(s, 1) <=> Gt(line, j)
      /\ Gt(s, 2) <=> Gt(Input, d)
  BY <1>n, <1>0, <1>s, FirstOfRest
<1>2. ~Ord(line, j) /\ ~Blank(line, j)
  BY OneKind
<1>3. /\ Gt(s, 1) /\ Gt(s, 2) => Lexed(s) = Token("REDIR_APPEND", <<>>, From(s, 3))
      /\ Gt(s, 1) /\ ~Gt(s, 2) => Lexed(s) = Token("REDIR_OUT", <<>>, From(s, 2))
      /\ ~Gt(s, 1) => Lexed(s) = Token(TypeOf[s[1]], <<>>, From(s, 2))
  <2>1. Reads(s, n) /\ n # 0
    BY <1>1
  <2>2. /\ Gt(s, 1) /\ Gt(s, 2) => Lexed(s) = Token("REDIR_APPEND", <<>>, From(s, 3))
        /\ Gt(s, 1) /\ ~Gt(s, 2) => Lexed(s) = Token("REDIR_OUT", <<>>, From(s, 2))
        /\ Sp(s, 1) /\ ~Gt(s, 1) => Lexed(s) = Token(TypeOf[s[1]], <<>>, From(s, 2))
    BY <2>1, LexedCases
  <2> QED
    BY <1>1, <2>2, Zenon
<1>4. /\ Gt(line, j) /\ Gt(Input, d) =>
           Meant(line, j) = [type |-> "REDIR_APPEND", text |-> <<>>]
      /\ Gt(line, j) /\ ~Gt(Input, d) =>
           Meant(line, j) = [type |-> TypeOf[line[j]], text |-> <<>>]
      /\ ~Gt(line, j) =>
           Meant(line, j) = [type |-> TypeOf[line[j]], text |-> <<>>]
  BY <1>0, <1>2, MeantIs, Zenon
<1>k. PICK k \in Nat : k = m + 1
  OBVIOUS
<1>5. Reads(Input, k)
  BY <1>k, InputIs, Zenon
<1>6. From(s, 2) = From(Input, d)
  <2>1. j \in 1 .. k + 1 /\ d \in 1 .. k + 1 /\ d = j + 2 - 1 /\ 2 \in Nat /\ 2 # 0
    BY <1>d, <1>k
  <2> QED
    BY <1>5, <1>s, <2>1, FromFrom
<1>7. /\ d <= m => d \in 1 .. m /\ j < m
      /\ j < m /\ ~Blank(line, d) /\ ~Ord(line, j) /\ ~Gt(line, j) => Begins(line, d)
      /\ j < m /\ ~Blank(line, d) /\ ~Gt(line, d) /\ Gt(line, j) => Begins(line, d)
      /\ j < m /\ Gt(line, j) /\ Gt(line, d) => (Begins(line, d) <=> ~Begins(line, j))
  <2>1. d <= m => d \in 1 .. m /\ j < m
    BY <1>d
  <2>2. /\ j < m /\ ~Blank(line, j + 1) /\ ~Ord(line, j) /\ ~Gt(line, j) => Begins(line, j + 1)
        /\ j < m /\ ~Blank(line, j + 1) /\ ~Gt(line, j + 1) /\ Gt(line, j)
             => Begins(line, j + 1)
        /\ j < m /\ Gt(line, j) /\ Gt(line, j + 1)
             => (Begins(line, j + 1) <=> ~Begins(line, j))
    BY BeginsAfter
  <2> QED
    BY <1>d, <2>1, <2>2, Zenon
<1>8. d <= m => (Gt(Input, d) <=> Gt(line, d))
  BY <1>7, InputKinds
<1>9. Special(line[j]) /\ line[j] # NewLine
  <2>1. line[j] \in Char /\ \A c \in Char : c # NewLine
    <3>1. line[j] \in Char
      BY InputIs
    <3>2. \A c \in Char : c # NewLine
      BY DEF Char, NewLine
    <3> QED
      BY <3>1, <3>2
  <2> QED
    BY <2>1, Zenon DEF Sp
<1>10. TypeOf[line[j]] \notin {"EOL", "EOF"}
  BY <1>9, Types
<1>11. CASE Gt(line, j) /\ Gt(Input, d)
  <2>1. d # m + 1 /\ d <= m
    <3>1. d # m + 1
      BY <1>11, InputKinds
    <3> QED
      BY <1>d, <3>1
  <2>q. PICK q \in 1 .. m + 1 : q = d + 1 /\ q - 1 = d /\ j < q
    <3>1. d + 1 \in 1 .. m + 1 /\ d + 1 - 1 = d /\ j < d + 1
      BY <1>d, <2>1
    <3> QED
      BY <3>1
  <2>2. From(s, 3) = From(Input, q)
    <3>1. j \in 1 .. k + 1 /\ q \in 1 .. k + 1 /\ q = j + 3 - 1 /\ 3 \in Nat /\ 3 # 0
      BY <1>d, <1>k, <2>q
    <3> QED
      BY <1>5, <1>s, <3>1, FromFrom
  <2>3. Lexed(From(Input, j)) = Token("REDIR_APPEND", <<>>, From(Input, q))
    BY <1>1, <1>3, <1>11, <1>s, <2>2, Zenon
  <2>4. Meant(line, j) = [type |-> "REDIR_APPEND", text |-> <<>>]
    BY <1>4, <1>11, Zenon
  <2>5. LexedTo(j, q)
    <3>1. "REDIR_APPEND" \notin {"EOL", "EOF"}
      OBVIOUS
    <3> QED
      BY <2>3, <2>4, <3>1, LexedToIs
  <2>6. ~Begins(line, d) /\ Gt(line, d)
    BY <1>7, <1>8, <1>11, <2>1, Zenon
  <2>7. NoneWithin(j, q)
    <3>1. \A i \in j + 1 .. q - 1 : i = d
      BY <1>d, <2>q
    <3> QED
      BY <2>6, <3>1, Zenon DEF NoneWithin
  <2>8. q <= m /\ ~Blank(line, q) => Begins(line, q)
    <3>1. /\ d < m /\ ~Blank(line, d + 1) /\ ~Gt(line, d + 1) /\ Gt(line, d)
               => Begins(line, d + 1)
          /\ d < m /\ Gt(line, d) /\ Gt(line, d + 1)
               => (Begins(line, d + 1) <=> ~Begins(line, d))
      BY <1>7, <2>1, BeginsAfter
    <3>2. q <= m => d < m
      BY <2>q
    <3> QED
      BY <2>6, <2>q, <3>1, <3>2, Zenon
  <2> QED
    BY <2>5, <2>7, <2>8, <2>q DEF TokenEnds, MayBegin
<1>12. NoneWithin(j, d)
  <2>1. \A i \in j + 1 .. d - 1 : FALSE
    BY <1>d
  <2> QED
    BY <2>1, Zenon DEF NoneWithin
<1>13. CASE ~(Gt(line, j) /\ Gt(Input, d))
  <2>1. Lexed(From(Input, j)) = Token(TypeOf[line[j]], <<>>, From(Input, d))
    <3>1. Gt(line, j) => Lexed(s) = Token("REDIR_OUT", <<>>, From(Input, d))
      BY <1>1, <1>3, <1>6, <1>13, Zenon
    <3>2. Gt(line, j) => TypeOf[line[j]] = "REDIR_OUT"
      <4>1. TypeOf[">"] = "REDIR_OUT"
        BY <1>9, Types
      <4> QED
        BY <4>1, Zenon DEF Gt
    <3>3. ~Gt(line, j) => Lexed(s) = Token(TypeOf[line[j]], <<>>, From(Input, d))
      BY <1>1, <1>3, <1>6, Zenon
    <3> QED
      BY <1>s, <3>1, <3>2, <3>3, Zenon
  <2>2. Meant(line, j) = [type |-> TypeOf[line[j]], text |-> <<>>]
    BY <1>4, <1>13, Zenon
  <2>3. LexedTo(j, d)
    BY <1>10, <2>1, <2>2, LexedToIs
  <2>4. d <= m /\ ~Blank(line, d) => Begins(line, d)
    BY <1>2, <1>7, <1>8, <1>13, Zenon
  <2> QED
    BY <1>12, <1>d, <2>3, <2>4 DEF TokenEnds, MayBegin
<1> QED
  BY <1>11, <1>13

(* The newline is the end.                                                 *)
LEMMA LexedEnd ==
  ASSUME NEW m \in Nat, Text(line, m), NEW k \in Nat, k = m + 1
  PROVE  Lexed(From(Input, k)).type = "EOL"
<1>s. PICK s : s = From(Input, k)
  OBVIOUS
<1>0. 1 \in Nat /\ 1 # 0 /\ 1 + k = m + 2 /\ k \in 1 .. m + 1 /\ 1 \in 1 .. 1 /\ k + 1 - 1 = k
  OBVIOUS
<1>1. Reads(s, 1) /\ \A i \in 1 .. 1 : s[i] = Input[k + i - 1]
  BY <1>0, <1>s, RestIs
<1>2. s[1] = NewLine
  <2>1. s[1] = Input[k]
    BY <1>0, <1>1, Zenon
  <2>2. Input[m + 1] = NewLine
    BY InputIs
  <2> QED
    BY <2>1, <2>2, Zenon
<1>3. Special(NewLine) /\ NewLine # ">"
  BY DEF Special, NewLine
<1>4. Sp(s, 1) /\ ~Gt(s, 1)
  BY <1>2, <1>3, Zenon DEF Sp, Gt
<1>5. Lexed(s) = Token(TypeOf[s[1]], <<>>, From(s, 2))
  <2>1. Sp(s, 1) /\ ~Gt(s, 1) => Lexed(s) = Token(TypeOf[s[1]], <<>>, From(s, 2))
    <3>1. Reads(s, 1)
      BY <1>1
    <3> QED
      BY <1>0, <3>1, LexedCases
  <2> QED
    BY <1>4, <2>1
<1>6. Lexed(s).type = TypeOf[s[1]]
  <2>x. PICK x : x = TypeOf[s[1]]
    OBVIOUS
  <2>z. PICK z : z = From(s, 2)
    OBVIOUS
  <2>l. PICK l : l = Lexed(s)
    OBVIOUS
  <2>1. l = Token(x, <<>>, z)
    BY <1>5, <2>l, <2>x, <2>z, Zenon
  <2>2. l.type = x
    BY <2>1 DEF Token
  <2> QED
    BY <2>2, <2>l, <2>x, Zenon
<1>7. TypeOf[NewLine] = "EOL"
  BY <1>3, Types
<1> QED
  BY <1>2, <1>6, <1>7, <1>s, Zenon

(* The tokens that begin before p, and main() at p.                        *)
Bg(m, p) == {i \in 1 .. m : Begins(line, i) /\ i < p}
Toks(m, p) == [n \in 1 .. Cardinality(Bg(m, p)) |-> Meant(line, Ups(Bg(m, p))[n])]
At(m, p) == [rest |-> From(Input, p), tokens |-> Toks(m, p)]
Done(m, p) == \A k \in p .. m : Blank(line, k)

LEMMA BgFacts ==
  ASSUME NEW m \in Nat, NEW p \in 1 .. m + 1
  PROVE  Bg(m, p) \in SUBSET Nat /\ IsFiniteSet(Bg(m, p))
<1>1. Bg(m, p) \in SUBSET (1 .. m)
  BY DEF Bg
<1>2. IsFiniteSet(1 .. m)
  BY FS_Interval
<1> QED
  BY <1>1, <1>2, FS_Subset

(* A token that begins is the last of those taken.                         *)
LEMMA ToksGrow ==
  ASSUME NEW m \in Nat, NEW p \in 1 .. m + 1, NEW q \in 1 .. m + 1, NEW j \in p .. m,
         j < q, Begins(line, j), NoneWithin(j, q), \A k \in p .. j - 1 : ~Begins(line, k)
  PROVE  Toks(m, q) = Append(Toks(m, p), Meant(line, j))
<1>1. Bg(m, q) = Bg(m, p) \cup {j}
  <2>1. ASSUME NEW i \in 1 .. m, Begins(line, i) PROVE i < q <=> i < p \/ i = j
    <3>1. i \in p .. j - 1 => FALSE
      BY <2>1
    <3>2. i \in j + 1 .. q - 1 => FALSE
      BY <2>1 DEF NoneWithin
    <3> QED
      BY <3>1, <3>2
  <2>2. j \in 1 .. m /\ Begins(line, j)
    OBVIOUS
  <2> QED
    BY <2>1, <2>2 DEF Bg
<1>2. \A i \in Bg(m, p) : i < j
  BY DEF Bg
<1>S. PICK S : S = Bg(m, p)
  OBVIOUS
<1>3. S \in SUBSET Nat /\ IsFiniteSet(S) /\ j \in Nat /\ \A i \in S : i < j
  BY <1>2, <1>S, BgFacts
<1>T. PICK T : T = S \cup {j}
  OBVIOUS
<1>4. Cardinality(T) = Cardinality(S) + 1 /\ Ups(T) = Append(Ups(S), j)
  BY <1>3, <1>T, UpsAppend
<1>5. /\ Ups(S) \in Seq(S) /\ Len(Ups(S)) = Cardinality(S) /\ Cardinality(S) \in Nat
  BY <1>3, UpsFacts
<1>n. PICK n \in Nat : n = Cardinality(S)
  BY <1>5
<1>u. PICK u \in Seq(S) : u = Ups(S)
  BY <1>5
<1>6. Len(u) = n
  BY <1>5, <1>n, <1>u, Zenon
<1>w. PICK w : w = Append(u, j)
  OBVIOUS
<1>7. w[n + 1] = j /\ \A k \in 1 .. n : w[k] = u[k]
  <2>0. u \in [1 .. n -> S]
    BY <1>6
  <2>2. u \in [1 .. n -> Nat]
    BY <1>3, <2>0
  <2>1. u \in Seq(Nat) /\ j \in Nat
    BY <1>3, <2>2
  <2> QED
    BY <1>6, <1>w, <2>1, AppendProperties
<1>8. Toks(m, p) = [k \in 1 .. n |-> Meant(line, u[k])]
  BY <1>n, <1>u, <1>S, Zenon DEF Toks
<1>9. Toks(m, q) = [k \in 1 .. n + 1 |-> Meant(line, w[k])]
  BY <1>n, <1>u, <1>w, <1>S, <1>T, <1>1, <1>4, Zenon DEF Toks
<1> DEFINE M(i) == Meant(line, i)
           V == {M(i) : i \in S \cup {j}}
<1>10. \A k \in 1 .. n : u[k] \in S
  <2>1. \A k \in 1 .. Len(u) : u[k] \in S
    BY ElementOfSeq
  <2> QED
    BY <1>6, <2>1, Zenon
<1>a. PICK a : a = [k \in 1 .. n |-> M(u[k])]
  OBVIOUS
<1>b. PICK b : b = [k \in 1 .. n + 1 |-> M(w[k])]
  OBVIOUS
<1>11. M(j) \in V /\ \A k \in 1 .. n : M(u[k]) \in V
  BY <1>10
<1>12. \A k \in 1 .. n + 1 : M(w[k]) \in V
  <2> HIDE DEF V, M
  <2>1. \A k \in 1 .. n + 1 : k \in 1 .. n \/ k = n + 1
    OBVIOUS
  <2> QED
    BY <1>7, <1>11, <2>1, Zenon
<1>13. a \in Seq(V) /\ Len(a) = n /\ b \in Seq(V) /\ Len(b) = n + 1
  <2> HIDE DEF V, M
  <2>1. a \in [1 .. n -> V] /\ b \in [1 .. n + 1 -> V] /\ n + 1 \in Nat
    BY <1>a, <1>b, <1>11, <1>12
  <2> QED
    BY <2>1
<1>c. PICK c : c = Append(a, M(j))
  OBVIOUS
<1>14. c \in Seq(V) /\ Len(c) = n + 1 /\ c[n + 1] = M(j) /\ \A k \in 1 .. n : c[k] = a[k]
  <2> HIDE DEF V, M
  <2> QED
    BY <1>11, <1>13, <1>c, AppendProperties
<1>15. \A k \in 1 .. n + 1 : b[k] = c[k]
  <2> HIDE DEF V, M
  <2> SUFFICES ASSUME NEW k \in 1 .. n + 1 PROVE b[k] = c[k]
    OBVIOUS
  <2>1. b[k] = M(w[k])
    BY <1>b
  <2>2. CASE k = n + 1
    BY <1>7, <1>14, <2>1, <2>2, Zenon
  <2>3. CASE k \in 1 .. n
    <3>1. a[k] = M(u[k])
      BY <1>a, <2>3, Zenon
    <3> QED
      BY <1>7, <1>14, <2>1, <2>3, <3>1, Zenon
  <2> QED
    BY <2>2, <2>3
<1>16. b = c
  <2> HIDE DEF V, M
  <2>1. Len(b) = Len(c) /\ \A k \in 1 .. Len(b) : b[k] = c[k]
    BY <1>13, <1>14, <1>15, Zenon
  <2> QED
    BY <1>13, <1>14, <2>1, SeqEqual
<1> QED
  BY <1>8, <1>9, <1>16, <1>a, <1>b, <1>c, Zenon

(* One round of main() at p: at the end it changes nothing, else it takes  *)
(* the next token.                                                         *)
Goes(m, p, q) == p < q /\ MayBegin(m, q) /\ TokenRound(At(m, p)) = At(m, q)
Shorts(m) == \A i \in 1 .. m : Ord(line, i) => WordEnd(line, i) - i < TokenLen - 2

LEMMA RoundIs ==
  ASSUME NEW m \in Nat, Text(line, m), Shorts(m), NEW p \in 1 .. m + 1, MayBegin(m, p)
  PROVE  \/ Done(m, p) /\ TokenRound(At(m, p)) = At(m, p)
         \/ \E q \in 1 .. m + 1 : Goes(m, p, q)
<1>k. PICK k \in Nat : k = m + 1 /\ k \in 1 .. k
  OBVIOUS
<1>1. Reads(Input, k) /\ ~Blank(Input, k)
  <2>1. Reads(Input, m + 1)
    BY InputIs
  <2>2. ~Blank(Input, m + 1)
    BY InputKinds
  <2> QED
    BY <1>k, <2>1, <2>2, Zenon
<1>2. p \in 1 .. k
  BY <1>k
<1>j. PICK j \in p .. k : /\ ~Blank(Input, j) /\ \A i \in p .. j - 1 : Blank(Input, i)
                          /\ Gettoken(From(Input, p)) = Lexed(From(Input, j))
  BY <1>1, <1>2, SkipBlanks
<1>3. /\ ~Blank(Input, j) /\ \A i \in p .. j - 1 : Blank(Input, i)
  BY <1>j
<1>4. Gettoken(From(Input, p)) = Lexed(From(Input, j))
  BY <1>j
<1>a. PICK acc : acc = At(m, p)
  OBVIOUS
<1>5. acc.rest = From(Input, p) /\ acc.tokens = Toks(m, p)
  BY <1>a DEF At
<1>t. PICK t : t = Lexed(From(Input, j))
  OBVIOUS
<1>6. Gettoken(acc.rest) = t
  BY <1>4, <1>5, <1>t, Zenon
<1>7. TokenRound(acc) =
        IF t.type \in {"EOL", "EOF"} THEN acc
        ELSE [rest   |-> t.rest,
              tokens |-> Append(acc.tokens, [type |-> t.type, text |-> t.text])]
  BY <1>6, Zenon DEF TokenRound
<1>8. \A i \in p .. j - 1 : i \in 1 .. m /\ Blank(line, i)
  <2> SUFFICES ASSUME NEW i \in p .. j - 1 PROVE i \in 1 .. m /\ Blank(line, i)
    OBVIOUS
  <2>1. i \in 1 .. m
    BY <1>k
  <2>2. Blank(Input, i)
    BY <1>3
  <2> QED
    BY <2>1, <2>2, InputKinds
<1>9. CASE j = k
  <2>1. \A i \in p .. m : i \in p .. j - 1
    BY <1>9, <1>k
  <2>2. Done(m, p)
    BY <1>8, <2>1 DEF Done
  <2>3. t.type = "EOL"
    <3>1. Lexed(From(Input, k)).type = "EOL"
      BY <1>k, LexedEnd
    <3> QED
      BY <1>9, <1>t, <3>1, Zenon
  <2>4. TokenRound(acc) = acc
    BY <1>7, <2>3
  <2> QED
    BY <1>a, <2>2, <2>4, Zenon
<1>10. CASE j # k
  <2>1. j \in 1 .. m /\ j \in p .. m
    BY <1>10, <1>k
  <2>2. ~Blank(line, j)
    BY <1>3, <2>1, InputKinds
  <2>3. Begins(line, j)
    <3>1. CASE j = p
      BY <2>1, <2>2, <3>1 DEF MayBegin
    <3>2. CASE j # p
      <4>i. PICK i \in 1 .. m : i \in p .. j - 1 /\ i + 1 = j /\ i < m
        <5>1. j - 1 \in 1 .. m /\ j - 1 \in p .. j - 1 /\ j - 1 + 1 = j /\ j - 1 < m
          BY <2>1, <3>2
        <5> QED
          BY <5>1
      <4>1. Blank(line, i)
        BY <1>8, <4>i
      <4>2. ~Ord(line, i) /\ ~Gt(line, i)
        BY <4>1, OneKind
      <4>3. i < m /\ ~Blank(line, i + 1) /\ ~Ord(line, i) /\ ~Gt(line, i) => Begins(line, i + 1)
        BY BeginsAfter
      <4> QED
        BY <2>2, <4>i, <4>2, <4>3, Zenon
    <3> QED
      BY <3>1, <3>2
  <2>4. \A i \in p .. j - 1 : ~Begins(line, i)
    <3> SUFFICES ASSUME NEW i \in p .. j - 1 PROVE ~Begins(line, i)
      OBVIOUS
    <3>1. i \in 1 .. m /\ Blank(line, i)
      BY <1>8
    <3>2. Blank(line, i) => ~Begins(line, i)
      BY <3>1, BeginsAfter
    <3> QED
      BY <3>1, <3>2
  <2>q. PICK q : TokenEnds(m, j, q)
    <3>1. CASE Ord(line, j)
      <4>1. WordEnd(line, j) - j < TokenLen - 2
        BY <2>1, <3>1 DEF Shorts
      <4> QED
        BY <2>1, <3>1, <4>1, WordEnds
    <3>2. CASE ~Ord(line, j)
      <4>1. Sp(line, j)
        BY <2>1, <2>2, <3>2, OneKind
      <4> QED
        BY <2>1, <2>3, <4>1, SpecialEnds
    <3> QED
      BY <3>1, <3>2
  <2>5. LexedTo(j, q) /\ NoneWithin(j, q) /\ MayBegin(m, q) /\ j < q /\ q \in 1 .. m + 1
    BY <2>q DEF TokenEnds, MayBegin
  <2>6. Toks(m, q) = Append(Toks(m, p), Meant(line, j))
    BY <2>1, <2>3, <2>4, <2>5, ToksGrow
  <2>7. /\ t.type \notin {"EOL", "EOF"}
        /\ [type |-> t.type, text |-> t.text] = Meant(line, j) /\ t.rest = From(Input, q)
    BY <1>t, <2>5, Zenon DEF LexedTo
  <2>8. TokenRound(acc) = [rest |-> t.rest, tokens |-> Append(acc.tokens, Meant(line, j))]
    BY <1>7, <2>7, Zenon
  <2>9. TokenRound(acc) = [rest |-> From(Input, q), tokens |-> Toks(m, q)]
    BY <1>5, <2>6, <2>7, <2>8, Zenon
  <2>10. TokenRound(At(m, p)) = At(m, q)
    BY <1>a, <2>9, Zenon DEF At
  <2>11. p < q
    BY <2>1, <2>5
  <2> QED
    BY <2>5, <2>10, <2>11 DEF Goes
<1> QED
  BY <1>9, <1>10

(* main() before the first character, and after the last token.            *)
Read(s) == [rest |-> s, tokens |-> <<>>]

LEMMA AtStart ==
  ASSUME NEW m \in Nat, Text(line, m)
  PROVE  At(m, 1) = Read(Input) /\ MayBegin(m, 1)
<1>k. PICK k \in Nat : k = m + 1
  OBVIOUS
<1>1. From(Input, 1) = Input
  <2>a. PICK a : a = From(Input, 1)
    OBVIOUS
  <2>1. Reads(Input, k)
    BY <1>k, InputIs, Zenon
  <2>2. Reads(a, k) /\ \A i \in 1 .. k : a[i] = Input[1 + i - 1]
    <3>1. 1 \in 1 .. k + 1 /\ k + 1 = k + 1
      OBVIOUS
    <3> QED
      BY <2>1, <2>a, <3>1, FromFacts
  <2>3. \A i \in 1 .. k : a[i] = Input[i]
    <3> SUFFICES ASSUME NEW i \in 1 .. k PROVE a[i] = Input[i]
      OBVIOUS
    <3>1. 1 + i - 1 = i
      OBVIOUS
    <3> QED
      BY <2>2, <3>1, Zenon
  <2>4. a = Input
    BY <2>1, <2>2, <2>3, SeqEqual DEF Reads
  <2> QED
    BY <2>4, <2>a, Zenon
<1>2. Toks(m, 1) = <<>>
  <2>1. Bg(m, 1) = {}
    BY DEF Bg
  <2>2. Toks(m, 1) = [n \in 1 .. 0 |-> Meant(line, Ups(Bg(m, 1))[n])]
    <3>1. Cardinality(Bg(m, 1)) = 0
      BY <2>1, UpsEmpty, Zenon
    <3> QED
      BY <3>1, Zenon DEF Toks
  <2> DEFINE M(n) == Meant(line, Ups(Bg(m, 1))[n])
  <2>3. Toks(m, 1) = [n \in 1 .. 0 |-> M(n)]
    BY <2>2
  <2> HIDE DEF M
  <2> QED
    BY <2>3
<1>3. MayBegin(m, 1)
  <2>1. 1 \in 1 .. m + 1 /\ (1 <= m => 1 \in 1 .. m)
    OBVIOUS
  <2>2. 1 <= m /\ ~Blank(line, 1) => Begins(line, 1)
    <3> SUFFICES ASSUME 1 <= m, ~Blank(line, 1) PROVE Begins(line, 1)
      OBVIOUS
    <3>i. PICK i \in 1 .. m : i = 1
      BY <2>1
    <3>1. i = 1 /\ ~Blank(line, i) => Begins(line, i)
      BY BeginsAfter
    <3> QED
      BY <3>i, <3>1, Zenon
  <2> QED
    BY <2>1, <2>2 DEF MayBegin
<1> QED
  BY <1>1, <1>2, <1>3, Zenon DEF At, Read

LEMMA AtEnd ==
  ASSUME NEW m \in Nat, Text(line, m), NEW p \in 1 .. m + 1, Done(m, p)
  PROVE  At(m, p).tokens = TokensMeant(line)
<1>1. At(m, p).tokens = Toks(m, p)
  BY DEF At
<1>2. \A i \in p .. m : ~Begins(line, i)
  <2> SUFFICES ASSUME NEW i \in p .. m PROVE ~Begins(line, i)
    OBVIOUS
  <2>1. i \in 1 .. m /\ Blank(line, i)
    BY DEF Done
  <2>2. Blank(line, i) => ~Begins(line, i)
    BY <2>1, BeginsAfter
  <2> QED
    BY <2>1, <2>2
<1>3. Bg(m, p) = {i \in 1 .. m : Begins(line, i)}
  <2>1. \A i \in 1 .. m : Begins(line, i) => i < p
    <3> SUFFICES ASSUME NEW i \in 1 .. m, Begins(line, i), ~(i < p) PROVE FALSE
      OBVIOUS
    <3>1. i \in p .. m
      OBVIOUS
    <3> QED
      BY <1>2, <3>1
  <2> QED
    BY <2>1 DEF Bg
<1>4. DOMAIN line = 1 .. m
  BY TextFacts
<1>S. PICK S : S = {i \in 1 .. m : Begins(line, i)}
  OBVIOUS
<1>5. DOMAIN Ups(S) = 1 .. Cardinality(S)
  BY DEF Ups
<1>6. TokensMeant(line) = [n \in DOMAIN Ups(S) |-> Meant(line, Ups(S)[n])]
  BY <1>4, <1>S, Zenon DEF TokensMeant, Meant
<1>7. Toks(m, p) = [n \in 1 .. Cardinality(S) |-> Meant(line, Ups(S)[n])]
  BY <1>3, <1>S, Zenon DEF Toks
<1> QED
  BY <1>1, <1>5, <1>6, <1>7, Zenon

(* The rounds of main().                                                   *)
Taken(h, s) == h = [n \in 0 .. Len(s) |-> IF n = 0 THEN Read(s) ELSE TokenRound(h[n - 1])]

LEMMA TokensIs == ASSUME NEW s PROVE Tokens(s) = (CHOOSE h : Taken(h, s))[Len(s)].tokens
  BY DEF Tokens, Taken, Read

Places(m) == {p \in 1 .. m + 1 : MayBegin(m, p)}
Stands(m) == {At(m, p) : p \in Places(m)}

(* main() always stands at a place where a token may begin, with the       *)
(* tokens before it.                                                       *)
LEMMA StandsStay ==
  ASSUME NEW m \in Nat, Text(line, m), Shorts(m)
  PROVE  /\ Read(Input) \in Stands(m)
         /\ \A x \in Stands(m) : TokenRound(x) \in Stands(m)
<1>1. \A p \in Places(m) : At(m, p) \in Stands(m)
  BY DEF Stands
<1>2. Read(Input) \in Stands(m)
  <2>1. At(m, 1) = Read(Input) /\ MayBegin(m, 1)
    BY AtStart
  <2>2. 1 \in Places(m)
    BY <2>1 DEF Places
  <2> QED
    BY <1>1, <2>1, <2>2, Zenon
<1>3. ASSUME NEW x \in Stands(m) PROVE TokenRound(x) \in Stands(m)
  <2>p. PICK p \in Places(m) : x = At(m, p)
    BY DEF Stands
  <2>1. p \in 1 .. m + 1 /\ MayBegin(m, p)
    BY DEF Places
  <2>2. \/ Done(m, p) /\ TokenRound(At(m, p)) = At(m, p)
        \/ \E q \in 1 .. m + 1 : Goes(m, p, q)
    BY <2>1, RoundIs
  <2>3. CASE TokenRound(At(m, p)) = At(m, p)
    BY <2>p, <2>3, <1>1, Zenon
  <2>4. CASE \E q \in 1 .. m + 1 : Goes(m, p, q)
    <3>q. PICK q \in 1 .. m + 1 : Goes(m, p, q)
      BY <2>4
    <3>1. q \in Places(m) /\ TokenRound(At(m, p)) = At(m, q)
      BY <3>q DEF Goes, Places
    <3> QED
      BY <1>1, <2>p, <3>1, Zenon
  <2> QED
    BY <2>2, <2>3, <2>4
<1> QED
  BY <1>2, <1>3

(* Tokens() is the last of the states, each of which is one round after    *)
(* the one before it; a set that the rounds do not leave holds all of      *)
(* them.                                                                   *)
LEMMA TokensSteps ==
  ASSUME NEW m \in Nat, Text(line, m), NEW k \in Nat, k = m + 1,
         NEW S, Read(Input) \in S, \A x \in S : TokenRound(x) \in S
  PROVE  \E h : /\ h[0] = Read(Input) /\ Tokens(Input) = h[k].tokens
                /\ \A n \in 1 .. k : h[n] = TokenRound(h[n - 1])
                /\ \A n \in 0 .. k : h[n] \in S
<1>a. PICK a : a = Read(Input)
  OBVIOUS
<1>1. a \in S /\ \A x \in S : TokenRound(x) \in S
  BY <1>a
<1> DEFINE F == [p \in Nat \X S |-> TokenRound(p[2])]
<1>2. F \in [Nat \X S -> S]
  <2> SUFFICES ASSUME NEW p \in Nat \X S PROVE TokenRound(p[2]) \in S
    OBVIOUS
  <2>1. p[2] \in S
    OBVIOUS
  <2> QED
    BY <1>1, <2>1
<1>3. \A n \in Nat, x \in S : F[<<n, x>>] = TokenRound(x)
  OBVIOUS
<1> HIDE DEF F
<1>4. PICK f \in [Nat -> S] : f[0] = a /\ \A n \in Nat : f[n + 1] = F[<<n, f[n]>>]
  <2>1. PICK f \in Countings(S, a, F) : TRUE
    BY <1>1, <1>2, Counted
  <2> QED
    BY <2>1 DEF Countings
<1>5. \A n \in 1 .. k : f[n] = TokenRound(f[n - 1])
  <2> SUFFICES ASSUME NEW n \in 1 .. k PROVE f[n] = TokenRound(f[n - 1])
    OBVIOUS
  <2>i. PICK i \in Nat : i = n - 1 /\ i + 1 = n
    <3>1. n - 1 \in Nat /\ n - 1 + 1 = n
      OBVIOUS
    <3> QED
      BY <3>1
  <2>1. f[i + 1] = F[<<i, f[i]>>] /\ f[i] \in S
    BY <1>4
  <2> QED
    BY <1>3, <2>i, <2>1, Zenon
<1> DEFINE G == [n \in 0 .. k |-> f[n]]
<1>6. \A n \in 0 .. k : G[n] = IF n = 0 THEN a ELSE TokenRound(G[n - 1])
  <2> SUFFICES ASSUME NEW n \in 0 .. k
               PROVE  G[n] = IF n = 0 THEN a ELSE TokenRound(G[n - 1])
    OBVIOUS
  <2>1. CASE n = 0
    BY <1>4, <2>1
  <2>2. CASE n # 0
    <3>1. n \in 1 .. k /\ n - 1 \in 0 .. k
      BY <2>2
    <3> QED
      BY <1>5, <2>2, <3>1
  <2> QED
    BY <2>1, <2>2
<1>7. G = [n \in 0 .. k |-> G[n]]
  OBVIOUS
<1> HIDE DEF G
<1>8. G = [n \in 0 .. k |-> IF n = 0 THEN a ELSE TokenRound(G[n - 1])]
  BY <1>6, <1>7, Zenon
<1>9. Len(Input) = k
  BY InputIs DEF Reads
<1>10. Taken(G, Input)
  BY <1>8, <1>9, <1>a, Zenon DEF Taken
<1>h. PICK h : h = CHOOSE g : Taken(g, Input)
  OBVIOUS
<1>11. Taken(h, Input) /\ Tokens(Input) = h[k].tokens
  <2>1. Tokens(Input) = h[Len(Input)].tokens
    BY <1>h, TokensIs, Zenon
  <2> QED
    BY <1>9, <1>10, <1>h, <2>1, Zenon
<1>12. h = [n \in 0 .. k |-> IF n = 0 THEN a ELSE TokenRound(h[n - 1])]
  BY <1>9, <1>11, <1>a, Zenon DEF Taken
<1>13. h[0] = a /\ \A n \in 1 .. k : h[n] = TokenRound(h[n - 1])
  <2>1. 0 \in 0 .. k /\ \A n \in 1 .. k : n \in 0 .. k /\ n # 0
    OBVIOUS
  <2> QED
    BY <1>12, <2>1, Zenon
<1> DEFINE J == {n \in Nat : n <= k => h[n] \in S}
<1>14. 0 \in J
  BY <1>1, <1>13
<1>15. ASSUME NEW n \in Nat, n \in J PROVE n + 1 \in J
  <2> SUFFICES ASSUME n + 1 <= k PROVE h[n + 1] \in S
    OBVIOUS
  <2>i. PICK i \in 1 .. k : i = n + 1 /\ i - 1 = n
    OBVIOUS
  <2>1. h[n] \in S
    BY <1>15
  <2>2. h[i] = TokenRound(h[i - 1])
    BY <1>13
  <2> QED
    BY <1>1, <2>i, <2>1, <2>2, Zenon
<1>16. \A n \in 0 .. k : h[n] \in S
  <2> HIDE DEF J
  <2>1. \A n \in Nat : n \in J
    BY <1>14, <1>15, NaturalSteps
  <2> QED
    BY <2>1 DEF J
<1> QED
  BY <1>11, <1>13, <1>16, <1>a, Zenon

(* main() takes a place further on in each round until no token is left,   *)
(* and the line has no more places than there are rounds: it gets all the  *)
(* tokens meant.                                                           *)
LEMMA TokensMeantFound == ASSUME line \in Seq(Char) PROVE TokensRight
<1>m. PICK m \in Nat : m = Len(line)
  BY LenProperties
<1>1. Text(line, m)
  BY <1>m DEF Text
<1> SUFFICES ASSUME Short(line) PROVE Tokens(Input) = TokensMeant(line)
  BY DEF TokensRight
<1>2. Shorts(m)
  <2>1. DOMAIN line = 1 .. m
    BY <1>1, TextFacts
  <2> QED
    BY <2>1, Zenon DEF Short, Shorts, Ord
<1>k. PICK k \in Nat : k = m + 1
  OBVIOUS
<1>h. PICK h : /\ h[0] = Read(Input) /\ Tokens(Input) = h[k].tokens
               /\ \A n \in 1 .. k : h[n] = TokenRound(h[n - 1])
  <2>1. Read(Input) \in Stands(m) /\ \A x \in Stands(m) : TokenRound(x) \in Stands(m)
    BY <1>1, <1>2, StandsStay
  <2>S. PICK S : S = Stands(m)
    OBVIOUS
  <2>2. \E h : /\ h[0] = Read(Input) /\ Tokens(Input) = h[k].tokens
               /\ \A n \in 1 .. k : h[n] = TokenRound(h[n - 1])
               /\ \A n \in 0 .. k : h[n] \in S
    BY <1>1, <1>k, <2>1, <2>S, TokensSteps
  <2> QED
    BY <2>2, Zenon
<1>3. h[0] = Read(Input) /\ Tokens(Input) = h[k].tokens
  BY <1>h
<1>4. \A n \in 1 .. k : h[n] = TokenRound(h[n - 1])
  BY <1>h
<1> DEFINE Gets(n) == \E p \in Places(m) : h[n] = At(m, p) /\ (n < p \/ Done(m, p))
           T == {n \in Nat : n <= k => Gets(n)}
<1>5. 0 \in T
  <2>1. At(m, 1) = Read(Input) /\ MayBegin(m, 1)
    BY <1>1, AtStart
  <2>2. 1 \in Places(m) /\ 0 < 1
    BY <2>1 DEF Places
  <2> QED
    BY <1>3, <2>1, <2>2
<1>6. ASSUME NEW n \in Nat, n \in T PROVE n + 1 \in T
  <2> SUFFICES ASSUME n + 1 <= k PROVE Gets(n + 1)
    OBVIOUS
  <2>i. PICK i \in 1 .. k : i = n + 1 /\ i - 1 = n
    OBVIOUS
  <2>0. Gets(n)
    BY <1>6
  <2>p. PICK p \in Places(m) : h[n] = At(m, p) /\ (n < p \/ Done(m, p))
    BY <2>0
  <2>1. p \in 1 .. m + 1 /\ MayBegin(m, p) /\ h[n] = At(m, p)
    BY <2>p DEF Places
  <2>2. \/ Done(m, p) /\ TokenRound(At(m, p)) = At(m, p)
        \/ \E q \in 1 .. m + 1 : Goes(m, p, q)
    BY <1>1, <1>2, <2>1, RoundIs
  <2>3. h[i] = TokenRound(At(m, p))
    <3>1. h[i] = TokenRound(h[i - 1])
      BY <1>4
    <3> QED
      BY <2>1, <2>i, <3>1, Zenon
  <2>4. Gets(i)
    <3>1. CASE Done(m, p) /\ TokenRound(At(m, p)) = At(m, p)
      <4>1. h[i] = At(m, p) /\ Done(m, p) /\ p \in Places(m)
        BY <2>3, <3>1, Zenon
      <4> QED
        BY <4>1, Zenon
    <3>2. CASE ~Done(m, p) /\ \E q \in 1 .. m + 1 : Goes(m, p, q)
      <4>q. PICK q \in 1 .. m + 1 : Goes(m, p, q)
        BY <3>2
      <4>1. q \in Places(m) /\ TokenRound(At(m, p)) = At(m, q) /\ p < q
        BY <4>q DEF Goes, Places
      <4>2. n < p
        BY <2>p, <3>2
      <4>3. i < q
        BY <2>i, <2>1, <4>1, <4>2
      <4>4. h[i] = At(m, q)
        BY <2>3, <4>1, Zenon
      <4> QED
        BY <4>1, <4>3, <4>4, Zenon
    <3>3. CASE Done(m, p) /\ \E q \in 1 .. m + 1 : Goes(m, p, q)
      <4>q. PICK q \in 1 .. m + 1 : Goes(m, p, q)
        BY <3>3
      <4>1. q \in Places(m) /\ TokenRound(At(m, p)) = At(m, q) /\ p < q
        BY <4>q DEF Goes, Places
      <4>2. Done(m, q)
        <5>1. \A x \in q .. m : x \in p .. m
          BY <2>1, <4>1
        <5> QED
          BY <3>3, <5>1, Zenon DEF Done
      <4>4. h[i] = At(m, q)
        BY <2>3, <4>1, Zenon
      <4> QED
        BY <4>1, <4>2, <4>4, Zenon
    <3> QED
      BY <2>2, <3>1, <3>2, <3>3, Zenon
  <2> HIDE DEF Gets
  <2> QED
    BY <2>4, <2>i, Zenon
<1>7. Gets(k)
  <2>1. \A n \in Nat : n \in T
    <3> HIDE DEF T
    <3> QED
      BY <1>5, <1>6, NaturalSteps
  <2>2. k \in T /\ k <= k
    BY <2>1
  <2> HIDE DEF Gets
  <2> QED
    BY <2>2
<1>p. PICK p \in Places(m) : h[k] = At(m, p) /\ (k < p \/ Done(m, p))
  BY <1>7
<1>8. p \in 1 .. m + 1 /\ Done(m, p) /\ h[k] = At(m, p)
  BY <1>p, <1>k DEF Places
<1>9. At(m, p).tokens = TokensMeant(line)
  BY <1>1, <1>8, AtEnd
<1> QED
  BY <1>3, <1>8, <1>9, Zenon
-----------------------------------------------------------------------------
(* The least and the greatest number of a set.                             *)
LEMMA UpsFirst ==
  ASSUME NEW S \in SUBSET Nat, IsFiniteSet(S), NEW x \in S, \A y \in S : x <= y
  PROVE  Ups(S)[1] = x
<1>1. {j \in S : j <= x} = {x}
  <2>1. \A j \in S : j <= x <=> j = x
    <3> SUFFICES ASSUME NEW j \in S PROVE j <= x <=> j = x
      OBVIOUS
    <3>1. j \in Nat /\ x \in Nat /\ x <= j
      OBVIOUS
    <3> QED
      BY <3>1
  <2> QED
    BY <2>1, Zenon
<1>2. Rank(S, x) = 1
  BY <1>1, FS_Singleton DEF Rank
<1> QED
  BY <1>2, UpsFacts

LEMMA UpsLast ==
  ASSUME NEW n \in Nat, NEW S, S \subseteq 1 .. n, S # {}
  PROVE  Last(Ups(S)) = Max(S) /\ Max(S) \in S
<1>1. S \in SUBSET Nat /\ S \subseteq 0 .. n
  OBVIOUS
<1>2. IsFiniteSet(S)
  <2>1. IsFiniteSet(1 .. n)
    BY FS_Interval
  <2> QED
    BY <2>1, FS_Subset
<1>x. PICK x : x = Max(S)
  OBVIOUS
<1>3. x \in S /\ \A y \in S : y <= x
  BY <1>1, <1>x, MaxFacts
<1>4. {j \in S : j <= x} = S
  BY <1>3
<1>5. Rank(S, x) = Cardinality(S)
  BY <1>4 DEF Rank
<1>6. Ups(S)[Cardinality(S)] = x /\ Len(Ups(S)) = Cardinality(S)
  BY <1>1, <1>2, <1>3, <1>5, UpsFacts
<1> QED
  BY <1>3, <1>6, <1>x, Zenon DEF Last

(* If S has all numbers up to a, they are its first.                       *)
LEMMA UpsHead ==
  ASSUME NEW S \in SUBSET Nat, IsFiniteSet(S), NEW a \in Nat, 1 .. a \subseteq S, 0 \notin S
  PROVE  \A n \in 1 .. a : Ups(S)[n] = n /\ n <= Cardinality(S)
<1> SUFFICES ASSUME NEW n \in 1 .. a PROVE Ups(S)[n] = n /\ n <= Cardinality(S)
  OBVIOUS
<1>0. n \in S /\ \A j \in 1 .. n : j \in S
  <2>1. \A j \in 1 .. n : j \in 1 .. a
    OBVIOUS
  <2> QED
    BY <2>1
<1>1. {j \in S : j <= n} = 1 .. n
  <2>1. \A j \in S : j <= n <=> j \in 1 .. n
    <3> SUFFICES ASSUME NEW j \in S PROVE j <= n <=> j \in 1 .. n
      OBVIOUS
    <3>1. j \in Nat /\ j # 0
      OBVIOUS
    <3> QED
      BY <3>1
  <2> QED
    BY <1>0, <2>1
<1>2. Rank(S, n) = n
  <2>1. Cardinality(1 .. n) = n
    BY FS_Interval
  <2> QED
    BY <1>1, <2>1 DEF Rank
<1>3. Ups(S)[Rank(S, n)] = n /\ Rank(S, n) \in 1 .. Cardinality(S) /\ Cardinality(S) \in Nat
  BY <1>0, UpsFacts
<1> QED
  BY <1>2, <1>3

-----------------------------------------------------------------------------
(* The tokens of a line, and their types.                                  *)
TokenTypes == {"PIPE", "REDIR_IN", "REDIR_OUT", "REDIR_APPEND", "BG", "NORMAL"}
Inner == TokenTypes \ {"PIPE"}
Tok == [type : TokenTypes, text : Seq(AnyChar)]
Outs == {"REDIR_OUT", "REDIR_APPEND"}
Ins == {"REDIR_IN"}
Lexemes(T, N) == T \in Seq(Tok) /\ Len(T) = N
Has(T, j, types) == T[j].type \in types

LEMMA LexemesFacts ==
  ASSUME NEW T, NEW N \in Nat, Lexemes(T, N)
  PROVE  DOMAIN T = 1 .. N /\ \A j \in 1 .. N : T[j] \in Tok /\ Has(T, j, TokenTypes)
<1>1. DOMAIN T = 1 .. N /\ \A j \in 1 .. N : T[j] \in Tok
  BY ElementOfSeq, LenProperties DEF Lexemes
<1>2. \A t \in Tok : t.type \in TokenTypes
  BY DEF Tok
<1> QED
  BY <1>1, <1>2, Zenon DEF Has

(* Of() by the numbers of the tokens.                                      *)
LEMMA OfIs ==
  ASSUME NEW T, NEW N \in Nat, Lexemes(T, N), NEW types
  PROVE  /\ Of(T, types) = {j \in 1 .. N : Has(T, j, types)}
         /\ Of(T, types) \in SUBSET Nat /\ IsFiniteSet(Of(T, types))
         /\ Of(T, types) \subseteq 1 .. N
<1>1. Of(T, types) = {j \in 1 .. N : Has(T, j, types)}
  BY LexemesFacts, Zenon DEF Of, Has
<1>2. IsFiniteSet(1 .. N)
  BY FS_Interval
<1>3. Of(T, types) \in SUBSET (1 .. N)
  BY <1>1
<1> QED
  BY <1>1, <1>2, <1>3, FS_Subset

(* Command i is what there is between the bars Lo(T, i) and Hi(T, i), the  *)
(* ends of the line being bars as well.                                    *)
Bars(T) == Of(T, {"PIPE"})
Lo(T, i) == IF i = 0 THEN 0 ELSE Ups(Bars(T))[i]
Hi(T, i) == IF i = Cardinality(Bars(T)) THEN Len(T) + 1 ELSE Ups(Bars(T))[i + 1]

LEMMA BarsFacts ==
  ASSUME NEW T, NEW N \in Nat, Lexemes(T, N)
  PROVE  /\ Cardinality(Bars(T)) \in Nat
         /\ Bars(T) \in SUBSET Nat /\ IsFiniteSet(Bars(T)) /\ Bars(T) \subseteq 1 .. N
         /\ \A j \in 1 .. N : j \in Bars(T) <=> Has(T, j, {"PIPE"})
         /\ Len(Ups(Bars(T))) = Cardinality(Bars(T))
         /\ \A n \in 1 .. Cardinality(Bars(T)) : Ups(Bars(T))[n] \in Bars(T)
         /\ Ups(Bars(T)) \in Seq(Nat)
<1>B. PICK B : B = Bars(T)
  OBVIOUS
<1>1. /\ B = {j \in 1 .. N : Has(T, j, {"PIPE"})} /\ B \in SUBSET Nat /\ IsFiniteSet(B)
      /\ B \subseteq 1 .. N
  BY <1>B, OfIs DEF Bars
<1>2. /\ Cardinality(B) \in Nat /\ Len(Ups(B)) = Cardinality(B) /\ Ups(B) \in Seq(B)
      /\ \A n \in 1 .. Cardinality(B) : Ups(B)[n] \in B
  BY <1>1, UpsFacts
<1>3. Ups(B) \in Seq(Nat)
  <2>n. PICK n \in Nat : n = Cardinality(B)
    BY <1>2
  <2>1. Ups(B) \in [1 .. n -> B]
    BY <1>2, <2>n
  <2>2. Ups(B) \in [1 .. n -> Nat]
    BY <1>1, <2>1
  <2> QED
    BY <2>2
<1> QED
  BY <1>1, <1>2, <1>3, <1>B

(* No bar between two neighbours.                                          *)
LEMMA Between ==
  ASSUME NEW T, NEW N \in Nat, Lexemes(T, N), NEW i \in 0 .. Cardinality(Bars(T))
  PROVE  /\ Lo(T, i) \in 0 .. N /\ Hi(T, i) \in 1 .. N + 1 /\ Lo(T, i) < Hi(T, i)
         /\ \A j \in Bars(T) : ~(Lo(T, i) < j /\ j < Hi(T, i))
         /\ Hi(T, i) <= N => Hi(T, i) \in Bars(T)
         /\ i = Cardinality(Bars(T)) <=> Hi(T, i) = N + 1
<1>B. PICK B : B = Bars(T)
  OBVIOUS
<1>1. /\ Cardinality(B) \in Nat /\ B \in SUBSET Nat /\ IsFiniteSet(B) /\ B \subseteq 1 .. N
      /\ \A n \in 1 .. Cardinality(B) : Ups(B)[n] \in B
  BY <1>B, BarsFacts
<1>K. PICK K \in Nat : K = Cardinality(B)
  BY <1>1
<1>u. PICK u : u = Ups(B)
  OBVIOUS
<1>2. i \in 0 .. K /\ \A n \in 1 .. K : u[n] \in B /\ u[n] \in 1 .. N
  BY <1>1, <1>K, <1>B, <1>u
<1>3. \A a, b \in 1 .. K : a < b => u[a] < u[b]
  BY <1>1, <1>K, <1>u, UpsAscend
<1>4. \A j \in B : \E n \in 1 .. K : u[n] = j
  BY <1>1, <1>K, <1>u, UpsFacts
<1>l. PICK l : l = Lo(T, i)
  OBVIOUS
<1>h. PICK h : h = Hi(T, i)
  OBVIOUS
<1>5. l = IF i = 0 THEN 0 ELSE u[i]
  BY <1>l, <1>u, <1>B DEF Lo
<1>6. h = IF i = K THEN N + 1 ELSE u[i + 1]
  <2>1. Len(T) = N
    BY DEF Lexemes
  <2> QED
    BY <1>h, <1>u, <1>B, <1>K, <2>1, Zenon DEF Hi
<1>7. l \in 0 .. N /\ (i # 0 => i \in 1 .. K /\ l = u[i]) /\ (i = 0 => l = 0)
  BY <1>2, <1>5
<1>8. h \in 1 .. N + 1 /\ (i # K => i + 1 \in 1 .. K /\ h = u[i + 1]) /\ (i = K => h = N + 1)
  BY <1>2, <1>6
<1>9. l < h
  <2>1. CASE i # 0 /\ i # K
    <3>1. u[i] < u[i + 1]
      BY <1>3, <1>7, <1>8, <2>1
    <3> QED
      BY <1>7, <1>8, <2>1, <3>1
  <2>2. CASE i = 0 \/ i = K
    BY <1>7, <1>8, <2>2
  <2> QED
    BY <2>1, <2>2
<1>10. ASSUME NEW j \in B, l < j, j < h PROVE FALSE
  <2>n. PICK n \in 1 .. K : u[n] = j
    BY <1>4
  <2>1. i # 0 => i < n
    <3>1. i # 0 => (n < i => u[n] < u[i]) /\ (n = i => u[n] = u[i])
      BY <1>3, <1>7
    <3>2. n \in Nat /\ i \in Nat /\ j \in Nat /\ l \in Nat
      BY <1>1, <1>2, <1>7
    <3> QED
      BY <1>7, <1>10, <2>n, <3>1, <3>2
  <2>2. i # K => n < i + 1
    <3>1. i # K => (i + 1 < n => u[i + 1] < u[n]) /\ (n = i + 1 => u[n] = u[i + 1])
      BY <1>3, <1>8
    <3>2. n \in Nat /\ i \in Nat /\ j \in Nat /\ h \in Nat
      BY <1>1, <1>2, <1>8
    <3> QED
      BY <1>8, <1>10, <2>n, <3>1, <3>2
  <2>3. i = K => n < i + 1
    BY <1>2
  <2> QED
    BY <1>2, <2>1, <2>2, <2>3
<1>11. h <= N => h \in B
  BY <1>2, <1>8
<1>12. i = K <=> h = N + 1
  BY <1>2, <1>8
<1> QED
  BY <1>7, <1>8, <1>9, <1>10, <1>11, <1>12, <1>l, <1>h, <1>B, <1>K, Zenon

(* What is no bar is in some command.                                      *)
LEMMA Inside ==
  ASSUME NEW T, NEW N \in Nat, Lexemes(T, N), NEW x \in 1 .. N, x \notin Bars(T)
  PROVE  \E i \in 0 .. Cardinality(Bars(T)) : Lo(T, i) < x /\ x < Hi(T, i)
<1>K. PICK K \in Nat : K = Cardinality(Bars(T))
  BY BarsFacts
<1> DEFINE D == {i \in 0 .. K : Lo(T, i) < x}
<1>1. 0 \in D /\ D \subseteq 0 .. K
  <2>1. Lo(T, 0) = 0 /\ 0 < x /\ 0 \in 0 .. K
    BY DEF Lo
  <2> QED
    BY <2>1
<1>i. PICK i : i = Max(D)
  OBVIOUS
<1>2. i \in D /\ \A y \in D : y <= i
  <2> HIDE DEF D
  <2>1. D # {}
    BY <1>1
  <2> QED
    BY <1>1, <1>i, <2>1, MaxFacts
<1>3. i \in 0 .. K /\ Lo(T, i) < x
  BY <1>2
<1>4. x < Hi(T, i)
  <2>1. CASE i = K
    <3>1. Hi(T, i) = N + 1
      BY <1>3, <1>K, <2>1, Between
    <3> QED
      BY <3>1
  <2>2. CASE i # K
    <3>j. PICK j \in 0 .. K : j = i + 1 /\ j # 0
      BY <1>3, <2>2
    <3>1. Hi(T, i) = Lo(T, j)
      BY <1>K, <2>2, <3>j, Zenon DEF Hi, Lo
    <3>2. ~(Lo(T, j) < x)
      <4>1. ~(j <= i)
        BY <1>3, <3>j
      <4>2. j \notin D
        BY <1>2, <4>1
      <4> QED
        BY <4>2
    <3>3. Hi(T, i) \in 1 .. N + 1 /\ (Hi(T, i) <= N => Hi(T, i) \in Bars(T))
      BY <1>3, <1>K, Between
    <3> QED
      BY <3>1, <3>2, <3>3
  <2> QED
    BY <2>1, <2>2
<1> QED
  BY <1>3, <1>4, <1>K

Cmd(T, i) == SubSeq(T, Lo(T, i) + 1, Hi(T, i) - 1)

(* Commands() cuts the tokens at the bars.                                 *)
LEMMA CommandsAre ==
  ASSUME NEW T, NEW N \in Nat, Lexemes(T, N), NEW K \in Nat, K = Cardinality(Bars(T))
  PROVE  /\ DOMAIN Commands(T) = 0 .. K /\ Cardinality(0 .. K) - 1 = K
         /\ \A i \in 0 .. K : Commands(T)[i] = Cmd(T, i)
<1>u. PICK u : u = Ups(Bars(T))
  OBVIOUS
<1>1. u \in Seq(Nat) /\ Len(u) = K
  BY <1>u, BarsFacts
<1>e. PICK e \in Nat : e = Len(T) + 1
  BY DEF Lexemes
<1>v. PICK v : v = <<0>> \o u
  OBVIOUS
<1>2. v \in Seq(Nat) /\ Len(v) = K + 1 /\ v[1] = 0 /\ \A n \in 1 .. K : v[n + 1] = u[n]
  <2>1. <<0>> \in Seq(Nat) /\ Len(<<0>>) = 1 /\ <<0>>[1] = 0
    OBVIOUS
  <2>2. /\ v \in Seq(Nat) /\ Len(v) = 1 + K
        /\ \A n \in 1 .. 1 + K : v[n] = IF n <= 1 THEN <<0>>[n] ELSE u[n - 1]
    BY <1>1, <1>v, <2>1, ConcatProperties
  <2>3. v[1] = 0
    <3>1. 1 \in 1 .. 1 + K /\ 1 <= 1
      OBVIOUS
    <3>2. v[1] = <<0>>[1]
      BY <2>2, <3>1, Zenon
    <3> QED
      BY <2>1, <3>2
  <2>4. \A n \in 1 .. K : v[n + 1] = u[n]
    <3> SUFFICES ASSUME NEW n \in 1 .. K PROVE v[n + 1] = u[n]
      OBVIOUS
    <3>k. PICK k \in 1 .. 1 + K : k = n + 1 /\ k - 1 = n /\ ~(k <= 1)
      OBVIOUS
    <3>1. v[k] = u[k - 1]
      BY <2>2, <3>k, Zenon
    <3> QED
      BY <3>k, <3>1, Zenon
  <2> QED
    BY <2>2, <2>3, <2>4
<1>w. PICK w : w = v \o <<e>>
  OBVIOUS
<1>3. /\ Len(w) = K + 2 /\ w[K + 2] = e /\ \A n \in 1 .. K + 1 : w[n] = v[n]
  <2>a. PICK a : a = <<e>>
    OBVIOUS
  <2>1. a \in Seq(Nat) /\ Len(a) = 1 /\ a[1] = e
    BY <2>a
  <2>k. PICK k \in Nat : k = K + 1
    OBVIOUS
  <2>2. /\ Len(w) = k + 1
        /\ \A n \in 1 .. k + 1 : w[n] = IF n <= k THEN v[n] ELSE a[n - k]
    BY <1>2, <1>w, <2>a, <2>k, <2>1, ConcatProperties
  <2>3. \A n \in 1 .. k : w[n] = v[n]
    <3> SUFFICES ASSUME NEW n \in 1 .. k PROVE w[n] = v[n]
      OBVIOUS
    <3>1. n \in 1 .. k + 1 /\ n <= k
      OBVIOUS
    <3> QED
      BY <2>2, <3>1, Zenon
  <2>4. w[k + 1] = e
    <3>h. PICK h \in 1 .. k + 1 : h = k + 1 /\ ~(h <= k) /\ h - k = 1
      OBVIOUS
    <3>1. w[h] = a[h - k]
      BY <2>2, <3>h, Zenon
    <3> QED
      BY <2>1, <3>h, <3>1, Zenon
  <2>5. k + 1 = K + 2
    BY <2>k
  <2> QED
    BY <2>2, <2>3, <2>4, <2>5, <2>k, Zenon
<1>4. w = <<0>> \o Ups(Of(T, {"PIPE"})) \o <<Len(T) + 1>>
  BY <1>u, <1>v, <1>w, <1>e, Zenon DEF Bars
<1>5. Commands(T) = [i \in 0 .. Len(w) - 2 |-> SubSeq(T, w[i + 1] + 1, w[i + 2] - 1)]
  BY <1>4, Zenon DEF Commands
<1>6. Len(w) - 2 = K
  BY <1>3
<1>7. Commands(T) = [i \in 0 .. K |-> SubSeq(T, w[i + 1] + 1, w[i + 2] - 1)]
  BY <1>5, <1>6, Zenon
<1>8. ASSUME NEW i \in 0 .. K PROVE w[i + 1] = Lo(T, i) /\ w[i + 2] = Hi(T, i)
  <2>1. w[i + 1] = Lo(T, i)
    <3>1. w[i + 1] = v[i + 1]
      <4>1. i + 1 \in 1 .. K + 1
        OBVIOUS
      <4> QED
        BY <1>3, <4>1, Zenon
    <3>2. CASE i = 0
      <4>1. i + 1 = 1
        BY <3>2
      <4> QED
        BY <1>2, <3>1, <3>2, <4>1, Zenon DEF Lo
    <3>3. CASE i # 0
      <4>1. i \in 1 .. K
        BY <3>3
      <4> QED
        BY <1>2, <1>u, <3>1, <3>3, <4>1, Zenon DEF Lo
    <3> QED
      BY <3>2, <3>3
  <2>2. w[i + 2] = Hi(T, i)
    <3>2. CASE i = K
      BY <1>3, <1>e, <3>2, Zenon DEF Hi
    <3>3. CASE i # K
      <4>j. PICK j \in 1 .. K : j = i + 1
        BY <3>3
      <4>1. j + 1 = i + 2 /\ j + 1 \in 1 .. K + 1
        BY <4>j
      <4>2. w[j + 1] = v[j + 1] /\ v[j + 1] = u[j]
        BY <1>2, <1>3, <4>1, Zenon
      <4> QED
        BY <1>u, <3>3, <4>j, <4>1, <4>2, Zenon DEF Hi
    <3> QED
      BY <3>2, <3>3
  <2> QED
    BY <2>1, <2>2
<1>9. \A i \in 0 .. K : Commands(T)[i] = Cmd(T, i)
  BY <1>7, <1>8, Zenon DEF Cmd
<1>10. Cardinality(0 .. K) = K + 1
  BY FS_Interval
<1>11. DOMAIN Commands(T) = 0 .. K
  BY <1>7
<1> QED
  BY <1>9, <1>10, <1>11

Copied(C, T, l, L) == \A k \in 1 .. L : C[k] = T[l + k]
NoBars(T, N, l, L) == \A k \in 1 .. L : l + k \in 1 .. N /\ Has(T, l + k, Inner)

(* A command is a copy of the tokens between its bars, and none of them is *)
(* a bar.                                                                  *)
LEMMA CmdFacts ==
  ASSUME NEW T, NEW N \in Nat, Lexemes(T, N), NEW i \in 0 .. Cardinality(Bars(T)),
         NEW l \in Nat, l = Lo(T, i), NEW h \in Nat, h = Hi(T, i)
  PROVE  \E L \in Nat : /\ Lexemes(Cmd(T, i), L) /\ l + L + 1 = h
                        /\ Copied(Cmd(T, i), T, l, L)
                        /\ NoBars(T, N, l, L)
<1>1. l \in 0 .. N /\ h \in 1 .. N + 1 /\ l < h /\ \A j \in Bars(T) : ~(l < j /\ j < h)
  BY Between
<1>L. PICK L \in Nat : l + L + 1 = h
  <2>1. h - l - 1 \in Nat /\ l + (h - l - 1) + 1 = h
    BY <1>1
  <2> QED
    BY <2>1
<1>a. PICK a \in Int : a = l + 1
  OBVIOUS
<1>b. PICK b \in Int : b = h - 1
  OBVIOUS
<1>2. /\ \A k \in a .. b : k \in 1 .. N
      /\ (IF a <= b THEN b - a + 1 ELSE 0) = L /\ b - a + 1 = L
      /\ \A k \in 1 .. L : a + k - 1 = l + k
  BY <1>1, <1>L, <1>a, <1>b
<1>C. PICK C : C = SubSeq(T, a, b)
  OBVIOUS
<1>3. \A k \in a .. b : T[k] \in Tok
  BY <1>2, LexemesFacts
<1>4. /\ C \in Seq(Tok) /\ Len(C) = IF a <= b THEN b - a + 1 ELSE 0
      /\ \A k \in 1 .. b - a + 1 : C[k] = T[a + k - 1]
  BY <1>3, <1>C, SubSeqProperties
<1>5. Len(C) = L
  <2>1. Len(C) = IF a <= b THEN b - a + 1 ELSE 0
    BY <1>4
  <2> QED
    BY <1>2, <2>1
<1>6. Copied(C, T, l, L)
  BY <1>2, <1>4, Zenon DEF Copied
<1>7. C = Cmd(T, i)
  BY <1>a, <1>b, <1>C, Zenon DEF Cmd
<1>8. ASSUME NEW k \in 1 .. L PROVE l + k \in 1 .. N /\ Has(T, l + k, Inner)
  <2>x. PICK x \in 1 .. N : x = l + k /\ l < x /\ x < h
    BY <1>1, <1>L
  <2>1. x \notin Bars(T)
    BY <1>1, <2>x
  <2>2. ~Has(T, x, {"PIPE"}) /\ Has(T, x, TokenTypes)
    BY <2>1, BarsFacts, LexemesFacts
  <2>3. Has(T, x, Inner)
    BY <2>2, Zenon DEF Has, Inner
  <2> QED
    BY <2>x, <2>3, Zenon
<1>9. NoBars(T, N, l, L)
  BY <1>8 DEF NoBars
<1>10. Lexemes(C, L)
  BY <1>4, <1>5 DEF Lexemes
<1> QED
  BY <1>6, <1>7, <1>9, <1>10, <1>L, Zenon

(* What Plain() asks of one command.                                       *)
Operands(C) == {j + 1 : j \in Of(C, Redirs)}
Arguments(C) == Of(C, {"NORMAL"}) \ Operands(C)
Fits(C, i, K) ==
  /\ Arguments(C) # {}
  /\ Operands(C) \subseteq Of(C, {"NORMAL"})
  /\ \A j \in Arguments(C) : \A k \in Of(C, Redirs) : j < k
  /\ \A j \in Of(C, {"BG"}) : i = K /\ j = Len(C)
  /\ \A j \in Of(C, Ins) : i = 0
  /\ \A j \in Of(C, Outs) : i = K

LEMMA PlainIs ==
  ASSUME NEW T, NEW N \in Nat, Lexemes(T, N), NEW K \in Nat, K = Cardinality(Bars(T)), Plain(T)
  PROVE  \A i \in 0 .. K : Fits(Cmd(T, i), i, K)
<1>C. PICK C : C = Commands(T)
  OBVIOUS
<1>1. DOMAIN C = 0 .. K /\ Cardinality(DOMAIN C) - 1 = K /\ \A i \in 0 .. K : C[i] = Cmd(T, i)
  BY <1>C, CommandsAre
<1>2. \A i \in DOMAIN C : Fits(C[i], i, Cardinality(DOMAIN C) - 1)
  BY <1>C, Zenon DEF Plain, Fits, Arguments, Operands, Ins, Outs
<1>3. \A i \in 0 .. K : Fits(C[i], i, K)
  BY <1>1, <1>2, Zenon
<1> QED
  BY <1>1, <1>3, Zenon

(* In a command of L tokens, words W, redirections R and a last one G: the *)
(* arguments come first.                                                   *)
Shape(L, W, R, G, O, A) ==
  /\ W \subseteq 1 .. L /\ R \subseteq 1 .. L /\ G \subseteq 1 .. L
  /\ \A k \in 1 .. L : k \in W \/ k \in R \/ k \in G
  /\ \A k \in W : k \notin R /\ k \notin G
  /\ O = {j + 1 : j \in R} /\ A = W \ O /\ A # {}
  /\ \A j \in A : \A k \in R : j < k
  /\ \A j \in G : j = L

LEMMA ArgsFirst ==
  ASSUME NEW L \in Nat, NEW W, NEW R, NEW G, NEW O, NEW A, Shape(L, W, R, G, O, A)
  PROVE  \E a \in 1 .. L : A = 1 .. a /\ (a < L => a + 1 \in R \/ a + 1 \in G)
<1> USE DEF Shape
<1>0. A \subseteq 0 .. L /\ A \subseteq W /\ \A j \in A : j \in 1 .. L
  <2>1. A \subseteq W
    OBVIOUS
  <2>2. A \subseteq 1 .. L
    BY <2>1
  <2>3. \A j \in 1 .. L : j \in 0 .. L
    OBVIOUS
  <2> QED
    BY <2>1, <2>2, <2>3, Zenon
<1>a. PICK a : a = Max(A)
  OBVIOUS
<1>1. a \in A /\ \A x \in A : x <= a
  BY <1>0, <1>a, MaxFacts
<1>2. a \in 1 .. L /\ a \in W /\ a \notin R /\ a \notin G
  BY <1>0, <1>1
<1>3. \A k \in W : (\A j \in R : k # j + 1) => k \in A
  OBVIOUS
<1>4. \A k \in R : a < k
  BY <1>1
<1>5. ASSUME NEW p \in 1 .. a PROVE p \in A
  <2>1. p \in 1 .. L
    BY <1>2
  <2>2. p \notin R
    <3>1. ~(a < p)
      BY <1>2
    <3> QED
      BY <1>4, <3>1
  <2>3. p \notin G
    <3>1. p = L => p = a
      BY <1>2
    <3> QED
      BY <1>2, <3>1
  <2>4. \A j \in R : p # j + 1
    <3> SUFFICES ASSUME NEW j \in R, p = j + 1 PROVE FALSE
      OBVIOUS
    <3>1. a < j /\ j \in 1 .. L
      BY <1>4
    <3> QED
      BY <1>2, <3>1
  <2> QED
    BY <1>3, <2>1, <2>2, <2>3, <2>4
<1>6. A = 1 .. a
  <2>1. \A x \in A : x \in 1 .. a
    <3> SUFFICES ASSUME NEW x \in A PROVE x \in 1 .. a
      OBVIOUS
    <3>1. x \in 1 .. L /\ x <= a
      BY <1>0, <1>1
    <3> QED
      BY <1>2, <3>1
  <2> QED
    BY <1>5, <2>1
<1>7. a < L => a + 1 \in R \/ a + 1 \in G
  <2> SUFFICES ASSUME a < L, a + 1 \notin R, a + 1 \notin G PROVE FALSE
    OBVIOUS
  <2>k. PICK k \in 1 .. L : k = a + 1
    BY <1>2
  <2>1. k \in W
    BY <2>k
  <2>2. k \notin A
    BY <1>1, <1>2, <2>k
  <2>j. PICK j \in R : k = j + 1
    BY <1>3, <2>1, <2>2
  <2>3. j = a
    <3>1. j \in 1 .. L
      OBVIOUS
    <3> QED
      BY <1>2, <2>k, <2>j, <3>1
  <2> QED
    BY <1>2, <2>3
<1> QED
  BY <1>2, <1>6, <1>7

(* Every redirection has one operand.                                      *)
LEMMA ArgsCount ==
  ASSUME NEW L \in Nat, NEW W, NEW R, NEW O, NEW a \in Nat,
         W \subseteq 1 .. L, R \subseteq 1 .. L, O = {j + 1 : j \in R}, O \subseteq W,
         W \ O = 1 .. a
  PROVE  Cardinality(W) - Cardinality(R) = a
<1>1. IsFiniteSet(1 .. L) /\ IsFiniteSet(W) /\ IsFiniteSet(R)
  <2>1. IsFiniteSet(1 .. L)
    BY FS_Interval
  <2> QED
    BY <2>1, FS_Subset
<1>2. Cardinality(O) = Cardinality(R)
  <2> DEFINE f == [j \in R |-> j + 1]
  <2>1. f \in Bijection(R, O)
    <3>1. \A j \in R : j \in Nat
      OBVIOUS
    <3>2. f \in [R -> O] /\ \A x, y \in R : f[x] = f[y] => x = y
      BY <3>1
    <3>3. \A y \in O : \E x \in R : f[x] = y
      OBVIOUS
    <3> HIDE DEF f
    <3>4. f \in Surjection(R, O)
      BY <3>2, <3>3 DEF Surjection
    <3>5. f \in Injection(R, O)
      BY <3>2 DEF Injection, IsInjective
    <3> QED
      BY <3>4, <3>5 DEF Bijection
  <2>2. ExistsBijection(R, O)
    BY <2>1 DEF ExistsBijection
  <2> QED
    BY <1>1, <2>2, FS_Bijection
<1>3. Cardinality(W \ O) = Cardinality(W) - Cardinality(W \cap O)
  BY <1>1, FS_Difference
<1>4. W \cap O = O
  OBVIOUS
<1>5. Cardinality(1 .. a) = a
  BY FS_Interval
<1>6. Cardinality(W) \in Nat /\ Cardinality(R) \in Nat
  BY <1>1, FS_CardinalityType
<1>7. a = Cardinality(W) - Cardinality(R)
  BY <1>2, <1>3, <1>4, <1>5, Zenon
<1> QED
  BY <1>6, <1>7

(* Some tokens of a command are its arguments, from the first to a.        *)
Leads(C, L, a) ==
  /\ a \in 1 .. L /\ \A k \in 1 .. a : k \in Of(C, {"NORMAL"})
  /\ Cardinality(Of(C, {"NORMAL"})) - Cardinality(Of(C, Redirs)) = a
  /\ a < L => a + 1 \in Of(C, Redirs) \/ a + 1 \in Of(C, {"BG"})

(* In a command that Plain() admits the arguments are its first words.     *)
LEMMA ArgsAre ==
  ASSUME NEW C, NEW L \in Nat, Lexemes(C, L), NEW i, NEW K, Fits(C, i, K),
         \A k \in 1 .. L : Has(C, k, Inner)
  PROVE  \E a \in 1 .. L : Leads(C, L, a)
<1>W. PICK W : W = Of(C, {"NORMAL"})
  OBVIOUS
<1>R. PICK R : R = Of(C, Redirs)
  OBVIOUS
<1>G. PICK G : G = Of(C, {"BG"})
  OBVIOUS
<1>O. PICK O : O = {j + 1 : j \in R}
  OBVIOUS
<1>A. PICK A : A = W \ O
  OBVIOUS
<1>1. /\ W = {j \in 1 .. L : Has(C, j, {"NORMAL"})}
      /\ R = {j \in 1 .. L : Has(C, j, Redirs)}
      /\ G = {j \in 1 .. L : Has(C, j, {"BG"})}
  BY <1>W, <1>R, <1>G, OfIs
<1>2. \A k \in 1 .. L : k \in W \/ k \in R \/ k \in G
  <2>1. Inner = {"NORMAL", "BG"} \cup Redirs
    BY DEF TokenTypes, Redirs, Inner
  <2>2. \A k \in 1 .. L : Has(C, k, {"NORMAL"}) \/ Has(C, k, {"BG"}) \/ Has(C, k, Redirs)
    BY <2>1, Zenon DEF Has
  <2> QED
    BY <1>1, <2>2
<1>3. \A k \in W : k \notin R /\ k \notin G
  <2>1. "NORMAL" \notin {"BG"} /\ "NORMAL" \notin Redirs
    BY DEF Redirs
  <2>2. \A k : Has(C, k, {"NORMAL"}) => ~Has(C, k, {"BG"}) /\ ~Has(C, k, Redirs)
    BY <2>1, Zenon DEF Has
  <2> QED
    BY <1>1, <2>2
<1>4. /\ A # {} /\ O \subseteq W /\ (\A j \in A : \A k \in R : j < k)
      /\ \A j \in G : j = L
  <2>1. Len(C) = L
    BY DEF Lexemes
  <2> QED
    BY <1>W, <1>R, <1>G, <1>O, <1>A, <2>1, Zenon DEF Fits, Arguments, Operands
<1>5. W \subseteq 1 .. L /\ R \subseteq 1 .. L /\ G \subseteq 1 .. L
  BY <1>W, <1>R, <1>G, OfIs
<1>a. PICK a \in 1 .. L : A = 1 .. a /\ (a < L => a + 1 \in R \/ a + 1 \in G)
  <2>1. Shape(L, W, R, G, O, A)
    BY <1>2, <1>3, <1>4, <1>5, <1>A, <1>O DEF Shape
  <2> QED
    BY <2>1, ArgsFirst
<1>6. Cardinality(W) - Cardinality(R) = a
  <2>1. W \ O = 1 .. a /\ a \in Nat
    BY <1>a, <1>A
  <2> QED
    BY <1>4, <1>5, <1>O, <2>1, ArgsCount
<1>7. \A k \in 1 .. a : k \in W
  BY <1>a, <1>A
<1> QED
  BY <1>6, <1>7, <1>a, <1>W, <1>R, <1>G, Zenon DEF Leads

FirstTexts(C, a) == [k \in 1 .. a |-> C[k].text]

(* They are the first of the words.                                        *)
LEMMA HeadTexts ==
  ASSUME NEW C, NEW L \in Nat, Lexemes(C, L), NEW a \in 1 .. L,
         \A k \in 1 .. a : k \in Of(C, {"NORMAL"})
  PROVE  SubSeq(Texts(Words(C)), 1, a) = FirstTexts(C, a)
<1>W. PICK W : W = Of(C, {"NORMAL"})
  OBVIOUS
<1>1. W \subseteq 1 .. L /\ W \in SUBSET Nat /\ IsFiniteSet(W) /\ 0 \notin W
  <2>1. W \subseteq 1 .. L /\ W \in SUBSET Nat /\ IsFiniteSet(W)
    BY <1>W, OfIs
  <2> QED
    BY <2>1
<1>X. PICK X : X = Picked(C, W)
  OBVIOUS
<1>w. PICK w : w = Cardinality(W)
  OBVIOUS
<1>2. /\ w \in Nat /\ X \in Seq(Tok) /\ Len(X) = w
      /\ \A n \in 1 .. w : X[n] = C[Ups(W)[n]]
  <2>1. C \in Seq(Tok) /\ Len(C) = L
    BY DEF Lexemes
  <2>2. W \in SUBSET (1 .. Len(C))
    BY <1>1, <2>1
  <2>3. /\ Cardinality(W) \in Nat
        /\ Picked(C, W) \in Seq(Tok) /\ Len(Picked(C, W)) = Cardinality(W)
        /\ \A n \in 1 .. Cardinality(W) : Picked(C, W)[n] = C[Ups(W)[n]]
    BY <2>1, <2>2, PickedFacts
  <2> QED
    BY <1>X, <1>w, <2>3, Zenon
<1>3. \A n \in 1 .. a : Ups(W)[n] = n /\ n <= w
  <2>1. 1 .. a \subseteq W /\ a \in Nat
    BY <1>W
  <2> QED
    BY <1>1, <1>w, <2>1, UpsHead
<1>4. \A n \in 1 .. a : n \in 1 .. w /\ X[n] = C[n]
  <2> SUFFICES ASSUME NEW n \in 1 .. a PROVE n \in 1 .. w /\ X[n] = C[n]
    OBVIOUS
  <2>1. n \in 1 .. w
    BY <1>2, <1>3
  <2> QED
    BY <1>2, <1>3, <2>1, Zenon
<1>Y. PICK Y : Y = Texts(X)
  OBVIOUS
<1>5. \A n \in 1 .. w : Y[n] = X[n].text
  <2>1. DOMAIN X = 1 .. w
    BY <1>2, LenProperties
  <2>2. Y = [k \in 1 .. w |-> X[k].text]
    BY <1>Y, <2>1, Zenon DEF Texts
  <2> QED
    BY <2>2
<1>6. \A n \in 1 .. w : X[n].text \in Seq(AnyChar)
  <2>1. \A n \in 1 .. w : X[n] \in Tok
    BY <1>2, ElementOfSeq
  <2>2. \A t \in Tok : t.text \in Seq(AnyChar)
    BY DEF Tok
  <2> QED
    BY <2>1, <2>2, Zenon
<1>7. \A n \in 1 .. a : Y[n] = C[n].text /\ Y[n] \in Seq(AnyChar)
  BY <1>4, <1>5, <1>6, Zenon
<1> DEFINE txt(k) == C[k].text
<1>f. PICK f : f = [k \in 1 .. a |-> txt(k)]
  OBVIOUS
<1>8. f \in Seq(Seq(AnyChar)) /\ Len(f) = a /\ \A n \in 1 .. a : f[n] = Y[n]
  <2>1. \A n \in 1 .. a : txt(n) = Y[n] /\ txt(n) \in Seq(AnyChar)
    BY <1>7, Zenon
  <2> HIDE DEF txt
  <2>2. f \in [1 .. a -> Seq(AnyChar)] /\ \A n \in 1 .. a : f[n] = Y[n]
    BY <1>f, <2>1
  <2> QED
    BY <2>2
<1>g. PICK g : g = SubSeq(Y, 1, a)
  OBVIOUS
<1>9. g \in Seq(Seq(AnyChar)) /\ Len(g) = a /\ \A n \in 1 .. a : g[n] = Y[n]
  <2>0. 1 \in Int /\ a \in Int /\ (IF 1 <= a THEN a - 1 + 1 ELSE 0) = a
    OBVIOUS
  <2>1. /\ g \in Seq(Seq(AnyChar)) /\ Len(g) = IF 1 <= a THEN a - 1 + 1 ELSE 0
        /\ \A n \in 1 .. a - 1 + 1 : g[n] = Y[1 + n - 1]
    BY <1>7, <1>g, <2>0, SubSeqProperties
  <2>2. Len(g) = a
    <3>1. Len(g) = IF 1 <= a THEN a - 1 + 1 ELSE 0
      BY <2>1
    <3> QED
      BY <2>0, <3>1
  <2>3. ASSUME NEW n \in 1 .. a PROVE g[n] = Y[n]
    <3>1. n \in 1 .. a - 1 + 1 /\ 1 + n - 1 = n
      OBVIOUS
    <3> QED
      BY <2>1, <3>1, Zenon
  <2> QED
    BY <2>1, <2>2, <2>3
<1>10. g = f
  <2>1. \A n \in 1 .. a : g[n] = f[n]
    BY <1>8, <1>9, Zenon
  <2> QED
    BY <1>8, <1>9, <2>1, SeqEqual
<1> QED
  BY <1>10, <1>f, <1>g, <1>X, <1>Y, <1>W, Zenon DEF Words, FirstTexts

(* What ends the arguments of command i in the whole line.                 *)
Stops(T, i) == {"PIPE", "BG"} \cup Looked(T, i)

LEMMA StopsAre ==
  ASSUME NEW T, NEW i, NEW K, K = Cardinality(Bars(T))
  PROVE  /\ "NORMAL" \notin Stops(T, i) /\ "PIPE" \in Stops(T, i) /\ "BG" \in Stops(T, i)
         /\ i = 0 => "REDIR_IN" \in Stops(T, i)
         /\ i = K => "REDIR_OUT" \in Stops(T, i) /\ "REDIR_APPEND" \in Stops(T, i)
         /\ i = 0 => Ins \cap Looked(T, i) = Ins
         /\ i # 0 => Ins \cap Looked(T, i) = {}
         /\ i = K => Outs \cap Looked(T, i) = Outs
         /\ i # K => Outs \cap Looked(T, i) = {}
<1>1. PipeCnt(T) = K
  BY DEF PipeCnt, Bars
<1>2. Looked(T, i) = (IF i = 0 THEN {"REDIR_IN"} ELSE {})
                       \cup (IF i = K THEN {"REDIR_OUT", "REDIR_APPEND"} ELSE {})
  BY <1>1 DEF Looked
<1> QED
  BY <1>2 DEF Stops, Ins, Outs

(* argv of command i stops behind its arguments, although the loop looks   *)
(* for a NULL in the whole rest of the line.                               *)
LEMMA EndsAt ==
  ASSUME NEW T, NEW N \in Nat, Lexemes(T, N), NEW K \in Nat, K = Cardinality(Bars(T)),
         NEW i \in 0 .. K, NEW l \in Nat, l = Lo(T, i), NEW h \in Nat, h = Hi(T, i),
         NEW L \in Nat, Lexemes(Cmd(T, i), L), l + L + 1 = h,
         Copied(Cmd(T, i), T, l, L),
         Fits(Cmd(T, i), i, K), NEW a \in 1 .. L, Leads(Cmd(T, i), L, a)
  PROVE  Argv(T, i) = FirstTexts(Cmd(T, i), a)
<1>C. PICK C : C = Cmd(T, i)
  OBVIOUS
<1>1. Lexemes(C, L) /\ (Copied(C, T, l, L)) /\ Fits(C, i, K)
      /\ Leads(C, L, a)
  BY <1>C, Zenon
<1>2. l \in 0 .. N /\ h \in 1 .. N + 1 /\ (h <= N => h \in Bars(T))
  BY Between
<1>Z. PICK Z : Z = Stops(T, i)
  OBVIOUS
<1>f. PICK from \in Nat : from = l + 1
  OBVIOUS
<1>n. PICK nulls : nulls = {j \in Of(T, Z) : j >= from}
  OBVIOUS
<1>3. \A j \in 1 .. N : j \in Of(T, Z) <=> Has(T, j, Z)
  BY OfIs
<1>4. Of(T, Z) \in SUBSET Nat /\ IsFiniteSet(Of(T, Z)) /\ Of(T, Z) \subseteq 1 .. N
  BY OfIs
<1>5. \A types : \A k \in 1 .. L : k \in Of(C, types) <=> Has(T, l + k, types)
  <2> SUFFICES ASSUME NEW types, NEW k \in 1 .. L
               PROVE  k \in Of(C, types) <=> Has(T, l + k, types)
    OBVIOUS
  <2>1. k \in Of(C, types) <=> Has(C, k, types)
    <3>1. Lexemes(C, L)
      BY <1>1
    <3> QED
      BY <3>1, OfIs
  <2>2. C[k] = T[l + k]
    BY <1>1, Zenon DEF Copied
  <2> QED
    BY <2>1, <2>2, Zenon DEF Has
<1>6. ASSUME NEW k \in 1 .. a PROVE l + k \notin nulls
  <2>1. k \in Of(C, {"NORMAL"}) /\ k \in 1 .. L
    BY <1>1 DEF Leads
  <2>2. Has(T, l + k, {"NORMAL"})
    BY <1>5, <2>1, Zenon
  <2>3. "NORMAL" \notin Z
    BY <1>Z, StopsAre, Zenon
  <2>4. ~Has(T, l + k, Z)
    BY <2>2, <2>3, Zenon DEF Has
  <2>5. l + k \notin Of(T, Z)
    BY <1>3, <1>4, <2>4
  <2> QED
    BY <1>n, <2>5
<1>x. PICK x \in Nat : x = l + a + 1
  OBVIOUS
<1>7. \A j \in nulls : j \in 1 .. N /\ x <= j
  <2> SUFFICES ASSUME NEW j \in nulls PROVE j \in 1 .. N /\ x <= j
    OBVIOUS
  <2>1. j \in 1 .. N /\ j >= from
    BY <1>4, <1>n
  <2>2. ~(j - l \in 1 .. a)
    <3> SUFFICES ASSUME j - l \in 1 .. a PROVE FALSE
      OBVIOUS
    <3>k. PICK k \in 1 .. a : k = j - l
      OBVIOUS
    <3>1. l + k = j
      BY <2>1, <3>k
    <3>2. l + k \notin nulls
      BY <1>6
    <3> QED
      BY <3>1, <3>2, Zenon
  <2> QED
    BY <1>f, <1>x, <2>1, <2>2
<1>8. x <= N => x \in nulls
  <2> SUFFICES ASSUME x <= N PROVE x \in nulls
    OBVIOUS
  <2>1. x \in 1 .. N /\ x >= from
    BY <1>f, <1>x
  <2>2. Has(T, x, Z)
    <3>1. CASE a < L
      <4>k. PICK k \in 1 .. L : k = a + 1 /\ l + k = x
        BY <1>x, <3>1
      <4>1. k \in Of(C, Redirs) \/ k \in Of(C, {"BG"})
        BY <1>1, <3>1, <4>k DEF Leads
      <4>2. CASE k \in Of(C, {"BG"})
        <5>1. Has(T, x, {"BG"})
          BY <1>5, <4>k, <4>2, Zenon
        <5>2. "BG" \in Z
          BY <1>Z, StopsAre, Zenon
        <5> QED
          BY <5>1, <5>2, Zenon DEF Has
      <4>3. CASE k \in Of(C, Redirs)
        <5>1. Has(T, x, Redirs)
          BY <1>5, <4>k, <4>3, Zenon
        <5>2. Redirs = Ins \cup Outs
          BY DEF Redirs, Ins, Outs
        <5>3. Has(T, x, Ins) \/ Has(T, x, Outs)
          BY <5>1, <5>2, Zenon DEF Has
        <5>4. CASE Has(T, x, Ins)
          <6>1. k \in Of(C, Ins)
            BY <1>5, <4>k, <5>4, Zenon
          <6>2. i = 0
            BY <1>1, <6>1, Zenon DEF Fits
          <6>3. "REDIR_IN" \in Z
            BY <1>Z, <6>2, StopsAre, Zenon
          <6> QED
            BY <5>4, <6>3, Zenon DEF Has, Ins
        <5>5. CASE Has(T, x, Outs)
          <6>1. k \in Of(C, Outs)
            BY <1>5, <4>k, <5>5, Zenon
          <6>2. i = K
            BY <1>1, <6>1, Zenon DEF Fits
          <6>3. "REDIR_OUT" \in Z /\ "REDIR_APPEND" \in Z
            BY <1>Z, <6>2, StopsAre, Zenon
          <6> QED
            BY <5>5, <6>3, Zenon DEF Has, Outs
        <5> QED
          BY <5>3, <5>4, <5>5
      <4> QED
        BY <4>1, <4>2, <4>3
    <3>2. CASE ~(a < L)
      <4>1. x = h
        BY <1>x, <3>2
      <4>2. Has(T, x, {"PIPE"})
        BY <1>2, <2>1, <4>1, BarsFacts
      <4>3. "PIPE" \in Z
        BY <1>Z, StopsAre, Zenon
      <4> QED
        BY <4>2, <4>3, Zenon DEF Has
    <3> QED
      BY <3>1, <3>2
  <2> QED
    BY <1>3, <1>n, <2>1, <2>2
<1>t. PICK to : to = IF nulls = {} THEN Len(T) ELSE Ups(nulls)[1] - 1
  OBVIOUS
<1>9. to = l + a
  <2>1. CASE x <= N
    <3>1. nulls \in SUBSET Nat /\ IsFiniteSet(nulls)
      <4>1. nulls \in SUBSET Of(T, Z)
        BY <1>n
      <4> QED
        BY <1>4, <4>1, FS_Subset
    <3>2. x \in nulls /\ \A y \in nulls : x <= y
      BY <1>7, <1>8, <2>1
    <3>3. Ups(nulls)[1] = x
      BY <3>1, <3>2, UpsFirst
    <3>4. to = x - 1
      BY <1>t, <3>2, <3>3
    <3> QED
      BY <1>x, <3>4
  <2>2. CASE ~(x <= N)
    <3>1. nulls = {}
      BY <1>7, <2>2
    <3>2. to = N
      BY <1>t, <3>1 DEF Lexemes
    <3>3. N = l + a
      BY <1>2, <1>x, <2>2
    <3> QED
      BY <3>2, <3>3
  <2> QED
    BY <2>1, <2>2
<1>10. to - from + 1 = a
  BY <1>9, <1>f
<1>11. PipeFind(T, i) + 1 = from
  BY <1>f DEF PipeFind, Lo, Bars
<1>12. Argv(T, i) = [k \in 1 .. to - from + 1 |-> T[from + k - 1].text]
  BY <1>11, <1>n, <1>t, <1>Z, Zenon DEF Argv, Stops
<1>13. Argv(T, i) = [k \in 1 .. a |-> T[from + k - 1].text]
  BY <1>10, <1>12, Zenon
<1>14. \A k \in 1 .. a : T[from + k - 1] = C[k]
  <2> SUFFICES ASSUME NEW k \in 1 .. a PROVE T[from + k - 1] = C[k]
    OBVIOUS
  <2>1. from + k - 1 = l + k /\ k \in 1 .. L
    BY <1>f
  <2> QED
    BY <1>1, <2>1, Zenon DEF Copied
<1>15. \A k \in 1 .. a : T[from + k - 1].text = C[k].text
  BY <1>14, Zenon
<1> QED
  BY <1>13, <1>15, <1>C, Zenon DEF FirstTexts

(* The last of the redirections of the line is that of the command.        *)
Moved(l, S) == {l + j : j \in S}
Room(l, L, N) == l + L <= N
Followed(C, types, L) == \A j \in Of(C, types) : j + 1 \in 1 .. L

LEMMA TargetIs ==
  ASSUME NEW T, NEW N \in Nat, NEW C, NEW L \in Nat, Lexemes(C, L), NEW l \in Nat, Room(l, L, N),
         Copied(C, T, l, L), NEW types, Followed(C, types, L)
  PROVE  LastOf(T, Moved(l, Of(C, types))) = Target(C, types)
<1>S. PICK S : S = Of(C, types)
  OBVIOUS
<1>M. PICK M : M = Moved(l, S)
  OBVIOUS
<1>1. S \subseteq 1 .. L /\ \A j \in S : j + 1 \in 1 .. L
  <2>1. S \subseteq 1 .. L
    BY <1>S, OfIs
  <2> QED
    BY <1>S, <2>1 DEF Followed
<1>2. Target(C, types) = IF S = {} THEN <<>> ELSE <<C[Max(S) + 1].text>>
  BY <1>S, Zenon DEF Target
<1>3. LastOf(T, M) = IF M = {} THEN <<>> ELSE <<T[Last(Ups(M)) + 1].text>>
  BY Zenon DEF LastOf
<1>4. M = {} <=> S = {}
  BY <1>M DEF Moved
<1>5. CASE S = {}
  <2>1. LastOf(T, M) = Target(C, types)
    BY <1>2, <1>3, <1>4, <1>5, Zenon
  <2> QED
    BY <1>M, <1>S, <2>1, Zenon
<1>6. CASE S # {}
  <2>x. PICK x : x = Max(S)
    OBVIOUS
  <2>1. x \in S /\ \A k \in S : k <= x
    <3>1. S \subseteq 0 .. L
      BY <1>1
    <3> QED
      BY <1>6, <2>x, <3>1, MaxFacts
  <2>2. M \subseteq 1 .. N /\ M # {}
    <3>1. M # {}
      BY <1>4, <1>6
    <3>2. \A j \in S : l + j \in 1 .. N
      BY <1>1 DEF Room
    <3> QED
      BY <1>M, <3>1, <3>2 DEF Moved
  <2>y. PICK y : y = Max(M)
    OBVIOUS
  <2>3. y \in M /\ \A k \in M : k <= y
    <3>1. M \subseteq 0 .. N
      BY <2>2
    <3> QED
      BY <2>2, <2>y, <3>1, MaxFacts
  <2>4. Last(Ups(M)) = y
    BY <2>2, <2>y, UpsLast
  <2>j. PICK j \in S : y = l + j
    BY <1>M, <2>3 DEF Moved
  <2>5. y = l + x
    <3>1. l + x \in M
      BY <1>M, <2>1 DEF Moved
    <3>2. l + x <= y /\ j <= x /\ x \in Nat /\ j \in Nat
      BY <1>1, <2>1, <2>3, <3>1
    <3> QED
      BY <2>j, <3>2
  <2>k. PICK k \in 1 .. L : k = x + 1
    BY <1>1, <2>1
  <2>6. l + k = y + 1
    <3>1. x \in Nat
      BY <1>1, <2>1
    <3> QED
      BY <2>5, <2>k, <3>1
  <2>7. C[k] = T[y + 1]
    BY <2>6, Zenon DEF Copied
  <2>8. LastOf(T, M) = <<T[y + 1].text>>
    BY <1>3, <2>2, <2>4, Zenon
  <2>9. Target(C, types) = <<C[k].text>>
    BY <1>2, <1>6, <2>x, <2>k, Zenon
  <2>10. LastOf(T, M) = Target(C, types)
    BY <2>7, <2>8, <2>9, Zenon
  <2> QED
    BY <1>M, <1>S, <2>10, Zenon
<1> QED
  BY <1>5, <1>6

(* What only command e may have is in command e.                           *)
Same(T, i, types, b, L) ==
  \A k \in 1 .. L : k \in Of(Cmd(T, i), types) <=> b + k \in Of(T, types)

LEMMA AllIn ==
  ASSUME NEW T, NEW N \in Nat, Lexemes(T, N), NEW K \in Nat, K = Cardinality(Bars(T)),
         NEW types, types \subseteq Inner, NEW e \in 0 .. K,
         NEW l \in Nat, l = Lo(T, e),
         \A i \in 0 .. K : \A j \in Of(Cmd(T, i), types) : i = e
  PROVE  Of(T, types) = Moved(l, Of(Cmd(T, e), types))
<1>1. ASSUME NEW i \in 0 .. K, NEW b \in Nat, b = Lo(T, i)
      PROVE  \E L \in Nat : /\ b + L + 1 = Hi(T, i) /\ b + L <= N
                            /\ Same(T, i, types, b, L)
                            /\ Of(Cmd(T, i), types) \subseteq 1 .. L
  <2>h. PICK h \in Nat : h = Hi(T, i) /\ h <= N + 1
    <3>1. Hi(T, i) \in 1 .. N + 1
      BY Between
    <3> QED
      BY <3>1
  <2>L. PICK L \in Nat : /\ Lexemes(Cmd(T, i), L) /\ b + L + 1 = h
                         /\ Copied(Cmd(T, i), T, b, L)
                         /\ NoBars(T, N, b, L)
    BY <1>1, <2>h, CmdFacts
  <2>1. Lexemes(Cmd(T, i), L)
    BY <2>L
  <2>2. ASSUME NEW k \in 1 .. L PROVE k \in Of(Cmd(T, i), types) <=> b + k \in Of(T, types)
    <3>1. k \in Of(Cmd(T, i), types) <=> Has(Cmd(T, i), k, types)
      BY <2>1, OfIs
    <3>2. b + k \in 1 .. N /\ Cmd(T, i)[k] = T[b + k]
      BY <2>L, Zenon DEF Copied, NoBars
    <3>3. b + k \in Of(T, types) <=> Has(T, b + k, types)
      BY <3>2, OfIs
    <3> QED
      BY <3>1, <3>2, <3>3, Zenon DEF Has
  <2>3. Of(Cmd(T, i), types) \subseteq 1 .. L
    BY <2>1, OfIs
  <2>4. b + L + 1 = h
    BY <2>L
  <2>5. b + L <= N
    BY <2>h, <2>4
  <2> QED
    BY <2>2, <2>3, <2>4, <2>5, <2>h, Zenon DEF Same
<1>2. ASSUME NEW x \in Of(T, types) PROVE x \in Moved(l, Of(Cmd(T, e), types))
  <2>1. x \in 1 .. N /\ Has(T, x, types)
    BY OfIs
  <2>2. x \notin Bars(T)
    <3>1. ~Has(T, x, {"PIPE"})
      BY <2>1 DEF Has, Inner
    <3> QED
      BY <2>1, <3>1, BarsFacts
  <2>i. PICK i \in 0 .. K : Lo(T, i) < x /\ x < Hi(T, i)
    BY <2>1, <2>2, Inside
  <2>b. PICK b \in Nat : b = Lo(T, i)
    <3>1. Lo(T, i) \in 0 .. N
      BY Between
    <3> QED
      BY <3>1
  <2>L. PICK L \in Nat : /\ b + L + 1 = Hi(T, i)
                         /\ Same(T, i, types, b, L)
    BY <1>1, <2>b, Zenon
  <2>h. PICK h \in Nat : h = Hi(T, i) /\ b + L + 1 = h /\ b < x /\ x < h
    <3>1. b + L + 1 \in Nat
      OBVIOUS
    <3> QED
      BY <2>L, <2>b, <2>i, <3>1
  <2>k. PICK k \in 1 .. L : b + k = x
    <3>1. x - b \in 1 .. L /\ b + (x - b) = x
      BY <2>1, <2>h
    <3> QED
      BY <3>1
  <2>3. k \in Of(Cmd(T, i), types)
    BY <2>L, <2>k, Zenon DEF Same
  <2>4. i = e
    BY <2>3
  <2>5. b = l /\ k \in Of(Cmd(T, e), types)
    BY <2>3, <2>4, <2>b, Zenon
  <2>6. \E j \in Of(Cmd(T, e), types) : x = l + j
    BY <2>5, <2>k
  <2> QED
    BY <2>6 DEF Moved
<1>3. ASSUME NEW j \in Of(Cmd(T, e), types) PROVE l + j \in Of(T, types)
  <2>L. PICK L \in Nat : /\ Same(T, e, types, l, L)
                         /\ Of(Cmd(T, e), types) \subseteq 1 .. L
    BY <1>1
  <2> QED
    BY <2>L DEF Same
<1> QED
  <2>1. \A x \in Moved(l, Of(Cmd(T, e), types)) : x \in Of(T, types)
    BY <1>3 DEF Moved
  <2> QED
    BY <1>2, <2>1

(* Every command of a line that Plain() admits gets its own.               *)
LEMMA ParsedIs ==
  ASSUME NEW T, NEW N \in Nat, Lexemes(T, N), Plain(T)
  PROVE  LET C == Commands(T)
         IN Parsed(T) =
              [i \in DOMAIN C |->
                [argv |-> SubSeq(Texts(Words(C[i])), 1,
                                 Len(Words(C[i])) - Cardinality(Of(C[i], Redirs))),
                 in   |-> Target(C[i], {"REDIR_IN"}),
                 out  |-> Target(C[i], {"REDIR_OUT", "REDIR_APPEND"})]]
<1>K. PICK K \in Nat : K = Cardinality(Bars(T))
  BY BarsFacts
<1>D. PICK D : D = Commands(T)
  OBVIOUS
<1>1. DOMAIN D = 0 .. K /\ \A i \in 0 .. K : D[i] = Cmd(T, i)
  BY <1>D, <1>K, CommandsAre
<1>2. \A i \in 0 .. K : Fits(Cmd(T, i), i, K)
  BY <1>K, PlainIs
<1>3. ASSUME NEW i \in 0 .. K
      PROVE  /\ Argv(T, i) = SubSeq(Texts(Words(Cmd(T, i))), 1,
                                    Len(Words(Cmd(T, i))) - Cardinality(Of(Cmd(T, i), Redirs)))
             /\ LastOf(T, Of(T, Ins \cap Looked(T, i))) = Target(Cmd(T, i), Ins)
             /\ LastOf(T, Of(T, Outs \cap Looked(T, i))) = Target(Cmd(T, i), Outs)
  <2>C. PICK C : C = Cmd(T, i)
    OBVIOUS
  <2>l. PICK l \in Nat : l = Lo(T, i)
    <3>1. Lo(T, i) \in 0 .. N
      BY <1>K, Between
    <3> QED
      BY <3>1
  <2>h. PICK h \in Nat : h = Hi(T, i) /\ h <= N + 1
    <3>1. Hi(T, i) \in 1 .. N + 1
      BY <1>K, Between
    <3> QED
      BY <3>1
  <2>L. PICK L \in Nat : /\ Lexemes(C, L) /\ l + L + 1 = h
                         /\ Copied(C, T, l, L)
                         /\ NoBars(T, N, l, L)
    <3>1. \E L \in Nat : /\ Lexemes(Cmd(T, i), L) /\ l + L + 1 = h
                         /\ Copied(Cmd(T, i), T, l, L)
                         /\ NoBars(T, N, l, L)
      BY <1>K, <2>l, <2>h, CmdFacts
    <3> QED
      BY <3>1, <2>C, Zenon
  <2>1. Lexemes(C, L) /\ l + L + 1 = h
    BY <2>L
  <2>2. Copied(C, T, l, L)
    BY <2>L
  <2>3. \A k \in 1 .. L : Has(C, k, Inner)
    BY <2>L, Zenon DEF Has, Copied, NoBars
  <2>4. Fits(C, i, K)
    BY <1>2, <2>C
  <2>a. PICK a \in 1 .. L : Leads(C, L, a)
    BY <2>1, <2>3, <2>4, ArgsAre
  <2>5. Argv(T, i) = FirstTexts(C, a)
    <3>1. /\ Lexemes(Cmd(T, i), L) /\ Copied(Cmd(T, i), T, l, L)
          /\ Fits(Cmd(T, i), i, K) /\ Leads(Cmd(T, i), L, a)
      BY <2>C, <2>1, <2>2, <2>4, <2>a, Zenon
    <3>2. l + L + 1 = h
      BY <2>1
    <3>3. Argv(T, i) = FirstTexts(Cmd(T, i), a)
      BY <1>K, <2>l, <2>h, <3>1, <3>2, EndsAt
    <3> QED
      BY <2>C, <3>3, Zenon
  <2>6. SubSeq(Texts(Words(C)), 1, a) = FirstTexts(C, a)
    <3>1. \A k \in 1 .. a : k \in Of(C, {"NORMAL"})
      BY <2>a DEF Leads
    <3> QED
      BY <2>1, <3>1, HeadTexts
  <2>7. Len(Words(C)) - Cardinality(Of(C, Redirs)) = a
    <3>1. Len(Words(C)) = Cardinality(Of(C, {"NORMAL"}))
      <4>W. PICK W : W = Of(C, {"NORMAL"})
        OBVIOUS
      <4>1. C \in Seq(Tok) /\ Len(C) = L
        BY <2>1 DEF Lexemes
      <4>2. W \in SUBSET (1 .. Len(C))
        BY <2>1, <4>W, <4>1, OfIs
      <4>3. Len(Picked(C, W)) = Cardinality(W)
        BY <4>1, <4>2, PickedFacts
      <4> QED
        BY <4>W, <4>3, Zenon DEF Words
    <3> QED
      BY <2>a, <3>1, Zenon DEF Leads
  <2>8. ASSUME NEW Y, Y \subseteq Redirs
        PROVE  /\ Y \subseteq Inner
               /\ \A j \in Of(C, Y) : j + 1 \in 1 .. L
    <3>1. Redirs \subseteq Inner
      BY DEF Redirs, TokenTypes, Inner
    <3>2. \A j \in Of(C, Y) : j \in Of(C, Redirs)
      BY <2>8 DEF Of
    <3>3. \A j \in Of(C, Redirs) : j + 1 \in Operands(C)
      BY DEF Operands
    <3>4. Operands(C) \subseteq Of(C, {"NORMAL"})
      BY <2>4, Zenon DEF Fits
    <3>5. Of(C, {"NORMAL"}) \subseteq 1 .. L
      BY <2>1, OfIs
    <3> QED
      BY <2>8, <3>1, <3>2, <3>3, <3>4, <3>5, Zenon
  <2>9. ASSUME NEW Y, Y \subseteq Redirs, NEW e \in 0 .. K,
               \A n \in 0 .. K : \A j \in Of(Cmd(T, n), Y) : n = e,
               i = e => Y \cap Looked(T, i) = Y, i # e => Y \cap Looked(T, i) = {}
        PROVE  LastOf(T, Of(T, Y \cap Looked(T, i))) = Target(C, Y)
    <3>1. CASE i = e
      <4>1. Of(T, Y) = Moved(l, Of(C, Y))
        BY <1>K, <2>8, <2>9, <2>C, <2>l, <3>1, AllIn
      <4>2. LastOf(T, Moved(l, Of(C, Y))) = Target(C, Y)
        <5>1. Room(l, L, N)
          BY <2>1, <2>h DEF Room
        <5>2. Followed(C, Y, L)
          BY <2>8, <2>9, Zenon DEF Followed
        <5>3. Lexemes(C, L)
          BY <2>1
        <5> QED
          BY <2>2, <5>1, <5>2, <5>3, TargetIs
      <4> QED
        BY <2>9, <3>1, <4>1, <4>2, Zenon
    <3>2. CASE i # e
      <4>1. Of(C, Y) = {}
        BY <2>9, <2>C, <3>2
      <4>2. Of(T, {}) = {}
        BY DEF Of
      <4> QED
        BY <2>9, <3>2, <4>1, <4>2, Zenon DEF LastOf, Target
    <3> QED
      BY <3>1, <3>2
  <2>10. Ins \subseteq Redirs /\ Outs \subseteq Redirs
    BY DEF Ins, Outs, Redirs
  <2>11. LastOf(T, Of(T, Ins \cap Looked(T, i))) = Target(C, Ins)
    <3>e. PICK e \in 0 .. K : e = 0
      OBVIOUS
    <3>1. \A n \in 0 .. K : \A j \in Of(Cmd(T, n), Ins) : n = e
      BY <1>2, <3>e, Zenon DEF Fits
    <3>2. (i = e => Ins \cap Looked(T, i) = Ins) /\ (i # e => Ins \cap Looked(T, i) = {})
      BY <3>e, StopsAre, Zenon
    <3> QED
      BY <2>9, <2>10, <3>1, <3>2, Zenon
  <2>12. LastOf(T, Of(T, Outs \cap Looked(T, i))) = Target(C, Outs)
    <3>e. PICK e \in 0 .. K : e = K
      OBVIOUS
    <3>1. \A n \in 0 .. K : \A j \in Of(Cmd(T, n), Outs) : n = e
      BY <1>2, <3>e, Zenon DEF Fits
    <3>2. (i = e => Outs \cap Looked(T, i) = Outs) /\ (i # e => Outs \cap Looked(T, i) = {})
      BY <1>K, <3>e, StopsAre, Zenon
    <3> QED
      BY <2>9, <2>10, <3>1, <3>2, Zenon
  <2> QED
    BY <2>5, <2>6, <2>7, <2>11, <2>12, <2>C, Zenon
<1>4. Parsed(T) = [i \in 0 .. K |->
                     [argv |-> Argv(T, i),
                      in   |-> LastOf(T, Of(T, Ins \cap Looked(T, i))),
                      out  |-> LastOf(T, Of(T, Outs \cap Looked(T, i)))]]
  <2>1. PipeCnt(T) = K
    BY <1>K DEF PipeCnt, Bars
  <2> QED
    BY <2>1, Zenon DEF Parsed, Ins, Outs
<1>5. Parsed(T) = [i \in 0 .. K |->
                     [argv |-> SubSeq(Texts(Words(D[i])), 1,
                                      Len(Words(D[i])) - Cardinality(Of(D[i], Redirs))),
                      in   |-> Target(D[i], Ins),
                      out  |-> Target(D[i], Outs)]]
  BY <1>1, <1>3, <1>4, Zenon
<1> QED
  BY <1>1, <1>5, <1>D, Zenon DEF Ins, Outs

(* What gettoken() returns for any line, also one with longer words.       *)
Rests(m, r) == \E q \in 1 .. m + 1 : r = From(Input, q)
Yields(m, t) == [type |-> t.type, text |-> t.text] \in Tok /\ Rests(m, t.rest)

LEMMA YieldsIs ==
  ASSUME NEW m \in Nat, NEW q \in 1 .. m + 1, NEW type \in TokenTypes, NEW text \in Seq(AnyChar),
         NEW t, t = Token(type, text, From(Input, q))
  PROVE  Yields(m, t)
<1>r. PICK r : r = From(Input, q)
  OBVIOUS
<1>1. t.type = type /\ t.text = text /\ t.rest = r
  BY <1>r DEF Token
<1>2. [type |-> type, text |-> text] \in Tok
  BY DEF Tok
<1> QED
  BY <1>1, <1>2, <1>r, Zenon DEF Yields, Rests

(* A word, cut or not, is a token, and the rest of the input is left.      *)
LEMMA WordYields ==
  ASSUME NEW m \in Nat, Text(line, m), NEW j \in 1 .. m, Ord(line, j)
  PROVE  Yields(m, Word(From(Input, j)))
<1>e. PICK e : e = WordEnd(line, j)
  OBVIOUS
<1>1. WordRuns(m, j, e)
  BY <1>e, WordEndIs, Zenon
<1>0. e \in j .. m /\ j \in 1 .. m
  BY <1>1 DEF WordRuns
<1>n. PICK n \in Nat : n + j = m + 2
  <2>1. m + 2 - j \in Nat /\ m + 2 - j + j = m + 2
    OBVIOUS
  <2> QED
    BY <2>1
<1>x. PICK x \in Nat : x + j = e + 2 /\ x # 0
  <2>1. e + 2 - j \in Nat /\ e + 2 - j + j = e + 2 /\ e + 2 - j # 0
    BY <1>0
  <2> QED
    BY <2>1
<1>s. PICK s : s = From(Input, j)
  OBVIOUS
<1>2. Stop(s) = x /\ x \in 1 .. n
  BY <1>1, <1>n, <1>x, <1>s, StopIs
<1>3. Reads(s, n)
  <2>1. j \in 1 .. m + 1
    OBVIOUS
  <2> QED
    BY <1>n, <1>s, <2>1, RestIs
<1>k. PICK k \in Nat : k = m + 1
  OBVIOUS
<1>4. Reads(Input, k)
  BY <1>k, InputIs, Zenon
<1>5. "NORMAL" \in TokenTypes
  BY DEF TokenTypes
<1>6. ASSUME NEW y \in Nat, y + 1 \in 1 .. n
      PROVE  SubSeq(s, 1, y) \in Seq(AnyChar)
  <2>1. 1 \in Int /\ y \in Int /\ \A i \in 1 .. y : i \in 1 .. n
    BY <1>6
  <2>2. \A i \in 1 .. y : s[i] \in AnyChar
    BY <1>3, <2>1, ReadsFacts
  <2> QED
    BY <2>1, <2>2, SubSeqProperties
<1>7. ASSUME NEW y \in Nat, y \in 1 .. n, NEW q \in Nat, q = j + y - 1
      PROVE  q \in 1 .. m + 1 /\ From(s, y) = From(Input, q)
  <2>1. j \in 1 .. k + 1 /\ q \in 1 .. k + 1 /\ y # 0 /\ q \in 1 .. m + 1
    BY <1>7, <1>k, <1>n
  <2> QED
    BY <1>4, <1>7, <1>s, <2>1, FromFrom
<1>8. CASE x - 1 < TokenLen - 1
  <2>y. PICK y \in Nat : y = x - 1 /\ y + 1 \in 1 .. n
    BY <1>2, <1>x
  <2>q. PICK q \in Nat : q = j + x - 1
    BY <1>0, <1>x
  <2>1. Word(s) = Token("NORMAL", SubSeq(s, 1, y), From(s, x))
    <3>1. x - 1 # TokenLen - 1
      BY <1>8, <1>x, LineAssumption
    <3> QED
      BY <1>2, <1>8, <2>y, <3>1, WordBy, Zenon
  <2>2. q \in 1 .. m + 1 /\ From(s, x) = From(Input, q)
    BY <1>2, <1>7, <2>q
  <2>3. SubSeq(s, 1, y) \in Seq(AnyChar)
    BY <1>6, <2>y
  <2>4. Word(s) = Token("NORMAL", SubSeq(s, 1, y), From(Input, q))
    BY <2>1, <2>2, Zenon
  <2>5. Yields(m, Word(s))
    BY <1>5, <2>2, <2>3, <2>4, YieldsIs
  <2> QED
    BY <1>s, <2>5, Zenon
<1>9. CASE ~(x - 1 < TokenLen - 1)
  <2>y. PICK y \in Nat : y = TokenLen - 1 /\ y \in 1 .. n /\ y + 1 \in 1 .. n
    <3>1. TokenLen - 1 \in Nat /\ TokenLen - 1 \in 1 .. n /\ TokenLen - 1 + 1 \in 1 .. n
      BY <1>2, <1>9, LineAssumption
    <3> QED
      BY <3>1
  <2>q. PICK q \in Nat : q = j + y - 1
    BY <1>0, <2>y
  <2>1. Word(s) = Token("NORMAL", SubSeq(s, 1, y), From(s, y))
    BY <1>2, <1>9, <2>y, WordBy, Zenon
  <2>2. q \in 1 .. m + 1 /\ From(s, y) = From(Input, q)
    BY <1>7, <2>q, <2>y
  <2>3. SubSeq(s, 1, y) \in Seq(AnyChar)
    BY <1>6, <2>y
  <2>4. Word(s) = Token("NORMAL", SubSeq(s, 1, y), From(Input, q))
    BY <2>1, <2>2, Zenon
  <2>5. Yields(m, Word(s))
    BY <1>5, <2>2, <2>3, <2>4, YieldsIs
  <2> QED
    BY <1>s, <2>5, Zenon
<1> QED
  BY <1>8, <1>9

LEMMA LexedYields ==
  ASSUME NEW m \in Nat, Text(line, m), NEW j \in 1 .. m + 1, NEW k \in Nat, k = m + 1,
         ~Blank(Input, j)
  PROVE  \/ Lexed(From(Input, j)).type = "EOL"
         \/ Yields(m, Lexed(From(Input, j)))
<1>1. CASE j = k
  <2>1. Lexed(From(Input, k)).type = "EOL"
    BY LexedEnd
  <2> QED
    BY <1>1, <2>1, Zenon
<1>2. CASE j # k
  <2>0. j \in 1 .. m
    BY <1>2
  <2>d. PICK d \in 1 .. m + 1 : d = j + 1 /\ d \in Nat
    BY <2>0
  <2>n. PICK n \in Nat : n + j = m + 2
    <3>1. m + 2 - j \in Nat /\ m + 2 - j + j = m + 2
      OBVIOUS
    <3> QED
      BY <3>1
  <2>s. PICK s : s = From(Input, j)
    OBVIOUS
  <2>1. /\ Reads(s, n) /\ n # 0 /\ s[1] = line[j]
        /\ Ord(s, 1) <=> Ord(line, j)
        /\ Sp(s, 1) <=> Sp(line, j)
        /\ Gt(s, 1) <=> Gt(line, j)
        /\ Gt(s, 2) <=> Gt(Input, d)
    BY <2>0, <2>n, <2>d, <2>s, FirstOfRest
  <2>2. /\ Ord(s, 1) => Lexed(s) = Word(s)
        /\ Gt(s, 1) /\ Gt(s, 2) => Lexed(s) = Token("REDIR_APPEND", <<>>, From(s, 3))
        /\ Gt(s, 1) /\ ~Gt(s, 2) => Lexed(s) = Token("REDIR_OUT", <<>>, From(s, 2))
        /\ Sp(s, 1) /\ ~Gt(s, 1) => Lexed(s) = Token(TypeOf[s[1]], <<>>, From(s, 2))
    <3>1. Reads(s, n) /\ n # 0
      BY <2>1
    <3> QED
      BY <3>1, LexedCases
  <2>3. <<>> \in Seq(AnyChar) /\ "REDIR_APPEND" \in TokenTypes /\ "REDIR_OUT" \in TokenTypes
    BY DEF TokenTypes
  <2>4. Reads(Input, k)
    BY InputIs, Zenon
  <2>5. From(s, 2) = From(Input, d)
    <3>1. j \in 1 .. k + 1 /\ d \in 1 .. k + 1 /\ d = j + 2 - 1 /\ 2 \in Nat /\ 2 # 0
      BY <2>d
    <3> QED
      BY <2>4, <2>s, <3>1, FromFrom
  <2>6. ~Blank(line, j)
    BY <2>0, InputKinds
  <2>7. CASE Ord(line, j)
    <3>1. Lexed(s) = Word(s)
      BY <2>1, <2>2, <2>7, Zenon
    <3>2. Yields(m, Word(s))
      BY <2>0, <2>7, <2>s, WordYields
    <3> QED
      BY <2>s, <3>1, <3>2, Zenon
  <2>8. CASE ~Ord(line, j) /\ Gt(line, j) /\ Gt(Input, d)
    <3>1. d # m + 1
      BY <2>8, InputKinds
    <3>q. PICK q \in 1 .. m + 1 : q = j + 3 - 1
      <4>1. j + 3 - 1 \in 1 .. m + 1
        BY <2>d, <3>1
      <4> QED
        BY <4>1
    <3>2. From(s, 3) = From(Input, q)
      <4>1. j \in 1 .. k + 1 /\ q \in 1 .. k + 1 /\ q = j + 3 - 1 /\ 3 \in Nat /\ 3 # 0
        BY <3>q
      <4> QED
        BY <2>4, <2>s, <4>1, FromFrom
    <3>3. Lexed(s) = Token("REDIR_APPEND", <<>>, From(Input, q))
      BY <2>1, <2>2, <2>8, <3>2, Zenon
    <3>4. Yields(m, Lexed(s))
      BY <2>3, <3>3, YieldsIs
    <3> QED
      BY <2>s, <3>4, Zenon
  <2>9. CASE ~Ord(line, j) /\ Gt(line, j) /\ ~Gt(Input, d)
    <3>1. Lexed(s) = Token("REDIR_OUT", <<>>, From(Input, d))
      BY <2>1, <2>2, <2>5, <2>9, Zenon
    <3>2. Yields(m, Lexed(s))
      BY <2>3, <3>1, YieldsIs
    <3> QED
      BY <2>s, <3>2, Zenon
  <2>10. CASE ~Ord(line, j) /\ ~Gt(line, j)
    <3>1. Sp(line, j)
      BY <2>0, <2>6, <2>10, OneKind
    <3>2. Lexed(s) = Token(TypeOf[s[1]], <<>>, From(Input, d))
      BY <2>1, <2>2, <2>5, <2>10, <3>1, Zenon
    <3>c. PICK c : c = s[1]
      OBVIOUS
    <3>3. Special(c)
      BY <2>1, <3>1, <3>c, Zenon DEF Sp
    <3>t. PICK type : type = TypeOf[c]
      OBVIOUS
    <3>4. type \in TokenTypes \/ type = "EOL"
      <4>1. c \in {"|", "<", ">", "&", NewLine}
        BY <3>3 DEF Special
      <4> QED
        BY <4>1, <3>t DEF TypeOf, TokenTypes, NewLine
    <3>5. Lexed(s) = Token(type, <<>>, From(Input, d))
      BY <3>2, <3>c, <3>t, Zenon
    <3>6. CASE type \in TokenTypes
      <4>1. Yields(m, Lexed(s))
        BY <2>3, <3>5, <3>6, YieldsIs
      <4> QED
        BY <2>s, <4>1, Zenon
    <3>7. CASE type = "EOL"
      <4>l. PICK l : l = Lexed(s)
        OBVIOUS
      <4>z. PICK z : z = From(Input, d)
        OBVIOUS
      <4>1. l = Token(type, <<>>, z)
        BY <3>5, <4>l, <4>z, Zenon
      <4>2. l.type = type
        BY <4>1 DEF Token
      <4> QED
        BY <2>s, <3>7, <4>2, <4>l, Zenon
    <3> QED
      BY <3>4, <3>6, <3>7
  <2> QED
    BY <2>7, <2>8, <2>9, <2>10, Zenon
<1> QED
  BY <1>1, <1>2

(* The states of main() over the tokens.                                   *)
Holds(m) == [rest : {From(Input, q) : q \in 1 .. m + 1}, tokens : Seq(Tok)]

(* The state of main() keeps its type.                                     *)
LEMMA HoldsStay ==
  ASSUME NEW m \in Nat, Text(line, m)
  PROVE  /\ Read(Input) \in Holds(m)
         /\ \A x \in Holds(m) : TokenRound(x) \in Holds(m) /\ x.tokens \in Seq(Tok)
<1>k. PICK k \in Nat : k = m + 1 /\ k \in 1 .. k
  OBVIOUS
<1>1. Reads(Input, k) /\ ~Blank(Input, k)
  <2>1. Reads(Input, m + 1)
    BY InputIs
  <2>2. ~Blank(Input, m + 1)
    BY InputKinds
  <2> QED
    BY <1>k, <2>1, <2>2, Zenon
<1>2. Read(Input) \in Holds(m)
  <2>1. At(m, 1) = Read(Input)
    BY AtStart
  <2>2. Input = From(Input, 1)
    <3>1. At(m, 1).rest = From(Input, 1) /\ Read(Input).rest = Input
      BY DEF At, Read
    <3> QED
      BY <2>1, <3>1, Zenon
  <2>3. \E q \in 1 .. m + 1 : Input = From(Input, q)
    BY <2>2
  <2>i. PICK i : i = Input
    OBVIOUS
  <2>Q. PICK Q : Q = {From(Input, q) : q \in 1 .. m + 1}
    OBVIOUS
  <2>4. i \in Q
    BY <2>3, <2>i, <2>Q
  <2>5. [rest |-> i, tokens |-> <<>>] \in [rest : Q, tokens : Seq(Tok)]
    BY <2>4
  <2> QED
    BY <2>5, <2>i, <2>Q, Zenon DEF Holds, Read
<1>3. ASSUME NEW x \in Holds(m) PROVE TokenRound(x) \in Holds(m) /\ x.tokens \in Seq(Tok)
  <2>Q. PICK Q : Q = {From(Input, q) : q \in 1 .. m + 1}
    OBVIOUS
  <2>0. \A y : y \in Holds(m) <=> y \in [rest : Q, tokens : Seq(Tok)]
    BY <2>Q, Zenon DEF Holds
  <2>1. x.rest \in Q /\ x.tokens \in Seq(Tok)
    BY <2>0
  <2>p. PICK p \in 1 .. k : x.rest = From(Input, p)
    <3>1. \E p \in 1 .. m + 1 : x.rest = From(Input, p)
      BY <2>1, <2>Q
    <3> QED
      BY <1>k, <3>1, Zenon
  <2>j. PICK j \in p .. k : /\ ~Blank(Input, j)
                            /\ Gettoken(From(Input, p)) = Lexed(From(Input, j))
    BY <1>1, SkipBlanks
  <2>t. PICK t : t = Lexed(From(Input, j))
    OBVIOUS
  <2>2. Gettoken(x.rest) = t
    BY <2>p, <2>j, <2>t, Zenon
  <2>3. TokenRound(x) =
          IF t.type \in {"EOL", "EOF"} THEN x
          ELSE [rest   |-> t.rest,
                tokens |-> Append(x.tokens, [type |-> t.type, text |-> t.text])]
    BY <2>2, Zenon DEF TokenRound
  <2>4. t.type = "EOL" \/ Yields(m, t)
    <3>1. j \in 1 .. m + 1 /\ ~Blank(Input, j)
      BY <1>k, <2>j
    <3> QED
      BY <1>k, <2>t, <3>1, LexedYields
  <2>5. CASE t.type \in {"EOL", "EOF"}
    BY <2>1, <2>3, <2>5
  <2>6. CASE t.type \notin {"EOL", "EOF"}
    <3>1. Yields(m, t)
      BY <2>4, <2>6
    <3>u. PICK u \in Tok : u = [type |-> t.type, text |-> t.text]
      BY <3>1 DEF Yields
    <3>2. \E q \in 1 .. m + 1 : t.rest = From(Input, q)
      BY <3>1 DEF Yields, Rests
    <3>r. PICK r \in Q : r = t.rest
      BY <3>2, <2>Q
    <3>a. PICK a \in Seq(Tok) : a = Append(x.tokens, u)
      BY <2>1, AppendProperties
    <3>3. TokenRound(x) = [rest |-> r, tokens |-> a]
      BY <2>3, <2>6, <3>u, <3>r, <3>a, Zenon
    <3>4. [rest |-> r, tokens |-> a] \in [rest : Q, tokens : Seq(Tok)]
      OBVIOUS
    <3> QED
      BY <2>0, <2>1, <3>3, <3>4, Zenon
  <2> QED
    BY <2>5, <2>6
<1> QED
  BY <1>2, <1>3

(* The tokens of every line are tokens.                                    *)
LEMMA TokensLexemes ==
  ASSUME line \in Seq(Char)
  PROVE  \E N \in Nat : Lexemes(Tokens(Input), N)
<1>m. PICK m \in Nat : m = Len(line)
  BY LenProperties
<1>1. Text(line, m)
  BY <1>m DEF Text
<1>k. PICK k \in Nat : k = m + 1
  OBVIOUS
<1>S. PICK S : S = Holds(m)
  OBVIOUS
<1>2. Read(Input) \in S /\ \A x \in S : TokenRound(x) \in S /\ x.tokens \in Seq(Tok)
  BY <1>1, <1>S, HoldsStay
<1>h. PICK h : /\ \A n \in 0 .. k : h[n] \in S
               /\ Tokens(Input) = h[k].tokens
  BY <1>1, <1>2, <1>k, TokensSteps
<1>T. PICK T : T = Tokens(Input)
  OBVIOUS
<1>3. T \in Seq(Tok)
  <2>1. k \in 0 .. k
    OBVIOUS
  <2>2. h[k] \in S /\ T = h[k].tokens
    BY <1>h, <1>T, <2>1
  <2> QED
    BY <1>2, <2>2, Zenon
<1>N. PICK N \in Nat : N = Len(T)
  BY <1>3, LenProperties
<1>4. Lexemes(T, N)
  BY <1>3, <1>N DEF Lexemes
<1> QED
  BY <1>4, <1>T, Zenon

-----------------------------------------------------------------------------
(* A line is made of characters.                                           *)
TypeOK == line \in Seq(Char)

LEMMA TypeInvariant == Spec => []TypeOK
<1>1. Init => TypeOK
  BY DEF Init, TypeOK
<1>2. TypeOK /\ [Type]_line => TypeOK'
  BY AppendProperties DEF TypeOK, Type
<1> QED
  BY <1>1, <1>2, PTL DEF Spec

(* getargs() finds the words of every line, up to MAXCOM - 1 of them, and  *)
(* with fewer it has read the line to its end; of a line that is too long  *)
(* it finds the words that end before the cut.                             *)
THEOREM ArgsFound == Spec => []ArgsAreWords
<1>1. TypeOK => ArgsAreWords
  BY ArgsMeant DEF TypeOK
<1> QED
  BY <1>1, TypeInvariant, PTL

(* If every word of a line is short enough, main() gets all the tokens of  *)
(* the line, as they were meant, from gettoken().                          *)
THEOREM TokensFound == Spec => []TokensRight
<1>1. TypeOK => TokensRight
  BY TokensMeantFound DEF TypeOK
<1> QED
  BY <1>1, TypeInvariant, PTL

(* Of every line with commands as the shell expects them, main() gives     *)
(* each command its own words and its own redirections.                    *)
THEOREM CommandsParsed == Spec => []ParsedAsMeant
<1>1. TypeOK => ParsedAsMeant
  <2> SUFFICES ASSUME line \in Seq(Char) PROVE ParsedAsMeant
    BY DEF TypeOK
  <2>T. PICK T : T = Tokens(Input)
    OBVIOUS
  <2>N. PICK N \in Nat : Lexemes(T, N)
    BY <2>T, TokensLexemes
  <2>1. Plain(T) =>
          LET C == Commands(T)
          IN Parsed(T) =
               [i \in DOMAIN C |->
                 [argv |-> SubSeq(Texts(Words(C[i])), 1,
                                  Len(Words(C[i])) - Cardinality(Of(C[i], Redirs))),
                  in   |-> Target(C[i], {"REDIR_IN"}),
                  out  |-> Target(C[i], {"REDIR_OUT", "REDIR_APPEND"})]]
    BY <2>N, ParsedIs
  <2> QED
    BY <2>1, <2>T, Zenon DEF ParsedAsMeant
<1> QED
  BY <1>1, TypeInvariant, PTL
=============================================================================
