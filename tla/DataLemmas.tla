----------------------------- MODULE DataLemmas -----------------------------
(***************************************************************************)
(* Facts about the operators the models are built from: the least element  *)
(* of a set of naturals, the removal and the addition of an element of a   *)
(* sequence, and its elements that pass a test.                            *)
(***************************************************************************)
EXTENDS Integers, Sequences, SequencesExt, FiniteSetsExt, Subsequences,
        SequenceTheorems, FiniteSetTheorems, WellFoundedInduction, TLAPS

\* A non-empty set of naturals has its minimum, which is below every element.
LEMMA MinIsLeast ==
    ASSUME NEW S \in SUBSET Nat, S # {}
    PROVE  Min(S) \in S /\ \A y \in S : Min(S) =< y
<1>1. PICK x \in S : \A y \in S : ~ (<<y, x>> \in OpToRel(<, Nat))
  BY NatLessThanWellFounded, WFMin
<1>2. \A y \in S : x =< y
  <2> SUFFICES ASSUME NEW y \in S, y < x PROVE FALSE
    OBVIOUS
  <2>1. OpToRel(<, Nat) = {ss \in Nat \X Nat : ss[1] < ss[2]}
    BY Zenon DEF OpToRel
  <2>2. <<y, x>> \in OpToRel(<, Nat)
    BY <2>1
  <2> QED BY <1>1, <2>2, Zenon
<1> QED
  BY <1>2 DEF Min

\* Removing an element leaves a sequence over the same set.
LEMMA RemoveAtSeq ==
    ASSUME NEW S, NEW s \in Seq(S), NEW i \in 1..Len(s)
    PROVE  RemoveAt(s, i) \in Seq(S)
<1>1. SubSeq(s, 1, i-1) \in Seq(S)
  <2>1. \A j \in 1..(i-1) : s[j] \in S
    BY ElementOfSeq, LenProperties
  <2> QED BY <2>1, SubSeqProperties, LenProperties
<1>2. SubSeq(s, i+1, Len(s)) \in Seq(S)
  <2>1. \A j \in (i+1)..Len(s) : s[j] \in S
    BY ElementOfSeq, LenProperties
  <2> QED BY <2>1, SubSeqProperties, LenProperties
<1> QED
  BY <1>1, <1>2, ConcatProperties DEF RemoveAt

\* What is left of the sequence: the elements behind the removed one move down.
LEMMA RemoveAtElements ==
    ASSUME NEW S, NEW s \in Seq(S), NEW i \in 1..Len(s)
    PROVE  /\ Len(RemoveAt(s, i)) = Len(s) - 1
           /\ \A j \in 1..(Len(s) - 1) :
                 RemoveAt(s, i)[j] = IF j < i THEN s[j] ELSE s[j + 1]
<1> DEFINE a == SubSeq(s, 1, i-1)
           b == SubSeq(s, i+1, Len(s))
<1>0. Len(s) \in Nat
  BY LenProperties
<1>1. /\ a \in Seq(S) /\ Len(a) = i - 1
      /\ \A j \in 1..(i-1) : a[j] = s[j]
  <2>1. \A j \in 1..(i-1) : s[j] \in S
    BY ElementOfSeq, <1>0
  <2> QED BY <1>0, <2>1, SubSeqProperties
<1>2. /\ b \in Seq(S) /\ Len(b) = Len(s) - i
      /\ \A j \in 1..(Len(s) - i) : b[j] = s[i + j]
  <2>1. \A j \in (i+1)..Len(s) : s[j] \in S
    BY ElementOfSeq, <1>0
  <2>2. CASE i + 1 <= Len(s) + 1
    BY <1>0, <2>1, SubSeqProperties
  <2> QED BY <1>0, <2>2
<1>3. RemoveAt(s, i) = a \o b
  BY DEF RemoveAt
<1> HIDE DEF a, b
<1>4. /\ Len(a \o b) = Len(a) + Len(b)
      /\ \A j \in 1..(Len(a) + Len(b)) :
            (a \o b)[j] = IF j <= Len(a) THEN a[j] ELSE b[j - Len(a)]
  BY <1>1, <1>2, ConcatProperties
<1>5. ASSUME NEW j \in 1..(Len(s) - 1)
      PROVE  RemoveAt(s, i)[j] = IF j < i THEN s[j] ELSE s[j + 1]
  <2>1. CASE j < i
    BY <1>0, <1>1, <1>2, <1>3, <1>4, <2>1
  <2>2. CASE ~(j < i)
    <3>1. j - (i - 1) \in 1..(Len(s) - i)
      BY <1>0, <2>2
    <3>2. b[j - (i - 1)] = s[j + 1]
      BY <1>0, <1>2, <3>1
    <3> QED BY <1>0, <1>1, <1>2, <1>3, <1>4, <2>2, <3>2
  <2> QED BY <2>1, <2>2
<1> QED BY <1>0, <1>1, <1>2, <1>3, <1>4, <1>5

-----------------------------------------------------------------------------
(* Subsequences *)

\* The elements of a finite set of positions are numbered 1, 2, ... in their order.
LEMMA Places ==
    ASSUME NEW n \in Nat, NEW I \in SUBSET (1..n)
    PROVE  /\ IsFiniteSet(I) /\ Cardinality(I) \in 0..n
           /\ \A i \in I : PlaceOf(I, i) \in 1..Cardinality(I)
           /\ \A i, j \in I : i < j => PlaceOf(I, i) < PlaceOf(I, j)
           /\ \A k \in 1..Cardinality(I) : \E i \in I : PlaceOf(I, i) = k
<1>1. IsFiniteSet(1..n) /\ Cardinality(1..n) = n
  BY FS_Interval
<1>2. IsFiniteSet(I) /\ Cardinality(I) <= n
  BY <1>1, FS_Subset
<1>3. Cardinality(I) \in Nat
  BY <1>2, FS_CardinalityType
<1> DEFINE Upto(i) == {j \in I : j <= i}
<1>4. \A i \in I : IsFiniteSet(Upto(i)) /\ Cardinality(Upto(i)) <= Cardinality(I)
  BY <1>2, FS_Subset
<1>5. \A i \in I : Cardinality(Upto(i)) \in 1..Cardinality(I)
  <2> TAKE i \in I
  <2>1. IsFiniteSet(Upto(i)) /\ Cardinality(Upto(i)) <= Cardinality(I)
    BY <1>4
  <2>2. Upto(i) # {}
    OBVIOUS
  <2> HIDE DEF Upto
  <2>3. Cardinality(Upto(i)) \in Nat /\ Cardinality(Upto(i)) # 0
    BY <2>1, <2>2, FS_CardinalityType, FS_EmptySet
  <2> QED BY <1>3, <2>1, <2>3
<1>6. \A i, j \in I : i < j => Cardinality(Upto(i)) < Cardinality(Upto(j))
  <2> SUFFICES ASSUME NEW i \in I, NEW j \in I, i < j
               PROVE  Cardinality(Upto(i)) < Cardinality(Upto(j))
    OBVIOUS
  <2>1. Upto(i) \in SUBSET Upto(j) /\ Upto(i) # Upto(j)
    <3>1. j \in Upto(j) /\ j \notin Upto(i)
      OBVIOUS
    <3>2. \A k \in I : k <= i => k <= j
      OBVIOUS
    <3>3. Upto(i) \subseteq Upto(j)
      BY <3>2
    <3> HIDE DEF Upto
    <3> QED BY <3>1, <3>3
  <2>2. IsFiniteSet(Upto(j))
    BY <1>4
  <2>3. Cardinality(Upto(i)) \in Nat /\ Cardinality(Upto(j)) \in Nat
    BY <1>5
  <2> HIDE DEF Upto
  <2>4. Cardinality(Upto(i)) <= Cardinality(Upto(j)) /\ Cardinality(Upto(j)) # Cardinality(Upto(i))
    BY <2>1, <2>2, FS_Subset
  <2> QED BY <2>3, <2>4
<1>7. \A i \in I : PlaceOf(I, i) = Cardinality(Upto(i))
  BY DEF PlaceOf
<1> HIDE DEF Upto
<1> DEFINE T == 1..Cardinality(I)
           f == [i \in I |-> PlaceOf(I, i)]
<1>8. f \in Injection(I, T)
  <2>1. f \in [I -> T]
    BY <1>5, <1>7
  <2>2. \A i, j \in I : f[i] = f[j] => i = j
    <3> SUFFICES ASSUME NEW i \in I, NEW j \in I, f[i] = f[j], i # j PROVE FALSE
      OBVIOUS
    <3>1. f[i] < f[j] \/ f[j] < f[i]
      BY <1>6, <1>7
    <3>2. f[i] \in Nat /\ f[j] \in Nat
      BY <1>5, <1>7
    <3> QED BY <3>1, <3>2
  <2> HIDE DEF f, T
  <2> QED BY <2>1, <2>2 DEF Injection, IsInjective
<1>9. IsFiniteSet(T) /\ Cardinality(T) = Cardinality(I)
  <2>1. IsFiniteSet(T) /\ Cardinality(T) = IF 1 > Cardinality(I) THEN 0 ELSE Cardinality(I) - 1 + 1
    BY <1>3, FS_Interval
  <2> QED BY <1>3, <2>1
<1>10. f \in Surjection(I, T)
  <2> HIDE DEF f, T
  <2> QED BY <1>8, <1>9, FS_Injection
<1>11. \A k \in T : \E i \in I : PlaceOf(I, i) = k
  BY <1>10 DEF Surjection
<1> QED BY <1>2, <1>3, <1>5, <1>6, <1>7, <1>11

LEMMA Nths ==
    ASSUME NEW n \in Nat, NEW I \in SUBSET (1..n)
    PROVE  /\ \A k \in 1..Cardinality(I) : NthOf(I, k) \in I /\ PlaceOf(I, NthOf(I, k)) = k
           /\ \A i \in I : NthOf(I, PlaceOf(I, i)) = i
<1>1. \A k \in 1..Cardinality(I) : NthOf(I, k) \in I /\ PlaceOf(I, NthOf(I, k)) = k
  BY Places DEF NthOf
<1>2. \A i, j \in I : PlaceOf(I, i) = PlaceOf(I, j) => i = j
  <2> SUFFICES ASSUME NEW i \in I, NEW j \in I, PlaceOf(I, i) = PlaceOf(I, j), i # j
               PROVE  FALSE
    OBVIOUS
  <2>a. i \in Nat /\ j \in Nat
    OBVIOUS
  <2>b. i < j \/ j < i
    BY <2>a
  <2>c. \A k, l \in I : k < l => PlaceOf(I, k) < PlaceOf(I, l)
    BY Places
  <2>1. PlaceOf(I, i) < PlaceOf(I, j) \/ PlaceOf(I, j) < PlaceOf(I, i)
    BY <2>b, <2>c
  <2>2. PlaceOf(I, i) \in Nat /\ PlaceOf(I, j) \in Nat
    BY Places
  <2> QED BY <2>1, <2>2
<1>3. \A i \in I : PlaceOf(I, i) \in 1..Cardinality(I)
  BY Places
<1> QED BY <1>1, <1>2, <1>3

\* A subsequence has the elements at its places and no others, each as often as
\* the sequence has it there.
LEMMA Subsequence ==
    ASSUME NEW S, NEW s \in Seq(S), NEW I \in SUBSET DOMAIN s
    PROVE  /\ AtPlaces(s, I) \in Seq(S)
           /\ Len(AtPlaces(s, I)) = Cardinality(I)
           /\ Cardinality(I) \in 0..Len(s)
           /\ DOMAIN AtPlaces(s, I) = 1..Cardinality(I)
           /\ \A k \in 1..Cardinality(I) :
                 NthOf(I, k) \in I /\ AtPlaces(s, I)[k] = s[NthOf(I, k)]
           /\ \A i \in I : \E k \in 1..Cardinality(I) : NthOf(I, k) = i
           /\ \A k, l \in 1..Cardinality(I) : NthOf(I, k) = NthOf(I, l) => k = l
<1>1. Len(s) \in Nat /\ DOMAIN s = 1..Len(s) /\ \A i \in 1..Len(s) : s[i] \in S
  BY LenProperties, ElementOfSeq
<1>2. I \in SUBSET (1..Len(s))
  BY <1>1
<1>3. Cardinality(I) \in 0..Len(s)
  BY <1>1, <1>2, Places
<1>4. \A k \in 1..Cardinality(I) : NthOf(I, k) \in I /\ PlaceOf(I, NthOf(I, k)) = k
  BY <1>1, <1>2, Nths
<1>5. \A i \in I : NthOf(I, PlaceOf(I, i)) = i /\ PlaceOf(I, i) \in 1..Cardinality(I)
  BY <1>1, <1>2, Nths, Places
<1>6. AtPlaces(s, I) \in [1..Cardinality(I) -> S]
  BY <1>1, <1>2, <1>4 DEF AtPlaces
<1>7. AtPlaces(s, I) \in Seq(S) /\ Len(AtPlaces(s, I)) = Cardinality(I)
  BY <1>3, <1>6, IsASeq, LenProperties
<1>8. \A k \in 1..Cardinality(I) : AtPlaces(s, I)[k] = s[NthOf(I, k)]
  BY DEF AtPlaces
<1> QED BY <1>3, <1>4, <1>5, <1>6, <1>7, <1>8

\* A test that every element passes keeps the sequence.
LEMMA AllOfIt ==
    ASSUME NEW S, NEW s \in Seq(S)
    PROVE  AtPlaces(s, DOMAIN s) = s
<1>1. Len(s) \in Nat /\ DOMAIN s = 1..Len(s) /\ s \in [1..Len(s) -> S]
  BY LenProperties
<1> DEFINE I == 1..Len(s)
<1>2. Cardinality(I) = Len(s)
  BY <1>1, FS_Interval
<1>3. \A i \in I : PlaceOf(I, i) = i
  <2> TAKE i \in I
  <2>1. {j \in I : j <= i} = 1..i
    BY <1>1
  <2>2. Cardinality(1..i) = i
    BY <1>1, FS_Interval
  <2> QED BY <2>1, <2>2 DEF PlaceOf
<1>4. \A i \in I : NthOf(I, i) = i
  <2>1. \A i \in I : NthOf(I, PlaceOf(I, i)) = i
    BY <1>1, Nths
  <2> QED BY <1>3, <2>1
<1>5. AtPlaces(s, I) = [k \in I |-> s[k]]
  BY <1>2, <1>4 DEF AtPlaces
<1> QED BY <1>1, <1>5

\* Append puts an element behind a sequence.
LEMMA FrontAndLast ==
    ASSUME NEW S, NEW s \in Seq(S), NEW x \in S
    PROVE  Append(s, x) # <<>> /\ Front(Append(s, x)) = s /\ Last(Append(s, x)) = x
<1> DEFINE t == Append(s, x)
           n == Len(s)
<1>1. /\ n \in Nat /\ t \in Seq(S) /\ Len(t) = n + 1 /\ t # <<>>
      /\ \A i \in 1..n : t[i] = s[i]
      /\ t[n + 1] = x
  BY AppendProperties, LenProperties
<1> HIDE DEF t, n
<1>2. Last(t) = x
  BY <1>1 DEF Last
<1>3. Front(t) = SubSeq(t, 1, n)
  <2>1. Len(t) - 1 = n
    BY <1>1
  <2> QED BY <2>1 DEF Front
<1>4. \A i \in 1..n : t[i] \in S
  <2>1. \A i \in 1..n : i \in 1..Len(t)
    BY <1>1
  <2> QED BY <1>1, <2>1, LenProperties
<1>5. /\ SubSeq(t, 1, n) \in Seq(S) /\ Len(SubSeq(t, 1, n)) = n
      /\ \A i \in 1..n : SubSeq(t, 1, n)[i] = t[i]
  <2>1. n \in Int /\ 1 \in Int
    BY <1>1
  <2>2. /\ SubSeq(t, 1, n) \in Seq(S)
        /\ Len(SubSeq(t, 1, n)) = IF 1 <= n THEN n - 1 + 1 ELSE 0
        /\ \A i \in 1..(n - 1 + 1) : SubSeq(t, 1, n)[i] = t[1 + i - 1]
    BY <1>4, <2>1, SubSeqProperties
  <2>3. n - 1 + 1 = n /\ \A i \in 1..n : 1 + i - 1 = i
    BY <1>1
  <2> QED BY <1>1, <2>2, <2>3
<1> DEFINE u == SubSeq(t, 1, n)
<1> HIDE DEF u
<1>6. u = s
  BY <1>1, <1>5, SeqEqual DEF n, u
<1> QED BY <1>1, <1>2, <1>3, <1>6 DEF t, u

-----------------------------------------------------------------------------
(* Loops along a sequence *)

\* Induction over the naturals, with a set for the induction hypothesis.
LEMMA Counting ==
    ASSUME NEW T, 0 \in T, \A m \in Nat : m \in T => m + 1 \in T
    PROVE  Nat \subseteq T
<1> DEFINE S == Nat \ T
<1> SUFFICES ASSUME S # {} PROVE FALSE
  OBVIOUS
<1>1. Min(S) \in S /\ \A y \in S : Min(S) <= y
  BY MinIsLeast
<1> DEFINE m == Min(S)
<1> HIDE DEF m
<1>2. m \in Nat /\ m # 0 /\ m \notin T
  BY <1>1 DEF m
<1>3. m - 1 \in Nat /\ m - 1 + 1 = m
  BY <1>2
<1>4. m - 1 \in T
  <2>1. m - 1 \in S => m <= m - 1
    BY <1>1 DEF m
  <2> QED BY <1>3, <2>1
<1> QED BY <1>2, <1>3, <1>4

\* The same up to a bound.
LEMMA CountingTo ==
    ASSUME NEW n \in Nat, NEW T, 0 \in T, \A m \in 0..(n - 1) : m \in T => m + 1 \in T
    PROVE  \A m \in 0..n : m \in T
<1> DEFINE U == {m \in Nat : m <= n => m \in T}
<1>1. 0 \in U
  OBVIOUS
<1>2. \A m \in Nat : m \in U => m + 1 \in U
  <2> SUFFICES ASSUME NEW m \in Nat, m \in U, m + 1 <= n PROVE m + 1 \in T
    OBVIOUS
  <2>1. m \in 0..(n - 1) /\ m \in T
    OBVIOUS
  <2> QED BY <2>1
<1> HIDE DEF U
<1>3. Nat \subseteq U
  BY <1>1, <1>2, Counting
<1> QED BY <1>3 DEF U

\* SetToSeq lists a finite set, every element once.
LEMMA ListOfSet ==
    ASSUME NEW S, IsFiniteSet(S)
    PROVE  /\ SetToSeq(S) \in Seq(S)
           /\ Len(SetToSeq(S)) = Cardinality(S)
           /\ Cardinality(S) \in Nat
           /\ \A i, j \in 1..Cardinality(S) : SetToSeq(S)[i] = SetToSeq(S)[j] => i = j
           /\ \A x \in S : \E i \in 1..Cardinality(S) : SetToSeq(S)[i] = x
<1> DEFINE n == Cardinality(S)
           D == 1..n
           f == SetToSeq(S)
<1>1. n \in Nat /\ ExistsBijection(D, S)
  BY FS_CardinalityType
<1>2. PICK g \in [D -> S] : IsInjective(g)
  BY <1>1 DEF ExistsBijection, Bijection, Injection
<1>3. f \in [D -> S] /\ IsInjective(f)
  BY <1>2 DEF SetToSeq
<1>4. f \in Seq(S) /\ Len(f) = n
  BY <1>1, <1>3, IsASeq, LenProperties
<1>5. IsFiniteSet(D) /\ Cardinality(D) = n
  <2>1. Cardinality(D) = IF 1 > n THEN 0 ELSE n - 1 + 1
    BY <1>1, FS_Interval
  <2> QED BY <1>1, <2>1, FS_Interval
<1> HIDE DEF f, n, D
<1>6. f \in Injection(D, S)
  BY <1>3 DEF Injection
<1>7. f \in Surjection(D, S)
  BY <1>5, <1>6, FS_Injection DEF n
<1>8. \A i, j \in D : f[i] = f[j] => i = j
  BY <1>3 DEF IsInjective
<1> QED BY <1>1, <1>4, <1>7, <1>8 DEF Surjection, f, n, D
=============================================================================
