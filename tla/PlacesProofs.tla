---------------------------- MODULE PlacesProofs ---------------------------
(***************************************************************************)
(* Lemmas about numbers, places and lists that the other proofs cite: what *)
(* Counting and Defined say about loops that walk a list, which the models *)
(* write as recursive functions, and At() about those that take elements   *)
(* out of it.                                                              *)
(***************************************************************************)
EXTENDS Places, SequencesExt, SequenceTheorems, FiniteSetTheorems,
        WellFoundedInduction, TLAPS

-----------------------------------------------------------------------------
(* Numbers                                                                 *)

\* A set of natural numbers that is not empty has a least element, which Min
\* finds.
LEMMA LeastPlace ==
    ASSUME NEW I \in SUBSET Nat, I # {}
    PROVE  Min(I) \in I /\ \A y \in I : Min(I) <= y
<1> DEFINE R == OpToRel(<, Nat)
<1>1. \E x \in I : \A y \in I : <<y, x>> \notin R
  <2>1. IsWellFoundedOn(R, Nat)
    BY NatLessThanWellFounded
  <2> HIDE DEF R
  <2> QED
    BY <2>1, WFMin
<1>2. \A x, y \in Nat : y < x => <<y, x>> \in R
  BY DEF OpToRel
<1>3. \E x \in I : \A y \in I : x <= y
  <2> HIDE DEF R
  <2>1. PICK x \in I : \A y \in I : <<y, x>> \notin R
    BY <1>1
  <2>2. ASSUME NEW y \in I PROVE x <= y
    <3>1. x \in Nat /\ y \in Nat /\ <<y, x>> \notin R
      BY <2>1
    <3>2. ~(y < x)
      BY <3>1, <1>2
    <3> QED
      BY <3>1, <3>2
  <2> QED
    BY <2>2
<1> QED
  BY <1>3 DEF Min
\* What holds of 0, and of i + 1 when it holds of i, holds of all up to n.
LEMMA Counting ==
    ASSUME NEW n \in Nat, NEW S, 0 \in S,
           \A i \in 0..(n - 1) : i \in S => i + 1 \in S
    PROVE  \A i \in 0..n : i \in S
<1> DEFINE I == {i \in 0..n : i \notin S}
<1>1. ASSUME I # {} PROVE FALSE
  <2>1. I \in SUBSET Nat
    OBVIOUS
  <2>2. PICK m \in I : \A y \in I : m <= y
    <3> HIDE DEF I
    <3> QED
      BY <1>1, <2>1, LeastPlace
  <2>3. m \in 1..n /\ m \notin S
    BY <2>2
  <2>4. m - 1 \in 0..(n - 1) /\ (m - 1) + 1 = m
    BY <2>3
  <2>5. m - 1 \notin I
    BY <2>2, <2>3
  <2>6. m - 1 \in S
    BY <2>3, <2>5
  <2> QED
    BY <2>3, <2>4, <2>6
<1> QED
  BY <1>1

\* The same, downwards.
LEMMA CountingDown ==
    ASSUME NEW n \in Nat, NEW S, n \in S,
           \A i \in 0..(n - 1) : i + 1 \in S => i \in S
    PROVE  \A i \in 0..n : i \in S
<1> DEFINE T == {i \in 0..n : n - i \in S}
<1>1. 0 \in T
  OBVIOUS
<1>2. ASSUME NEW i \in 0..(n - 1), i \in T PROVE i + 1 \in T
  <2>1. (n - (i + 1)) + 1 = n - i /\ n - (i + 1) \in 0..(n - 1)
    OBVIOUS
  <2> QED
    BY <1>2, <2>1
<1>3. \A i \in 0..n : i \in T
  <2> HIDE DEF T
  <2> QED
    BY <1>1, <1>2, Counting
<1>4. ASSUME NEW i \in 0..n PROVE i \in S
  <2>1. n - i \in T /\ n - (n - i) = i
    BY <1>3
  <2> QED
    BY <2>1
<1> QED
  BY <1>4

\* A function is defined by its first value and a step from each value to the
\* next.
StepByStep(f, n, v, F) == f = [i \in 0..n |-> IF i = 0 THEN v ELSE F[i][f[i - 1]]]

LEMMA Defined ==
    ASSUME NEW V, NEW v \in V, NEW n \in Nat, NEW F \in [1..n -> [V -> V]]
    PROVE  \E f \in [0..n -> V] : StepByStep(f, n, v, F)
<1> DEFINE Good(m, f) == f[0] = v /\ \A i \in 1..m : f[i] = F[i][f[i - 1]]
           S == {m \in 0..n : \E f \in [0..m -> V] : Good(m, f)}
<1>1. 0 \in S
  <2> DEFINE g == [i \in 0..0 |-> v]
  <2>1. g \in [0..0 -> V] /\ g[0] = v /\ 1..0 = {}
    OBVIOUS
  <2> HIDE DEF g
  <2>2. Good(0, g)
    BY <2>1
  <2>3. \E f \in [0..0 -> V] : Good(0, f)
    BY <2>1, <2>2
  <2> QED
    BY <2>3
<1>2. ASSUME NEW m \in 0..(n - 1), m \in S PROVE m + 1 \in S
  <2>1. PICK f \in [0..m -> V] : Good(m, f)
    BY <1>2
  <2> DEFINE g == [i \in 0..(m + 1) |-> IF i <= m THEN f[i] ELSE F[i][f[m]]]
  <2>2. F[m + 1][f[m]] \in V
    OBVIOUS
  <2>3. /\ \A i \in 0..m : g[i] = f[i]
        /\ g[m + 1] = F[m + 1][f[m]]
    OBVIOUS
  <2>4. g \in [0..(m + 1) -> V]
    <3>1. ASSUME NEW i \in 0..(m + 1) PROVE (IF i <= m THEN f[i] ELSE F[i][f[m]]) \in V
      <4>1. CASE i <= m
        BY <4>1
      <4>2. CASE i = m + 1
        BY <2>2, <4>2
      <4> QED
        BY <4>1, <4>2
    <3> QED
      BY <3>1
  <2> HIDE DEF g
  <2>5. Good(m + 1, g)
    <3>1. g[0] = v
      BY <2>1, <2>3
    <3>2. ASSUME NEW i \in 1..(m + 1) PROVE g[i] = F[i][g[i - 1]]
      <4>1. CASE i \in 1..m
        BY <2>1, <2>3, <4>1
      <4>2. CASE i = m + 1
        BY <2>3, <4>2
      <4> QED
        BY <4>1, <4>2
    <3> QED
      BY <3>1, <3>2
  <2> QED
    BY <2>4, <2>5
<1>3. n \in S
  <2> HIDE DEF S
  <2>1. \A m \in 0..n : m \in S
    BY <1>1, <1>2, Counting
  <2> QED
    BY <2>1
<1>4. PICK f \in [0..n -> V] : Good(n, f)
  BY <1>3
<1>5. StepByStep(f, n, v, F)
  BY <1>4 DEF StepByStep
<1> QED
  BY <1>5

-----------------------------------------------------------------------------
(* Places                                                                  *)

\* The ranks of a finite set of numbers count it without repetition, so that
\* every number up to its size is the rank of one element: At() takes each
\* place once.
LEMMA RankCounts ==
    ASSUME NEW n \in Nat, NEW K \in SUBSET (1..n)
    PROVE  /\ IsFiniteSet(K) /\ Cardinality(K) \in Nat
           /\ \A i \in K : Rank(K, i) \in 1..Cardinality(K)
           /\ \A i, k \in K : Rank(K, i) = Rank(K, k) => i = k
           /\ \A j \in 1..Cardinality(K) : \E i \in K : Rank(K, i) = j
<1>1. IsFiniteSet(K) /\ Cardinality(K) \in Nat
  <2>1. IsFiniteSet(1..n)
    BY FS_Interval
  <2> QED
    BY <2>1, FS_Subset, FS_CardinalityType
<1> DEFINE Below(i) == {k \in K : k <= i}
           r == [i \in K |-> Cardinality(Below(i))]
<1>2. \A i \in K : IsFiniteSet(Below(i)) /\ Cardinality(Below(i)) \in 1..Cardinality(K)
  <2> TAKE i \in K
  <2>1. Below(i) \in SUBSET K /\ i \in Below(i)
    OBVIOUS
  <2> HIDE DEF Below
  <2>2. IsFiniteSet(Below(i)) /\ Cardinality(Below(i)) <= Cardinality(K)
    BY <1>1, <2>1, FS_Subset
  <2>3. Cardinality(Below(i)) \in Nat /\ Cardinality(Below(i)) # 0
    BY <2>1, <2>2, FS_CardinalityType, FS_EmptySet
  <2> QED
    BY <1>1, <2>2, <2>3
<1>3. \A i, k \in K : i < k => Cardinality(Below(i)) < Cardinality(Below(k))
  <2> SUFFICES ASSUME NEW i \in K, NEW k \in K, i < k
               PROVE  Cardinality(Below(i)) < Cardinality(Below(k))
    OBVIOUS
  <2>1. Below(i) \in SUBSET Below(k) /\ k \in Below(k) /\ k \notin Below(i)
    <3>1. i \in Nat /\ k \in Nat
      OBVIOUS
    <3>2. ASSUME NEW m \in Below(i) PROVE m \in Below(k)
      <4>1. m \in K /\ m \in Nat /\ m <= i
        OBVIOUS
      <4> QED
        BY <3>1, <4>1
    <3>3. k \notin Below(i)
      BY <3>1
    <3>4. k \in Below(k)
      BY <3>1
    <3> QED
      BY <3>2, <3>3, <3>4
  <2>2. IsFiniteSet(Below(k)) /\ Cardinality(Below(i)) \in Nat /\ Cardinality(Below(k)) \in Nat
    BY <1>2
  <2> HIDE DEF Below
  <2>3. Cardinality(Below(i)) <= Cardinality(Below(k)) /\ Cardinality(Below(k)) # Cardinality(Below(i))
    BY <2>1, <2>2, FS_Subset
  <2> QED
    BY <2>2, <2>3
<1>4. \A i, k \in K : Cardinality(Below(i)) = Cardinality(Below(k)) => i = k
  <2> SUFFICES ASSUME NEW i \in K, NEW k \in K, i # k
               PROVE  Cardinality(Below(i)) # Cardinality(Below(k))
    OBVIOUS
  <2>1. i < k \/ k < i
    OBVIOUS
  <2>2. Cardinality(Below(i)) \in Nat /\ Cardinality(Below(k)) \in Nat
    BY <1>2
  <2> HIDE DEF Below
  <2> QED
    BY <2>1, <2>2, <1>3
<1>5. r \in Injection(K, 1..Cardinality(K))
  <2> HIDE DEF Below
  <2> QED
    BY <1>2, <1>4 DEF Injection, IsInjective
<1>6. r \in Surjection(K, 1..Cardinality(K))
  <2>1. IsFiniteSet(1..Cardinality(K)) /\ Cardinality(1..Cardinality(K)) = Cardinality(K)
    BY <1>1, FS_Interval
  <2> HIDE DEF r
  <2> QED
    BY <1>5, <2>1, FS_Injection
<1>7. \A j \in 1..Cardinality(K) : \E i \in K : Cardinality(Below(i)) = j
  <2> HIDE DEF Below
  <2> QED
    BY <1>6 DEF Surjection
<1> QED
  BY <1>1, <1>2, <1>4, <1>7 DEF Rank

\* At() is the sequence along a bijection of its places with K.
LEMMA AtPlaces ==
    ASSUME NEW n \in Nat, NEW K \in SUBSET (1..n)
    PROVE  /\ Cardinality(K) \in Nat
           /\ \E g \in Bijection(1..Cardinality(K), K) :
                 \A s : At(s, K) = [j \in 1..Cardinality(K) |-> s[g[j]]]
<1> DEFINE c == Cardinality(K)
           g == [j \in 1..c |-> CHOOSE i \in K : Rank(K, i) = j]
<1>1. c \in Nat
  BY RankCounts
<1>2. \A j \in 1..c : g[j] \in K /\ Rank(K, g[j]) = j
  BY RankCounts
<1>3. \A i \in K : Rank(K, i) \in 1..c /\ g[Rank(K, i)] = i
  BY <1>2, RankCounts
<1>4. g \in [1..c -> K]
  BY <1>2
<1>5. g \in Bijection(1..c, K)
  <2> HIDE DEF g, c
  <2>1. IsInjective(g)
    BY <1>2, <1>4 DEF IsInjective
  <2>2. \A i \in K : \E j \in 1..c : g[j] = i
    BY <1>3
  <2> QED
    BY <1>4, <2>1, <2>2 DEF Bijection, Injection, Surjection
<1>6. \A s : At(s, K) = [j \in 1..c |-> s[g[j]]]
  BY DEF At
<1> HIDE DEF g
<1> QED
  BY <1>1, <1>5, <1>6

\* A function that counts the places: At() is the list along it.
Along(K, m, g) ==
    /\ Cardinality(K) = m
    /\ \A j \in 1..m : Rank(K, g[j]) = j
    /\ \A s : At(s, K) = [j \in 1..m |-> s[g[j]]]

\* The places K are the values of a rising function on 1..m: At() is the list
\* along it.
LEMMA AtIs ==
    ASSUME NEW n \in Nat, NEW K \in SUBSET (1..n), NEW m \in Nat, NEW g \in [1..m -> K],
           \A i, j \in 1..m : i < j => g[i] < g[j],
           \A k \in K : \E j \in 1..m : g[j] = k
    PROVE  Along(K, m, g)
<1>0. \A k \in K : k \in Nat
  OBVIOUS
<1>1. \A j \in 1..m : g[j] \in K /\ g[j] \in Nat
  BY <1>0
<1>2. \A i, j \in 1..m : g[i] <= g[j] <=> i <= j
  <2> SUFFICES ASSUME NEW i \in 1..m, NEW j \in 1..m PROVE g[i] <= g[j] <=> i <= j
    OBVIOUS
  <2>1. i < j \/ i = j \/ j < i
    OBVIOUS
  <2>2. (i < j => g[i] < g[j]) /\ (j < i => g[j] < g[i])
    OBVIOUS
  <2> QED
    BY <1>1, <2>1, <2>2
<1>3. \A i, j \in 1..m : g[i] = g[j] => i = j
  BY <1>1, <1>2
<1>4. Cardinality(K) = m
  <2>1. g \in Bijection(1..m, K)
    BY <1>3 DEF Bijection, Injection, Surjection, IsInjective
  <2>2. ExistsBijection(1..m, K)
    BY <2>1 DEF ExistsBijection
  <2> QED
    BY <2>2, FS_CountingElements
<1>5. ASSUME NEW j \in 1..m PROVE Rank(K, g[j]) = j
  <2> DEFINE B == {k \in K : k <= g[j]}
             h == [i \in 1..j |-> g[i]]
  <2>1. \A i \in 1..j : i \in 1..m /\ i <= j
    OBVIOUS
  <2>2. h \in [1..j -> B]
    BY <1>1, <1>2, <2>1
  <2>3. \A a, b \in 1..j : h[a] = h[b] => a = b
    BY <1>3, <2>1
  <2>4. ASSUME NEW k \in B PROVE \E i \in 1..j : h[i] = k
    <3>1. PICK i \in 1..m : g[i] = k
      OBVIOUS
    <3>2. i <= j
      BY <1>2, <3>1
    <3>3. i \in 1..j
      BY <3>2
    <3> QED
      BY <3>1, <3>3
  <2>5. h \in Bijection(1..j, B)
    <3> HIDE DEF h, B
    <3> QED
      BY <2>2, <2>3, <2>4 DEF Bijection, Injection, Surjection, IsInjective
  <2>6. Cardinality(B) = j
    <3> HIDE DEF h, B
    <3>1. ExistsBijection(1..j, B)
      BY <2>5 DEF ExistsBijection
    <3> QED
      BY <3>1, FS_CountingElements
  <2> QED
    BY <2>6 DEF Rank
<1>6. ASSUME NEW j \in 1..m PROVE (CHOOSE i \in K : Rank(K, i) = j) = g[j]
  <2>1. \A i \in K : Rank(K, i) = j => i = g[j]
    BY <1>5
  <2>2. g[j] \in K /\ Rank(K, g[j]) = j
    BY <1>5
  <2> QED
    BY <2>1, <2>2
<1>7. ASSUME NEW s PROVE At(s, K) = [j \in 1..m |-> s[g[j]]]
  <2> DEFINE R(j) == CHOOSE i \in K : Rank(K, i) = j
  <2>1. At(s, K) = [j \in 1..m |-> s[R(j)]]
    BY <1>4 DEF At
  <2>2. \A j \in 1..m : R(j) = g[j]
    BY <1>6
  <2> HIDE DEF R
  <2> QED
    BY <2>1, <2>2
<1> QED
  BY <1>4, <1>5, <1>7 DEF Along

\* The places as such a function.
Rises(g, K) ==
    /\ g \in [1..Cardinality(K) -> K]
    /\ \A i, j \in 1..Cardinality(K) : i < j => g[i] < g[j]
    /\ \A i \in K : g[Rank(K, i)] = i
    /\ \A j \in 1..Cardinality(K) : Rank(K, g[j]) = j
    /\ \A s : At(s, K) = [j \in 1..Cardinality(K) |-> s[g[j]]]

LEMMA AtRises ==
    ASSUME NEW n \in Nat, NEW K \in SUBSET (1..n)
    PROVE  /\ Cardinality(K) \in Nat
           /\ \A i \in K : Rank(K, i) \in 1..Cardinality(K)
           /\ \A i, k \in K : i < k => Rank(K, i) < Rank(K, k)
           /\ \E g : Rises(g, K)
<1> DEFINE c == Cardinality(K)
           g == [j \in 1..c |-> CHOOSE i \in K : Rank(K, i) = j]
<1>0. \A k \in K : k \in Nat
  OBVIOUS
<1>1. c \in Nat
  BY RankCounts
<1>2. \A j \in 1..c : g[j] \in K /\ Rank(K, g[j]) = j
  BY RankCounts
<1>3. \A i \in K : Rank(K, i) \in 1..c /\ g[Rank(K, i)] = i
  BY <1>2, RankCounts
<1>4. g \in [1..c -> K]
  BY <1>2
<1>5. \A i, k \in K : i < k => Rank(K, i) < Rank(K, k)
  <2> SUFFICES ASSUME NEW i \in K, NEW k \in K, i < k PROVE Rank(K, i) < Rank(K, k)
    OBVIOUS
  <2> DEFINE A == {x \in K : x <= i}
             B == {x \in K : x <= k}
  <2>1. A \subseteq B
    <3>1. \A x \in K : x <= i => x <= k
      OBVIOUS
    <3> QED
      BY <3>1
  <2>2. IsFiniteSet(B)
    <3>1. IsFiniteSet(K) /\ B \subseteq K
      BY RankCounts
    <3> HIDE DEF B
    <3> QED
      BY <3>1, FS_Subset
  <2>3. Cardinality(A) <= Cardinality(B)
    <3> HIDE DEF A, B
    <3> QED
      BY <2>1, <2>2, FS_Subset
  <2>4. Rank(K, i) # Rank(K, k)
    <3>1. i # k
      OBVIOUS
    <3> QED
      BY <3>1, RankCounts
  <2>5. Rank(K, i) = Cardinality(A) /\ Rank(K, k) = Cardinality(B)
    BY DEF Rank
  <2>6. Rank(K, i) \in Nat /\ Rank(K, k) \in Nat
    <3>1. Rank(K, i) \in 1..c /\ Rank(K, k) \in 1..c
      BY <1>3
    <3> HIDE DEF c
    <3> QED
      BY <1>1, <3>1
  <2>7. Rank(K, i) <= Rank(K, k)
    BY <2>3, <2>5
  <2> QED
    BY <2>4, <2>6, <2>7
<1>6. \A i, j \in 1..c : i < j => g[i] < g[j]
  <2> SUFFICES ASSUME NEW i \in 1..c, NEW j \in 1..c, i < j PROVE g[i] < g[j]
    OBVIOUS
  <2>1. g[i] \in K /\ g[j] \in K /\ Rank(K, g[i]) = i /\ Rank(K, g[j]) = j
    BY <1>2
  <2> HIDE DEF g, c
  <2>3. g[i] \in Nat /\ g[j] \in Nat
    BY <1>0, <2>1
  <2>4. i \in Nat /\ j \in Nat
    BY <1>1
  <2>2. ~(g[j] < g[i]) /\ g[i] # g[j]
    <3>1. ASSUME g[j] < g[i] PROVE FALSE
      <4>1. Rank(K, g[j]) < Rank(K, g[i])
        BY <1>5, <2>1, <3>1
      <4> QED
        BY <2>1, <2>4, <4>1
    <3>2. ASSUME g[i] = g[j] PROVE FALSE
      <4>1. i = j
        BY <2>1, <3>2
      <4> QED
        BY <2>4, <4>1
    <3> QED
      BY <3>1, <3>2
  <2> QED
    BY <2>2, <2>3
<1>7. \A s : At(s, K) = [j \in 1..c |-> s[g[j]]]
  BY DEF At
<1>8. Rises(g, K)
  <2> HIDE DEF g
  <2> QED
    BY <1>2, <1>3, <1>4, <1>6, <1>7 DEF Rises
<1> QED
  BY <1>1, <1>3, <1>5, <1>8

\* What At() keeps: elements, and their order.
LEMMA AtValues ==
    ASSUME NEW n \in Nat, NEW K \in SUBSET (1..n), NEW s
    PROVE  /\ Cardinality(K) \in Nat /\ DOMAIN At(s, K) = 1..Cardinality(K)
           /\ \A i \in K : Rank(K, i) \in 1..Cardinality(K) /\ At(s, K)[Rank(K, i)] = s[i]
           /\ \A j \in 1..Cardinality(K) : \E i \in K : Rank(K, i) = j /\ At(s, K)[j] = s[i]
           /\ \A V : (\A i \in K : s[i] \in V) => At(s, K) \in Seq(V)
           /\ At(s, K) \in [1..Cardinality(K) -> Range(At(s, K))]
           /\ Len(At(s, K)) = Cardinality(K)
<1> DEFINE c == Cardinality(K)
<1>0. PICK g : Rises(g, K)
  BY AtRises
<1>1. /\ g \in [1..c -> K]
      /\ \A i \in K : g[Rank(K, i)] = i
      /\ \A j \in 1..c : Rank(K, g[j]) = j
      /\ At(s, K) = [j \in 1..c |-> s[g[j]]]
  BY <1>0 DEF Rises
<1>2. c \in Nat /\ \A i \in K : Rank(K, i) \in 1..c
  BY AtRises
<1> HIDE DEF c
<1>3. DOMAIN At(s, K) = 1..c
  BY <1>1
<1>4. \A i \in K : At(s, K)[Rank(K, i)] = s[i]
  BY <1>1, <1>2
<1>5. \A j \in 1..c : \E i \in K : Rank(K, i) = j /\ At(s, K)[j] = s[i]
  BY <1>1
<1>6. ASSUME NEW V, \A i \in K : s[i] \in V PROVE At(s, K) \in Seq(V)
  <2>1. At(s, K) \in [1..c -> V]
    BY <1>1, <1>6
  <2> QED
    BY <1>2, <2>1
<1>7. At(s, K) \in [1..c -> Range(At(s, K))]
  BY <1>1 DEF Range
<1>8. Len(At(s, K)) = c
  BY <1>2, <1>7
<1> QED
  BY <1>2, <1>3, <1>4, <1>5, <1>6, <1>7, <1>8 DEF c

LEMMA AtPlace ==
    ASSUME NEW n \in Nat, NEW K \in SUBSET (1..n), NEW s, NEW i \in K
    PROVE  /\ DOMAIN At(s, K) = 1..Cardinality(K)
           /\ Rank(K, i) \in 1..Cardinality(K) /\ At(s, K)[Rank(K, i)] = s[i]
<1>1. PICK g : Rises(g, K)
  BY AtRises
<1>2. /\ g \in [1..Cardinality(K) -> K]
      /\ g[Rank(K, i)] = i
      /\ At(s, K) = [j \in 1..Cardinality(K) |-> s[g[j]]]
  BY <1>1 DEF Rises
<1>3. Rank(K, i) \in 1..Cardinality(K)
  BY AtRises
<1> QED
  BY ONLY <1>2, <1>3

LEMMA AtFrom ==
    ASSUME NEW n \in Nat, NEW K \in SUBSET (1..n), NEW s, NEW j \in 1..Len(At(s, K))
    PROVE  \E i \in K : At(s, K)[j] = s[i]
<1>1. PICK g : Rises(g, K)
  BY AtRises
<1>2. /\ At(s, K) = [i \in 1..Cardinality(K) |-> s[g[i]]]
      /\ \A i \in 1..Cardinality(K) : g[i] \in K
  BY <1>1 DEF Rises
<1>3. Len(At(s, K)) = Cardinality(K)
  BY AtValues
<1> QED
  BY <1>2, <1>3

\* Places of places.
Within(K, L) == {i \in K : Rank(K, i) \in L}

LEMMA AtAt ==
    ASSUME NEW n \in Nat, NEW K \in SUBSET (1..n), NEW L \in SUBSET (1..Cardinality(K)), NEW s
    PROVE  At(At(s, K), L) = At(s, Within(K, L))
<1> DEFINE c == Cardinality(K)
           d == Cardinality(L)
           M == {i \in K : Rank(K, i) \in L}
<1>1. c \in Nat /\ \A i \in K : Rank(K, i) \in 1..c
  BY AtRises
<1>12. PICK g : Rises(g, K)
  BY AtRises
<1>2. /\ g \in [1..c -> K]
      /\ \A i, j \in 1..c : i < j => g[i] < g[j]
      /\ \A i \in K : g[Rank(K, i)] = i
      /\ \A j \in 1..c : Rank(K, g[j]) = j
      /\ At(s, K) = [j \in 1..c |-> s[g[j]]]
  BY <1>12 DEF Rises
<1>3. d \in Nat /\ \A i \in L : Rank(L, i) \in 1..d
  BY <1>1, AtRises
<1>13. PICK h : Rises(h, L)
  BY <1>1, AtRises
<1>4. /\ h \in [1..d -> L]
      /\ \A i, j \in 1..d : i < j => h[i] < h[j]
      /\ \A i \in L : h[Rank(L, i)] = i
      /\ At(At(s, K), L) = [j \in 1..d |-> At(s, K)[h[j]]]
  BY <1>13 DEF Rises
<1> HIDE DEF c, d
<1>5. L \subseteq 1..c
  BY DEF c
<1> DEFINE f == [j \in 1..d |-> g[h[j]]]
<1>6. \A j \in 1..d : h[j] \in 1..c /\ f[j] = g[h[j]] /\ f[j] \in M
  BY <1>2, <1>4, <1>5
<1>7. f \in [1..d -> M] /\ M \in SUBSET (1..n)
  BY <1>6
<1>8. \A i, j \in 1..d : i < j => f[i] < f[j]
  BY <1>2, <1>4, <1>6
<1>9. ASSUME NEW i \in M PROVE \E j \in 1..d : f[j] = i
  <2>1. Rank(K, i) \in L /\ i \in K
    OBVIOUS
  <2>2. Rank(L, Rank(K, i)) \in 1..d /\ h[Rank(L, Rank(K, i))] = Rank(K, i)
    BY <1>3, <1>4, <2>1
  <2> QED
    BY <1>2, <1>6, <2>1, <2>2
<1> HIDE DEF f, M
<1>10. At(s, M) = [j \in 1..d |-> s[f[j]]]
  <2>1. \A k \in M : \E j \in 1..d : f[j] = k
    BY <1>9
  <2> QED
    <3>2. d \in Nat /\ f \in [1..d -> M] /\ M \in SUBSET (1..n)
      BY <1>3, <1>7
    <3>1. Along(M, d, f)
      BY ONLY n \in Nat, <3>2, <1>8, <2>1, AtIs
    <3> QED
      BY <3>1 DEF Along
<1>11. At(At(s, K), L) = [j \in 1..d |-> s[f[j]]]
  <2>1. \A j \in 1..d : At(s, K)[h[j]] = s[f[j]]
    BY <1>2, <1>6
  <2> QED
    BY <1>4, <2>1
<1> QED
  BY <1>10, <1>11 DEF M, Within

\* A list whose elements are at other places, in the same order.
LEMMA AtMoved ==
    ASSUME NEW n \in Nat, NEW K \in SUBSET (1..n), NEW m \in Nat, NEW L \in SUBSET (1..m),
           NEW f \in [K -> L],
           \A i, j \in K : i < j => f[i] < f[j],
           \A k \in L : \E i \in K : f[i] = k,
           NEW s, NEW t, \A i \in K : t[f[i]] = s[i]
    PROVE  At(t, L) = At(s, K)
<1> DEFINE c == Cardinality(K)
<1>0. PICK g : Rises(g, K)
  BY AtRises
<1>1. /\ g \in [1..c -> K]
      /\ \A i, j \in 1..c : i < j => g[i] < g[j]
      /\ \A i \in K : g[Rank(K, i)] = i
      /\ At(s, K) = [j \in 1..c |-> s[g[j]]]
  BY <1>0 DEF Rises
<1>2. c \in Nat /\ \A i \in K : Rank(K, i) \in 1..c
  BY AtRises
<1> HIDE DEF c
<1> DEFINE h == [j \in 1..c |-> f[g[j]]]
<1>3. h \in [1..c -> L] /\ \A j \in 1..c : h[j] = f[g[j]]
  BY <1>1
<1> HIDE DEF h
<1>4. ASSUME NEW i \in 1..c, NEW j \in 1..c, i < j PROVE h[i] < h[j]
  <2>1. g[i] \in K /\ g[j] \in K /\ g[i] < g[j]
    BY <1>1, <1>4
  <2>2. f[g[i]] < f[g[j]]
    BY <2>1
  <2> QED
    BY <1>3, <2>2
<1>5. ASSUME NEW k \in L PROVE \E j \in 1..c : h[j] = k
  <2>1. PICK i \in K : f[i] = k
    OBVIOUS
  <2> QED
    BY <1>1, <1>2, <1>3, <2>1
<1>6. At(t, L) = [j \in 1..c |-> t[h[j]]]
  <2>1. Along(L, c, h)
    BY <1>2, <1>3, <1>4, <1>5, AtIs
  <2> QED
    BY <2>1 DEF Along
<1>7. \A j \in 1..c : t[h[j]] = s[g[j]]
  BY <1>1, <1>3
<1> QED
  BY <1>1, <1>6, <1>7

\* What At() makes of two lists that agree at the places.
LEMMA AtSame ==
    ASSUME NEW n \in Nat, NEW K \in SUBSET (1..n), NEW s, NEW t, \A i \in K : s[i] = t[i]
    PROVE  At(s, K) = At(t, K)
<1>1. PICK g : Rises(g, K)
  BY AtRises
<1>2. /\ At(s, K) = [j \in 1..Cardinality(K) |-> s[g[j]]]
      /\ At(t, K) = [j \in 1..Cardinality(K) |-> t[g[j]]]
      /\ \A j \in 1..Cardinality(K) : g[j] \in K
  BY <1>1 DEF Rises
<1>3. \A j \in 1..Cardinality(K) : s[g[j]] = t[g[j]]
  BY <1>2
<1> QED
  BY <1>2, <1>3

\* The places from a to b.
LEMMA AtInterval ==
    ASSUME NEW n \in Nat, NEW a \in 1..(n + 1), NEW b \in 0..n, a <= b + 1, NEW s
    PROVE  At(s, a..b) = SubSeq(s, a, b)
<1> DEFINE m == b - a + 1
           K == a..b
           g == [j \in 1..m |-> a + j - 1]
<1>1. m \in Nat /\ K \in SUBSET (1..n)
  OBVIOUS
<1>2. g \in [1..m -> K] /\ \A j \in 1..m : g[j] = a + j - 1
  OBVIOUS
<1>3. \A k \in K : k - a + 1 \in 1..m /\ a + (k - a + 1) - 1 = k
  OBVIOUS
<1>7. SubSeq(s, a, b) = [j \in 1..m |-> s[j + a - 1]]
  OBVIOUS
<1> HIDE DEF g, K
<1>4. \A k \in K : \E j \in 1..m : g[j] = k
  BY <1>2, <1>3
<1>5. \A i, j \in 1..m : i < j => g[i] < g[j]
  BY <1>2
<1> HIDE DEF m
<1>6. Along(K, m, g)
  <2>1. g \in [1..m -> K]
    BY <1>2
  <2> QED
    BY ONLY n \in Nat, <1>1, <2>1, <1>4, <1>5, AtIs
<1>8. ASSUME NEW j \in 1..m PROVE s[g[j]] = s[j + a - 1]
  <2>1. g[j] = j + a - 1
    BY <1>1, <1>2
  <2> QED
    BY <2>1
<1>9. At(s, K) = [j \in 1..m |-> s[j + a - 1]]
  BY <1>6, <1>8 DEF Along
<1> QED
  BY <1>7, <1>9 DEF K

LEMMA AtAll ==
    ASSUME NEW V, NEW s \in Seq(V)
    PROVE  At(s, 1..Len(s)) = s
<1>1. Len(s) \in Nat /\ s = [i \in 1..Len(s) |-> s[i]]
  OBVIOUS
<1>2. At(s, 1..Len(s)) = SubSeq(s, 1, Len(s))
  <2>1. 1 \in 1..(Len(s) + 1) /\ Len(s) \in 0..Len(s) /\ 1 <= Len(s) + 1
    BY <1>1
  <2> QED
    BY <1>1, <2>1, AtInterval
<1>3. SubSeq(s, 1, Len(s)) = s
  OBVIOUS
<1> QED
  BY <1>2, <1>3

\* One more place behind the others.
LEMMA AtLast ==
    ASSUME NEW n \in Nat, NEW K \in SUBSET (1..n), NEW p \in 1..n, \A i \in K : i < p, NEW s
    PROVE  At(s, K \cup {p}) = Append(At(s, K), s[p])
<1> DEFINE c == Cardinality(K)
           M == K \cup {p}
<1>1. PICK g : Rises(g, K)
  BY AtRises
<1>2. /\ c \in Nat /\ g \in [1..c -> K]
      /\ \A i, j \in 1..c : i < j => g[i] < g[j]
      /\ \A i \in K : Rank(K, i) \in 1..c /\ g[Rank(K, i)] = i
      /\ At(s, K) = [j \in 1..c |-> s[g[j]]]
  BY <1>1, AtRises DEF Rises
<1> HIDE DEF c
<1> DEFINE h == [j \in 1..(c + 1) |-> IF j <= c THEN g[j] ELSE p]
<1>3. /\ \A j \in 1..c : h[j] = g[j] /\ g[j] \in K /\ g[j] < p
      /\ h[c + 1] = p
  <2>1. c + 1 \in 1..(c + 1) /\ ~(c + 1 <= c)
    BY <1>2
  <2>2. h[c + 1] = p
    BY <2>1
  <2>3. ASSUME NEW j \in 1..c PROVE h[j] = g[j]
    <3>1. j \in 1..(c + 1) /\ j <= c
      BY <1>2
    <3> QED
      BY <3>1
  <2> HIDE DEF h
  <2>4. \A j \in 1..c : g[j] \in K
    BY <1>2
  <2> QED
    BY <2>2, <2>3, <2>4
<1>4. h \in [1..(c + 1) -> M]
  BY <1>2
<1> HIDE DEF h
<1>5. ASSUME NEW i \in 1..(c + 1), NEW j \in 1..(c + 1), i < j PROVE h[i] < h[j]
  <2>1. i \in 1..c /\ (j \in 1..c \/ j = c + 1)
    BY <1>2, <1>5
  <2> QED
    BY <1>2, <1>3, <1>5, <2>1
<1>6. ASSUME NEW k \in M PROVE \E j \in 1..(c + 1) : h[j] = k
  <2>1. CASE k = p
    BY <1>2, <1>3, <2>1
  <2>2. CASE k \in K
    BY <1>2, <1>3, <2>2
  <2> QED
    BY <2>1, <2>2
<1>7. c + 1 \in Nat /\ M \in SUBSET (1..n)
  BY <1>2
<1> HIDE DEF M
<1>8. Along(M, c + 1, h)
  BY <1>4, <1>5, <1>6, <1>7, AtIs
<1>9. At(s, M) = [j \in 1..(c + 1) |-> s[h[j]]]
  BY <1>8 DEF Along
<1>10. Len(At(s, K)) = c
  BY <1>2
<1>11. Append(At(s, K), s[p]) = [j \in 1..(c + 1) |-> IF j = c + 1 THEN s[p] ELSE At(s, K)[j]]
  BY <1>10, <1>2
<1>12. ASSUME NEW j \in 1..(c + 1)
       PROVE  s[h[j]] = IF j = c + 1 THEN s[p] ELSE At(s, K)[j]
  <2>1. CASE j = c + 1
    BY <1>3, <2>1
  <2>2. CASE j \in 1..c
    BY <1>2, <1>3, <2>2
  <2> QED
    BY <1>2, <2>1, <2>2
<1> QED
  BY <1>9, <1>11, <1>12 DEF M

\* An element is taken out.
LEMMA Removed ==
    ASSUME NEW V, NEW q \in Seq(V), NEW n \in 1 .. Len(q)
    PROVE  /\ RemoveAt(q, n) \in Seq(V)
           /\ Len(RemoveAt(q, n)) = Len(q) - 1
           /\ \A j \in 1 .. Len(q) - 1 :
                 RemoveAt(q, n)[j] = IF j < n THEN q[j] ELSE q[j + 1]
<1> DEFINE a == SubSeq(q, 1, n - 1)
           b == SubSeq(q, n + 1, Len(q))
<1>1. Len(q) \in Nat
  OBVIOUS
<1>2. /\ a \in Seq(V) /\ Len(a) = n - 1
      /\ \A j \in 1 .. n - 1 : a[j] = q[j]
  BY <1>1
<1>3. /\ b \in Seq(V) /\ Len(b) = Len(q) - n
      /\ \A j \in 1 .. Len(q) - n : b[j] = q[j + n]
  BY <1>1
<1>4. RemoveAt(q, n) = a \o b
  BY DEF RemoveAt
<1> HIDE DEF a, b
<1>5. /\ a \o b \in Seq(V) /\ Len(a \o b) = Len(a) + Len(b)
      /\ \A j \in 1 .. Len(a) + Len(b) :
            (a \o b)[j] = IF j <= Len(a) THEN a[j] ELSE b[j - Len(a)]
  BY <1>2, <1>3, ConcatProperties
<1>6. Len(a) + Len(b) = Len(q) - 1
  BY <1>1, <1>2, <1>3
<1>7. ASSUME NEW j \in 1 .. Len(q) - 1
      PROVE  (a \o b)[j] = IF j < n THEN q[j] ELSE q[j + 1]
  <2>1. CASE j < n
    BY <2>1, <1>1, <1>2, <1>5, <1>6
  <2>2. CASE ~(j < n)
    <3>1. /\ j - (n - 1) \in 1 .. Len(q) - n
          /\ (j - (n - 1)) + n = j + 1 /\ ~(j <= n - 1)
      BY <2>2, <1>1
    <3> QED
      BY <2>2, <3>1, <1>2, <1>3, <1>5, <1>6
  <2> QED
    BY <2>1, <2>2
<1> QED
  BY <1>4, <1>5, <1>6, <1>7

\* An element is put in: r is q with e at the place p.
HasInserted(r, q, p, e) ==
    /\ Len(r) = Len(q) + 1
    /\ \A j \in 1 .. p - 1 : r[j] = q[j]
    /\ r[p] = e
    /\ \A j \in p + 1 .. Len(q) + 1 : r[j] = q[j - 1]

LEMMA InsertedAt ==
    ASSUME NEW V, NEW q \in Seq(V), NEW p \in 1 .. Len(q) + 1, NEW e \in V
    PROVE  InsertAt(q, p, e) \in Seq(V) /\ HasInserted(InsertAt(q, p, e), q, p, e)
<1> DEFINE a == SubSeq(q, 1, p - 1)
           b == SubSeq(q, p, Len(q))
           x == a \o <<e>>
<1>1. Len(q) \in Nat /\ p - 1 \in Nat
  OBVIOUS
<1>2. a \in Seq(V) /\ Len(a) = p - 1 /\ \A j \in 1 .. p - 1 : a[j] = q[j]
  BY <1>1
<1>3. /\ b \in Seq(V) /\ Len(b) = Len(q) - p + 1
      /\ \A j \in 1 .. Len(q) - p + 1 : b[j] = q[j + p - 1]
  BY <1>1
<1>4. InsertAt(q, p, e) = x \o b
  BY DEF InsertAt
<1> HIDE DEF a, b
<1>5. /\ x \in Seq(V) /\ Len(x) = p
      /\ \A j \in 1 .. p - 1 : x[j] = a[j]
      /\ x[p] = e
  <2>1. <<e>> \in Seq(V) /\ Len(<<e>>) = 1 /\ <<e>>[1] = e
    OBVIOUS
  <2>2. /\ x \in Seq(V) /\ Len(x) = Len(a) + 1
        /\ \A j \in 1 .. Len(a) + 1 : x[j] = IF j <= Len(a) THEN a[j] ELSE <<e>>[j - Len(a)]
    BY <1>2, <2>1, ConcatProperties
  <2>3. p \in 1 .. Len(a) + 1 /\ ~(p <= Len(a)) /\ p - Len(a) = 1 /\ Len(a) + 1 = p
    BY <1>1, <1>2
  <2>4. \A j \in 1 .. p - 1 : j \in 1 .. Len(a) + 1 /\ j <= Len(a)
    BY <1>1, <1>2
  <2> HIDE DEF x
  <2> QED
    BY <2>1, <2>2, <2>3, <2>4
<1> HIDE DEF x
<1>6. /\ x \o b \in Seq(V) /\ Len(x \o b) = Len(x) + Len(b)
      /\ \A j \in 1 .. Len(x) + Len(b) :
            (x \o b)[j] = IF j <= Len(x) THEN x[j] ELSE b[j - Len(x)]
  BY <1>3, <1>5, ConcatProperties
<1>7. Len(x) + Len(b) = Len(q) + 1
  BY <1>1, <1>3, <1>5
<1>8. ASSUME NEW j \in 1 .. p - 1 PROVE (x \o b)[j] = q[j]
  <2>1. j \in 1 .. Len(q) + 1 /\ j <= Len(x)
    BY <1>1, <1>5
  <2> QED
    BY <1>2, <1>5, <1>6, <1>7, <2>1
<1>9. (x \o b)[p] = e
  <2>1. p \in 1 .. Len(q) + 1 /\ p <= Len(x)
    BY <1>1, <1>5
  <2> QED
    BY <1>5, <1>6, <1>7, <2>1
<1>10. ASSUME NEW j \in p + 1 .. Len(q) + 1 PROVE (x \o b)[j] = q[j - 1]
  <2>1. /\ j \in 1 .. Len(q) + 1 /\ ~(j <= Len(x))
        /\ j - Len(x) \in 1 .. Len(q) - p + 1 /\ (j - Len(x)) + p - 1 = j - 1
    BY <1>1, <1>5
  <2> QED
    BY <1>3, <1>6, <1>7, <2>1
<1> QED
  BY <1>4, <1>6, <1>7, <1>8, <1>9, <1>10 DEF HasInserted

LEMMA AtOthers ==
    ASSUME NEW n \in Nat, NEW p \in 1..n, NEW s
    PROVE  /\ Cardinality((1..n) \ {p}) = n - 1
           /\ \A k \in (1..n) \ {p} : Rank((1..n) \ {p}, k) = IF k < p THEN k ELSE k - 1
           /\ At(s, (1..n) \ {p}) = [j \in 1..(n - 1) |-> IF j < p THEN s[j] ELSE s[j + 1]]
<1> DEFINE K == (1..n) \ {p}
           m == n - 1
           g == [j \in 1..m |-> IF j < p THEN j ELSE j + 1]
<1>1. /\ K \in SUBSET (1..n) /\ m \in Nat
      /\ \A j \in 1..m : (IF j < p THEN j ELSE j + 1) \in K
  OBVIOUS
<1>2. g \in [1..m -> K] /\ \A j \in 1..m : g[j] = IF j < p THEN j ELSE j + 1
  BY <1>1
<1> HIDE DEF g
<1>3. \A i, j \in 1..m : i < j => g[i] < g[j]
  BY <1>2
<1>4. ASSUME NEW k \in K
      PROVE  LET j == IF k < p THEN k ELSE k - 1 IN j \in 1..m /\ g[j] = k
  <2>1. CASE k < p
    <3>1. k \in 1..m
      BY <2>1
    <3> QED
      BY <1>2, <2>1, <3>1
  <2>2. CASE k > p
    <3>1. k - 1 \in 1..m /\ ~(k - 1 < p) /\ (k - 1) + 1 = k /\ ~(k < p)
      BY <2>2
    <3>2. g[k - 1] = k
      BY <1>2, <3>1
    <3> QED
      BY <3>1, <3>2
  <2> QED
    BY <2>1, <2>2
<1>5. \A k \in K : \E j \in 1..m : g[j] = k
  BY <1>4
<1> HIDE DEF K, m
<1>6. Along(K, m, g)
  <2>1. g \in [1..m -> K] /\ m \in Nat /\ K \in SUBSET (1..n)
    BY <1>1, <1>2
  <2> QED
    BY ONLY n \in Nat, <2>1, <1>3, <1>5, AtIs
<1>7. \A k \in K : Rank(K, k) = IF k < p THEN k ELSE k - 1
  BY <1>4, <1>6 DEF Along
<1>8. At(s, K) = [j \in 1..m |-> IF j < p THEN s[j] ELSE s[j + 1]]
  <2>1. ASSUME NEW j \in 1..m PROVE s[g[j]] = IF j < p THEN s[j] ELSE s[j + 1]
    BY <1>2
  <2>2. At(s, K) = [j \in 1..m |-> s[g[j]]]
    BY <1>6 DEF Along
  <2> QED
    BY <2>1, <2>2
<1> QED
  BY <1>6, <1>7, <1>8 DEF K, m, Along

LEMMA AtWithout ==
    ASSUME NEW V, NEW q \in Seq(V), NEW p \in 1 .. Len(q)
    PROVE  RemoveAt(q, p) = At(q, (1 .. Len(q)) \ {p})
<1> DEFINE n == Len(q)
<1>1. n \in Nat /\ p \in 1..n
  OBVIOUS
<1>2. /\ RemoveAt(q, p) \in Seq(V) /\ Len(RemoveAt(q, p)) = n - 1
      /\ \A j \in 1 .. n - 1 : RemoveAt(q, p)[j] = IF j < p THEN q[j] ELSE q[j + 1]
  BY Removed
<1>3. RemoveAt(q, p) = [j \in 1..(n - 1) |-> RemoveAt(q, p)[j]]
  BY <1>2
<1> HIDE DEF n
<1>4. At(q, (1..n) \ {p}) = [j \in 1..(n - 1) |-> IF j < p THEN q[j] ELSE q[j + 1]]
  BY <1>1, AtOthers
<1> QED
  BY <1>2, <1>3, <1>4 DEF n

\* One place less.
LEMMA AtRemove ==
    ASSUME NEW n \in Nat, NEW K \in SUBSET (1..n), NEW p \in K, NEW s
    PROVE  RemoveAt(At(s, K), Rank(K, p)) = At(s, K \ {p})
<1> DEFINE c == Cardinality(K)
           r == Rank(K, p)
           x == At(s, K)
           L == (1..c) \ {r}
<1>1. /\ c \in Nat /\ r \in 1..c /\ \A i \in K : Rank(K, i) \in 1..c
      /\ \A i \in K : Rank(K, i) = r => i = p
  BY RankCounts
<1>2. x \in [1..c -> Range(x)] /\ Len(x) = c
  BY AtValues
<1>3. x \in Seq(Range(x))
  BY <1>1, <1>2
<1> HIDE DEF x, c, r
<1>4. RemoveAt(x, r) = At(x, L)
  BY <1>1, <1>2, <1>3, AtWithout
<1>5. Within(K, L) = K \ {p}
  BY <1>1 DEF r, Within
<1>6. L \in SUBSET (1..Cardinality(K))
  BY DEF c
<1> HIDE DEF L
<1>7. At(At(s, K), L) = At(s, Within(K, L))
  BY <1>6, AtAt
<1> QED
  BY <1>4, <1>5, <1>7 DEF x, r

\* A set of places that has every place before one of its own.
LEMMA Prefix ==
    ASSUME NEW n \in Nat, NEW P \in SUBSET (1..n),
           \A i \in P : \A j \in 1..i : j \in P
    PROVE  Cardinality(P) \in 0..n /\ P = 1..Cardinality(P)
<1> DEFINE I == (1..(n + 1)) \ P
           m == Min(I)
<1>1. I \in SUBSET Nat /\ n + 1 \in I
  OBVIOUS
<1>2. m \in I /\ \A y \in I : m <= y
  <2> HIDE DEF I
  <2> QED
    BY <1>1, LeastPlace
<1> HIDE DEF m
<1>3. m \in 1..(n + 1) /\ m \notin P
  BY <1>2
<1>4. ASSUME NEW j \in 1..(m - 1) PROVE j \in P
  <2>1. j \in 1..(n + 1) /\ ~(m <= j)
    BY <1>3
  <2> QED
    BY <1>2, <2>1
<1>5. ASSUME NEW j \in P PROVE j \in 1..(m - 1)
  <2>1. j \in 1..n /\ (m <= j => m \in 1..j)
    BY <1>3
  <2>2. ~(m <= j)
    BY <1>3, <2>1
  <2> QED
    BY <1>3, <2>1, <2>2
<1>6. P = 1..(m - 1)
  BY <1>4, <1>5
<1>7. Cardinality(1..(m - 1)) = m - 1
  <2>1. 1 \in Int /\ m - 1 \in Int /\ (IF 1 > m - 1 THEN 0 ELSE (m - 1) - 1 + 1) = m - 1
    BY <1>3
  <2> QED
    BY <2>1, FS_Interval
<1> QED
  BY <1>3, <1>6, <1>7
=============================================================================
