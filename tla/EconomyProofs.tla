--------------------------- MODULE EconomyProofs ---------------------------
(***************************************************************************)
(* What holds of Economy for any users, goods, kinds of coins and          *)
(* capacity: the types, EncumbranceTrue with the invariant it needs, and   *)
(* NoMoneyMade.                                                            *)
(*                                                                         *)
(* Coins, total wealth and all the money there is are sums of a function   *)
(* over a finite set, SumFunctionOnSet of the library.  The first part     *)
(* shows what such a sum is: that the order of summation does not matter,  *)
(* and what a change of the function, or of the set, does to it.           *)
(***************************************************************************)
EXTENDS Economy, PlacesProofs

-----------------------------------------------------------------------------
(* Sums over finite sets                                                   *)

\* What holds of the empty set, and of a set when it holds of the set without
\* any one of its elements, holds of every subset of a finite set.
LEMMA SetBySet ==
    ASSUME NEW D, IsFiniteSet(D), NEW G, {} \in G,
           \A s \in SUBSET D : s # {} /\ (\A x \in s : s \ {x} \in G) => s \in G
    PROVE  \A s \in SUBSET D : s \in G
<1> DEFINE n == Cardinality(D)
           K == {i \in 0..n : \A s \in SUBSET D : Cardinality(s) = i => s \in G}
<1>1. n \in Nat
  BY FS_CardinalityType
<1>2. \A s \in SUBSET D : IsFiniteSet(s) /\ Cardinality(s) \in 0..n
  BY FS_Subset, FS_CardinalityType
<1>3. 0 \in K
  <2>1. ASSUME NEW s \in SUBSET D, Cardinality(s) = 0 PROVE s \in G
    <3>1. s = {}
      BY <2>1, <1>2, FS_EmptySet
    <3> QED
      BY <3>1
  <2> QED
    BY <1>1, <2>1
<1>4. ASSUME NEW i \in 0..(n - 1), i \in K PROVE i + 1 \in K
  <2>1. ASSUME NEW s \in SUBSET D, Cardinality(s) = i + 1 PROVE s \in G
    <3>1. s # {}
      BY <2>1, <1>1, <1>2, FS_EmptySet
    <3>2. ASSUME NEW x \in s PROVE s \ {x} \in G
      <4>1. Cardinality(s \ {x}) = (i + 1) - 1
        BY <2>1, <1>2, FS_RemoveElement
      <4>2. (i + 1) - 1 = i /\ s \ {x} \in SUBSET D
        BY <1>1
      <4> QED
        BY <4>1, <4>2, <1>4
    <3> QED
      BY <3>1, <3>2
  <2> QED
    BY <1>1, <2>1
<1>5. \A i \in 0..n : i \in K
  <2> HIDE DEF K, n
  <2> QED
    BY <1>1, <1>3, <1>4, Counting
<1> QED
  BY <1>2, <1>5

\* The sums of f over the subsets of D, each made of some element and the rest
Picked(s) == CHOOSE x \in s : TRUE
Adds(f, D, G) == G = [s \in SUBSET D |->
    IF s = {} THEN 0 ELSE f[Picked(s)] + G[s \ {Picked(s)}]]

LEMMA PickedIn == ASSUME NEW s, s # {} PROVE Picked(s) \in s
BY DEF Picked

LEMMA SumIs ==
    ASSUME NEW f, NEW D
    PROVE  SumFunctionOnSet(f, D) = (CHOOSE G : Adds(f, D, G))[D]
BY Zenon DEF SumFunctionOnSet, FoldFunctionOnSet, MapThenFoldSet, Adds, Picked

\* There are such sums, and they are integers.
LEMMA SumsExist ==
    ASSUME NEW D, IsFiniteSet(D), NEW f, \A x \in D : f[x] \in Int
    PROVE  \E G \in [SUBSET D -> Int] : Adds(f, D, G)
<1> DEFINE V == [SUBSET D -> Int]
           v == [s \in SUBSET D |-> 0]
           Sums(g) == [s \in SUBSET D |->
                         IF s = {} THEN 0 ELSE f[Picked(s)] + g[s \ {Picked(s)}]]
           n == Cardinality(D)
           F == [i \in 1..n |-> [g \in V |-> Sums(g)]]
<1>1. n \in Nat
  BY FS_CardinalityType
<1>2. v \in V
  OBVIOUS
<1>3. ASSUME NEW g \in V PROVE Sums(g) \in V
  <2>1. ASSUME NEW s \in SUBSET D
        PROVE  (IF s = {} THEN 0 ELSE f[Picked(s)] + g[s \ {Picked(s)}]) \in Int
    <3>1. CASE s = {}
      BY <3>1
    <3>2. CASE s # {}
      <4>1. Picked(s) \in D /\ s \ {Picked(s)} \in SUBSET D
        BY <3>2, PickedIn
      <4>2. f[Picked(s)] \in Int /\ g[s \ {Picked(s)}] \in Int
        BY <4>1
      <4> QED
        BY <3>2, <4>2
    <3> QED
      BY <3>1, <3>2
  <2> QED
    BY <2>1
<1>4. F \in [1..n -> [V -> V]] /\ \A i \in 1..n : \A g \in V : F[i][g] = Sums(g)
  <2> HIDE DEF Sums, V, n
  <2> QED
    BY <1>3
<1>5. PICK h \in [0..n -> V] : StepByStep(h, n, v, F)
  <2> HIDE DEF V, v, F, n
  <2> QED
    BY <1>1, <1>2, <1>4, Defined
<1>6. h[0] = v /\ \A i \in 1..n : h[i] = Sums(h[i - 1])
  <2>1. h[0] = v
    BY <1>1, <1>5 DEF StepByStep
  <2>2. ASSUME NEW i \in 1..n PROVE h[i] = Sums(h[i - 1])
    <3>1. i \in 0..n /\ i # 0 /\ i - 1 \in 0..n
      BY <1>1
    <3>2. h[i] = F[i][h[i - 1]] /\ h[i - 1] \in V
      <4> HIDE DEF F, v, V, n
      <4> QED
        BY <3>1, <1>5 DEF StepByStep
    <3> QED
      BY <3>2, <1>4
  <2> QED
    BY <2>1, <2>2
<1> DEFINE G == [s \in SUBSET D |-> h[Cardinality(s)][s]]
<1>7. \A s \in SUBSET D : IsFiniteSet(s) /\ Cardinality(s) \in 0..n
  BY FS_Subset, FS_CardinalityType
<1>8. G \in [SUBSET D -> Int]
  <2> HIDE DEF n
  <2> QED
    BY <1>7
<1>9. ASSUME NEW s \in SUBSET D
      PROVE  G[s] = (IF s = {} THEN 0 ELSE f[Picked(s)] + G[s \ {Picked(s)}])
  <2>1. CASE s = {}
    BY <2>1, <1>6, FS_EmptySet
  <2>2. CASE s # {}
    <3> DEFINE k == Cardinality(s)
               r == s \ {Picked(s)}
    <3>1. k \in 1..n
      BY <2>2, <1>1, <1>7, FS_EmptySet
    <3>2. r \in SUBSET D /\ Cardinality(r) = k - 1
      BY <2>2, <1>7, PickedIn, FS_RemoveElement
    <3>3. h[k] = Sums(h[k - 1])
      BY <3>1, <1>6
    <3>4. h[k][s] = f[Picked(s)] + h[k - 1][r]
      BY <3>3, <2>2
    <3>5. G[s] = h[k][s] /\ G[r] = h[k - 1][r]
      BY <3>2
    <3> QED
      BY <3>4, <3>5, <2>2
  <2> QED
    BY <2>1, <2>2
<1>10. Adds(f, D, G)
  <2> HIDE DEF G
  <2>1. G = [s \in SUBSET D |-> G[s]]
    BY <1>8
  <2> QED
    BY <2>1, <1>9 DEF Adds
<1> QED
  <2> HIDE DEF G
  <2> QED
    BY <1>8, <1>10

\* The order does not matter: any element can be taken out first.
TakesOut(f, D, G) == \A s \in SUBSET D : \A x \in s : G[s] = f[x] + G[s \ {x}]

LEMMA AnyFirst ==
    ASSUME NEW D, IsFiniteSet(D), NEW f, \A x \in D : f[x] \in Int,
           NEW G \in [SUBSET D -> Int], Adds(f, D, G)
    PROVE  G[{}] = 0 /\ TakesOut(f, D, G)
<1> DEFINE Free(s) == \A x \in s : G[s] = f[x] + G[s \ {x}]
           K == {s \in SUBSET D : Free(s)}
<1>1. /\ G[{}] = 0
      /\ \A s \in SUBSET D : s # {} => G[s] = f[Picked(s)] + G[s \ {Picked(s)}]
  BY DEF Adds
<1>2. ASSUME NEW s \in SUBSET D, s # {}, \A x \in s : s \ {x} \in K
      PROVE  s \in K
  <2> DEFINE y == Picked(s)
  <2>1. y \in s /\ G[s] = f[y] + G[s \ {y}]
    BY <1>1, <1>2, PickedIn
  <2>2. ASSUME NEW x \in s PROVE G[s] = f[x] + G[s \ {x}]
    <3>1. CASE x = y
      BY <3>1, <2>1
    <3>2. CASE x # y
      <4> HIDE DEF y
      <4> DEFINE r == s \ {x, y}
      <4>1. Free(s \ {y}) /\ Free(s \ {x})
        BY <1>2, <2>1
      <4>2. (s \ {y}) \ {x} = r /\ (s \ {x}) \ {y} = r
        OBVIOUS
      <4>3. G[s \ {y}] = f[x] + G[r]
        BY <4>1, <4>2, <3>2
      <4>4. G[s \ {x}] = f[y] + G[r]
        BY <4>1, <4>2, <3>2, <2>1
      <4>5. f[x] \in Int /\ f[y] \in Int /\ G[r] \in Int
        BY <2>1
      <4> QED
        BY <2>1, <4>3, <4>4, <4>5
    <3> QED
      BY <3>1, <3>2
  <2> QED
    BY <2>2
<1>3. {} \in K
  OBVIOUS
<1>4. \A s \in SUBSET D : s \in K
  <2> HIDE DEF K
  <2> QED
    BY <1>2, <1>3, SetBySet
<1> QED
  BY <1>1, <1>4 DEF TakesOut

\* The sums over the subsets of D agree with those that any larger set has.
LEMMA AddsAgree ==
    ASSUME NEW D, NEW f, NEW G, Adds(f, D, G),
           NEW S \in SUBSET D, IsFiniteSet(S), NEW H, Adds(f, S, H)
    PROVE  H[S] = G[S]
<1> DEFINE K == {s \in SUBSET S : H[s] = G[s]}
<1>1. {} \in K
  BY DEF Adds
<1>2. ASSUME NEW s \in SUBSET S, s # {}, \A x \in s : s \ {x} \in K
      PROVE  s \in K
  <2>1. Picked(s) \in s /\ s \in SUBSET D
    BY <1>2, PickedIn
  <2>2. H[s] = f[Picked(s)] + H[s \ {Picked(s)}]
    BY <1>2 DEF Adds
  <2>3. G[s] = f[Picked(s)] + G[s \ {Picked(s)}]
    BY <1>2, <2>1 DEF Adds
  <2>4. H[s \ {Picked(s)}] = G[s \ {Picked(s)}]
    BY <1>2, <2>1
  <2> QED
    BY <2>2, <2>3, <2>4
<1>3. \A s \in SUBSET S : s \in K
  <2> HIDE DEF K
  <2> QED
    BY <1>1, <1>2, SetBySet
<1> QED
  BY <1>3

LEMMA SumsAgree ==
    ASSUME NEW D, IsFiniteSet(D), NEW f, \A x \in D : f[x] \in Int,
           NEW G \in [SUBSET D -> Int], Adds(f, D, G),
           NEW S \in SUBSET D
    PROVE  SumFunctionOnSet(f, S) = G[S]
<1> DEFINE H == CHOOSE H : Adds(f, S, H)
<1>1. IsFiniteSet(S) /\ \A x \in S : f[x] \in Int
  BY FS_Subset
<1>2. Adds(f, S, H)
  <2>1. \E I \in [SUBSET S -> Int] : Adds(f, S, I)
    BY <1>1, SumsExist
  <2> QED
    BY <2>1
<1>3. SumFunctionOnSet(f, S) = H[S]
  BY SumIs
<1> HIDE DEF H
<1> QED
  BY <1>1, <1>2, <1>3, AddsAgree

\* A sum of integers is an integer; over no elements it is 0, and otherwise
\* any element and the sum over the others.
LEMMA SumTakesOut ==
    ASSUME NEW S, IsFiniteSet(S), NEW f, \A x \in S : f[x] \in Int
    PROVE  /\ SumFunctionOnSet(f, S) \in Int
           /\ SumFunctionOnSet(f, {}) = 0
           /\ \A x \in S : /\ SumFunctionOnSet(f, S \ {x}) \in Int
                           /\ SumFunctionOnSet(f, S)
                                 = f[x] + SumFunctionOnSet(f, S \ {x})
<1>1. PICK G \in [SUBSET S -> Int] : Adds(f, S, G)
  BY SumsExist
<1>2. G[{}] = 0 /\ TakesOut(f, S, G)
  BY <1>1, AnyFirst
<1>3. \A s \in SUBSET S : SumFunctionOnSet(f, s) = G[s]
  BY <1>1, SumsAgree
<1> QED
  BY <1>2, <1>3 DEF TakesOut

\* The sum of what two functions make together
AddUp(f, g, h, S) ==
    \A x \in S : f[x] \in Int /\ g[x] \in Int /\ h[x] = f[x] + g[x]

LEMMA SumPlus ==
    ASSUME NEW S, IsFiniteSet(S), NEW f, NEW g, NEW h, AddUp(f, g, h, S)
    PROVE  /\ SumFunctionOnSet(f, S) \in Int /\ SumFunctionOnSet(g, S) \in Int
           /\ SumFunctionOnSet(h, S)
                 = SumFunctionOnSet(f, S) + SumFunctionOnSet(g, S)
<1> DEFINE K == {s \in SUBSET S : SumFunctionOnSet(h, s)
                    = SumFunctionOnSet(f, s) + SumFunctionOnSet(g, s)}
<1>1. \A x \in S : f[x] \in Int /\ g[x] \in Int /\ h[x] \in Int
  BY DEF AddUp
<1>2. {} \in K
  <2>1. \A x \in {} : f[x] \in Int /\ g[x] \in Int /\ h[x] \in Int
    OBVIOUS
  <2>2. /\ SumFunctionOnSet(f, {}) = 0 /\ SumFunctionOnSet(g, {}) = 0
        /\ SumFunctionOnSet(h, {}) = 0
    BY <2>1, FS_EmptySet, SumTakesOut
  <2> QED
    BY <2>2
<1>3. ASSUME NEW s \in SUBSET S, s # {}, \A x \in s : s \ {x} \in K
      PROVE  s \in K
  <2>1. PICK x \in s : TRUE
    BY <1>3
  <2>2. IsFiniteSet(s) /\ \A y \in s : /\ f[y] \in Int /\ g[y] \in Int
                                       /\ h[y] \in Int
    BY <1>1, FS_Subset
  <2>3. /\ SumFunctionOnSet(f, s \ {x}) \in Int
        /\ SumFunctionOnSet(f, s) = f[x] + SumFunctionOnSet(f, s \ {x})
    BY <2>1, <2>2, SumTakesOut
  <2>4. /\ SumFunctionOnSet(g, s \ {x}) \in Int
        /\ SumFunctionOnSet(g, s) = g[x] + SumFunctionOnSet(g, s \ {x})
    BY <2>1, <2>2, SumTakesOut
  <2>5. SumFunctionOnSet(h, s) = h[x] + SumFunctionOnSet(h, s \ {x})
    BY <2>1, <2>2, SumTakesOut
  <2>6. SumFunctionOnSet(h, s \ {x})
           = SumFunctionOnSet(f, s \ {x}) + SumFunctionOnSet(g, s \ {x})
    BY <1>3, <2>1
  <2>7. h[x] = f[x] + g[x] /\ f[x] \in Int /\ g[x] \in Int
    BY <2>1 DEF AddUp
  <2> QED
    BY <2>3, <2>4, <2>5, <2>6, <2>7
<1>4. \A s \in SUBSET S : s \in K
  <2> HIDE DEF K
  <2> QED
    BY <1>2, <1>3, SetBySet
<1> QED
  BY <1>1, <1>4, SumTakesOut

\* Nothing anywhere makes nothing.
LEMMA SumOfNothing ==
    ASSUME NEW S, IsFiniteSet(S), NEW f, \A x \in S : f[x] = 0
    PROVE  SumFunctionOnSet(f, S) = 0
<1>1. AddUp(f, f, f, S)
  BY DEF AddUp
<1>2. /\ SumFunctionOnSet(f, S) \in Int
      /\ SumFunctionOnSet(f, S) = SumFunctionOnSet(f, S) + SumFunctionOnSet(f, S)
  BY <1>1, SumPlus
<1>3. \A a \in Int : a = a + a => a = 0
  OBVIOUS
<1> QED
  BY <1>2, <1>3

\* Two functions with the same values have the same sum.
LEMMA SumSame ==
    ASSUME NEW S, IsFiniteSet(S), NEW f, NEW g,
           \A x \in S : f[x] \in Int /\ g[x] = f[x]
    PROVE  SumFunctionOnSet(g, S) = SumFunctionOnSet(f, S)
<1> DEFINE z == [x \in S |-> 0]
<1>1. \A x \in S : z[x] = 0
  OBVIOUS
<1> HIDE DEF z
<1>2. SumFunctionOnSet(z, S) = 0
  BY <1>1, SumOfNothing
<1>3. AddUp(f, z, g, S)
  BY <1>1 DEF AddUp
<1>4. /\ SumFunctionOnSet(f, S) \in Int
      /\ SumFunctionOnSet(g, S)
            = SumFunctionOnSet(f, S) + SumFunctionOnSet(z, S)
  BY <1>3, SumPlus
<1> QED
  BY <1>2, <1>4

\* Where only one value differs, so much do the sums.
DifferAt(x, f, g, S) ==
    /\ \A y \in S : f[y] \in Int /\ g[y] \in Int
    /\ \A y \in S \ {x} : g[y] = f[y]

LEMMA SumChanged ==
    ASSUME NEW S, IsFiniteSet(S), NEW f, NEW g, NEW x \in S,
           DifferAt(x, f, g, S)
    PROVE  /\ SumFunctionOnSet(f, S) \in Int
           /\ SumFunctionOnSet(g, S) = (SumFunctionOnSet(f, S) - f[x]) + g[x]
<1> USE DEF DifferAt
<1>1. /\ SumFunctionOnSet(f, S) \in Int
      /\ SumFunctionOnSet(f, S \ {x}) \in Int
      /\ SumFunctionOnSet(f, S) = f[x] + SumFunctionOnSet(f, S \ {x})
  BY SumTakesOut
<1>2. SumFunctionOnSet(g, S) = g[x] + SumFunctionOnSet(g, S \ {x})
  BY SumTakesOut
<1>3. SumFunctionOnSet(g, S \ {x}) = SumFunctionOnSet(f, S \ {x})
  <2>1. IsFiniteSet(S \ {x}) /\ \A y \in S \ {x} : f[y] \in Int /\ g[y] = f[y]
    BY FS_Subset
  <2> QED
    BY <2>1, SumSame
<1>4. f[x] \in Int /\ g[x] \in Int
  OBVIOUS
<1> QED
  BY <1>1, <1>2, <1>3, <1>4

\* The sum of what is not less than nothing
LEMMA SumOfNats ==
    ASSUME NEW S, IsFiniteSet(S), NEW f, \A x \in S : f[x] \in Nat
    PROVE  SumFunctionOnSet(f, S) \in Nat
<1> DEFINE K == {s \in SUBSET S : SumFunctionOnSet(f, s) \in Nat}
<1>1. \A x \in S : f[x] \in Int
  OBVIOUS
<1>2. {} \in K
  BY <1>1, SumTakesOut
<1>3. ASSUME NEW s \in SUBSET S, s # {}, \A x \in s : s \ {x} \in K
      PROVE  s \in K
  <2>1. PICK x \in s : TRUE
    BY <1>3
  <2>2. IsFiniteSet(s) /\ \A y \in s : f[y] \in Int
    BY <1>1, FS_Subset
  <2>3. SumFunctionOnSet(f, s) = f[x] + SumFunctionOnSet(f, s \ {x})
    BY <2>1, <2>2, SumTakesOut
  <2>4. f[x] \in Nat /\ SumFunctionOnSet(f, s \ {x}) \in Nat
    BY <1>3, <2>1
  <2> QED
    BY <2>3, <2>4
<1>4. \A s \in SUBSET S : s \in K
  <2> HIDE DEF K
  <2> QED
    BY <1>2, <1>3, SetBySet
<1> QED
  BY <1>4

-----------------------------------------------------------------------------
(* Kinds of coins                                                          *)

LEMMA TypesFinite == IsFiniteSet(Types)
<1>1. Kinds \in [1..Len(Kinds) -> Types] /\ Len(Kinds) \in Nat
  BY EconomyAssumption
<1>2. \A t \in Types : \E i \in 1..Len(Kinds) : Kinds[i] = t
  BY EconomyAssumption
<1>3. Kinds \in Surjection(1..Len(Kinds), Types)
  BY <1>1, <1>2 DEF Surjection
<1>4. IsFiniteSet(1..Len(Kinds))
  BY <1>1, FS_Interval
<1> QED
  BY <1>3, <1>4, FS_Surjection

\* Where a kind is in the list, and how it is worth compared to the kinds that
\* are before it and after it
Multiple(s, t) == s \in Types /\ t \in Types /\ s # t /\ Value[s] % Value[t] = 0

LEMMA KindsInOrder ==
    ASSUME NEW t \in Types
    PROVE  /\ Place(t) \in 1..Len(Kinds) /\ Kinds[Place(t)] = t
           /\ \A i \in DOMAIN Higher(t) : Multiple(Higher(t)[i], t)
           /\ \A i \in DOMAIN Lower(t) : Multiple(t, Lower(t)[i])
<1> DEFINE p == Place(t)
<1>1. Kinds \in [1..Len(Kinds) -> Types] /\ Len(Kinds) \in Nat
  BY EconomyAssumption
<1>2. p \in 1..Len(Kinds) /\ Kinds[p] = t
  BY <1>1, EconomyAssumption DEF Place
<1>3. \A i, j \in 1..Len(Kinds) : i < j => /\ Value[Kinds[i]] > Value[Kinds[j]]
                                           /\ Value[Kinds[i]] % Value[Kinds[j]] = 0
  BY <1>1, EconomyAssumption
<1>4. \A s \in Types : Value[s] \in Nat \ {0}
  BY EconomyAssumption
<1>5. \A i, j \in 1..Len(Kinds) : i < j => Multiple(Kinds[i], Kinds[j])
  BY <1>1, <1>3, <1>4 DEF Multiple
<1>6. ASSUME NEW i \in 1..(p - 1) PROVE Multiple(Kinds[p - i], t)
  <2>1. p - i \in 1..Len(Kinds) /\ p - i < p
    BY <1>1, <1>2
  <2> QED
    BY <2>1, <1>2, <1>5
<1>7. ASSUME NEW i \in 1..(Len(Kinds) - p) PROVE Multiple(t, Kinds[p + i])
  <2>1. p + i \in 1..Len(Kinds) /\ p < p + i
    BY <1>1, <1>2
  <2> QED
    BY <2>1, <1>2, <1>5
<1> QED
  BY <1>2, <1>6, <1>7 DEF Higher, Lower

-----------------------------------------------------------------------------
(* What coins weigh and are worth: for both, a sum of the numbers of the   *)
(* kinds, each times something.                                            *)

Each(w, p) == [t \in Types |-> p[t] * w[t]]
Weighed(w, p) == SumFunctionOnSet(Each(w, p), Types)
Ones == [t \in Types |-> 1]

Numbers == [Types -> Int]

LEMMA EachType ==
    ASSUME NEW w, \A t \in Types : w[t] \in Int, NEW p \in Numbers
    PROVE  \A t \in Types : Each(w, p)[t] = p[t] * w[t] /\ Each(w, p)[t] \in Int
BY DEF Each, Numbers

LEMMA WeighedType ==
    ASSUME NEW w, \A t \in Types : w[t] \in Int, NEW p \in Numbers
    PROVE  Weighed(w, p) \in Int
BY EachType, TypesFinite, SumTakesOut DEF Weighed

\* What is added, and what is taken away, counts.
LEMMA WeighedPlus ==
    ASSUME NEW w, \A t \in Types : w[t] \in Int,
           NEW p \in Numbers, NEW q \in Numbers, NEW r \in Numbers,
           \A t \in Types : r[t] = p[t] + q[t]
    PROVE  Weighed(w, r) = Weighed(w, p) + Weighed(w, q)
<1>1. AddUp(Each(w, p), Each(w, q), Each(w, r), Types)
  <2>1. ASSUME NEW t \in Types PROVE r[t] * w[t] = (p[t] * w[t]) + (q[t] * w[t])
    <3>1. /\ p[t] \in Int /\ q[t] \in Int /\ w[t] \in Int
          /\ r[t] = p[t] + q[t]
      BY DEF Numbers
    <3> QED
      BY <3>1
  <2> QED
    BY <2>1, EachType DEF AddUp
<1> QED
  BY <1>1, TypesFinite, SumPlus DEF Weighed

LEMMA WeighedMinus ==
    ASSUME NEW w, \A t \in Types : w[t] \in Int,
           NEW p \in Numbers, NEW q \in Numbers, NEW r \in Numbers,
           \A t \in Types : r[t] = p[t] - q[t]
    PROVE  Weighed(w, r) = Weighed(w, p) - Weighed(w, q)
<1>1. \A t \in Types : p[t] = r[t] + q[t]
  BY DEF Numbers
<1>2. Weighed(w, p) = Weighed(w, r) + Weighed(w, q)
  BY <1>1, WeighedPlus
<1> QED
  BY <1>2, WeighedType

\* One kind changes.
OnlyOf(t, p, q) == \A s \in Types \ {t} : q[s] = p[s]

LEMMA WeighedChanged ==
    ASSUME NEW w, \A t \in Types : w[t] \in Int,
           NEW p \in Numbers, NEW q \in Numbers, NEW t \in Types,
           OnlyOf(t, p, q)
    PROVE  Weighed(w, q) = (Weighed(w, p) - (p[t] * w[t])) + (q[t] * w[t])
<1>1. \A s \in Types \ {t} : Each(w, q)[s] = Each(w, p)[s]
  BY EachType DEF OnlyOf
<1>2. \A s \in Types : Each(w, p)[s] \in Int /\ Each(w, q)[s] \in Int
  BY EachType
<1>3. Weighed(w, q) = (Weighed(w, p) - Each(w, p)[t]) + Each(w, q)[t]
  <2>1. DifferAt(t, Each(w, p), Each(w, q), Types)
    BY <1>1, <1>2 DEF DifferAt
  <2> QED
    BY <2>1, TypesFinite, SumChanged DEF Weighed
<1>4. Each(w, p)[t] = p[t] * w[t] /\ Each(w, q)[t] = q[t] * w[t]
  BY EachType
<1> QED
  BY <1>3, <1>4

LEMMA WeighedNothing ==
    ASSUME NEW w, \A t \in Types : w[t] \in Int
    PROVE  NoCoins \in Numbers /\ Weighed(w, NoCoins) = 0
<1>1. NoCoins \in Numbers /\ \A t \in Types : NoCoins[t] = 0
  BY DEF NoCoins, Numbers
<1>2. \A t \in Types : Each(w, NoCoins)[t] = 0
  BY <1>1 DEF Each
<1> QED
  BY <1>1, <1>2, TypesFinite, SumOfNothing DEF Weighed

\* Coins of one kind, and of two
LEMMA WeighedOnly ==
    ASSUME NEW w, \A t \in Types : w[t] \in Int, NEW t \in Types, NEW n \in Int
    PROVE  Only(t, n) \in Numbers /\ Weighed(w, Only(t, n)) = n * w[t]
<1>1. /\ Only(t, n) \in Numbers /\ Only(t, n)[t] = n
      /\ OnlyOf(t, NoCoins, Only(t, n))
  BY DEF Only, NoCoins, Numbers, OnlyOf
<1>2. NoCoins \in Numbers /\ NoCoins[t] = 0 /\ Weighed(w, NoCoins) = 0
  BY WeighedNothing DEF NoCoins
<1>3. Weighed(w, Only(t, n))
         = (Weighed(w, NoCoins) - (NoCoins[t] * w[t])) + (Only(t, n)[t] * w[t])
  BY <1>1, <1>2, WeighedChanged
<1>4. w[t] \in Int
  OBVIOUS
<1> QED
  BY <1>1, <1>2, <1>3, <1>4

OfTwo(p, s, m, t, n) ==
    /\ p \in Numbers /\ p[s] = m /\ p[t] = n
    /\ \A r \in Types \ {s, t} : p[r] = 0

LEMMA WeighedTwo ==
    ASSUME NEW w, \A t \in Types : w[t] \in Int,
           NEW s \in Types, NEW t \in Types, s # t, NEW m \in Int, NEW n \in Int,
           NEW p, OfTwo(p, s, m, t, n)
    PROVE  Weighed(w, p) = (m * w[s]) + (n * w[t])
<1>1. /\ Only(s, m) \in Numbers /\ Only(s, m)[t] = 0
      /\ Weighed(w, Only(s, m)) = m * w[s]
  BY WeighedOnly DEF Only, NoCoins
<1>2. p \in Numbers /\ p[t] = n /\ OnlyOf(t, Only(s, m), p)
  BY DEF OfTwo, OnlyOf, Only, NoCoins
<1>3. Weighed(w, p)
         = (Weighed(w, Only(s, m)) - (Only(s, m)[t] * w[t])) + (p[t] * w[t])
  BY <1>1, <1>2, WeighedChanged
<1>4. w[t] \in Int /\ w[s] \in Int
  OBVIOUS
<1> QED
  BY <1>1, <1>2, <1>3, <1>4

LEMMA WeighedNat ==
    ASSUME NEW w, \A t \in Types : w[t] \in Nat, NEW p \in [Types -> Nat]
    PROVE  Weighed(w, p) \in Nat
<1>1. \A t \in Types : Each(w, p)[t] \in Nat
  BY DEF Each
<1> QED
  BY <1>1, TypesFinite, SumOfNats DEF Weighed

\* Coins() and Total() are of this kind.
LEMMA OnesAndValue ==
    /\ \A t \in Types : Ones[t] = 1 /\ Ones[t] \in Nat /\ Ones[t] \in Int
    /\ \A t \in Types : Value[t] \in Nat \ {0} /\ Value[t] \in Int /\ Value[t] \in Nat
BY EconomyAssumption DEF Ones

LEMMA CoinsAre ==
    ASSUME NEW p \in Numbers
    PROVE  Coins(p) = Weighed(Ones, p)
<1>1. \A t \in Types : p[t] \in Int /\ Each(Ones, p)[t] = p[t]
  BY OnesAndValue DEF Each, Numbers
<1>2. DOMAIN p = Types
  BY DEF Numbers
<1> QED
  BY <1>1, <1>2, TypesFinite, SumSame DEF Coins, SumFunction, Weighed

\* Total() adds up the products; they are the values of Each().
AddsWorth(p, G) == G = [s \in SUBSET Types |->
    IF s = {} THEN 0
    ELSE (p[Picked(s)] * Value[Picked(s)]) + G[s \ {Picked(s)}]]

LEMMA TotalAdds ==
    ASSUME NEW p
    PROVE  Total(p) = (CHOOSE G : AddsWorth(p, G))[Types]
BY Zenon DEF Total, MapThenSumSet, MapThenFoldSet, AddsWorth, Picked

LEMMA TotalIs ==
    ASSUME NEW p \in Numbers
    PROVE  Total(p) = Weighed(Value, p)
<1> DEFINE f == Each(Value, p)
           H == CHOOSE G : AddsWorth(p, G)
<1>1. \A t \in Types : f[t] = p[t] * Value[t] /\ f[t] \in Int
  BY OnesAndValue DEF Each, Numbers
<1> HIDE DEF f
<1>2. ASSUME NEW G PROVE AddsWorth(p, G) <=> Adds(f, Types, G)
  <2>1. \A s \in SUBSET Types : s # {} =>
           f[Picked(s)] = p[Picked(s)] * Value[Picked(s)]
    BY <1>1, PickedIn
  <2>2. [s \in SUBSET Types |->
            IF s = {} THEN 0
            ELSE (p[Picked(s)] * Value[Picked(s)]) + G[s \ {Picked(s)}]]
         = [s \in SUBSET Types |->
            IF s = {} THEN 0 ELSE f[Picked(s)] + G[s \ {Picked(s)}]]
    BY <2>1
  <2> QED
    BY <2>2 DEF AddsWorth, Adds
<1>3. PICK G \in [SUBSET Types -> Int] : Adds(f, Types, G)
  BY <1>1, TypesFinite, SumsExist
<1>4. AddsWorth(p, H)
  BY <1>2, <1>3
<1>5. Total(p) = H[Types]
  BY TotalAdds
<1> HIDE DEF H
<1>6. H[Types] = G[Types]
  <2>1. Adds(f, Types, H) /\ Types \in SUBSET Types
    BY <1>2, <1>4
  <2> QED
    BY <1>3, <2>1, TypesFinite, AddsAgree
<1>7. SumFunctionOnSet(f, Types) = G[Types]
  BY <1>1, <1>3, TypesFinite, SumsAgree
<1> QED
  BY <1>5, <1>6, <1>7 DEF Weighed, f

\* What a purse weighs and is worth, and what is left when pay is paid: for a
\* negative part of pay, more.
Purses == [Types -> Nat]

LEMMA PurseCounts ==
    ASSUME NEW p \in Purses
    PROVE  /\ p \in Numbers /\ Coins(p) \in Nat /\ Total(p) \in Nat
<1>1. p \in Numbers
  BY DEF Numbers, Purses
<1>2. Weighed(Ones, p) \in Nat /\ Weighed(Value, p) \in Nat
  BY OnesAndValue, WeighedNat DEF Purses
<1> QED
  BY <1>1, <1>2, CoinsAre, TotalIs

LEMMA NumbersCount ==
    ASSUME NEW p \in Numbers
    PROVE  Coins(p) \in Int /\ Total(p) \in Int
<1>1. Weighed(Ones, p) \in Int /\ Weighed(Value, p) \in Int
  BY OnesAndValue, WeighedType
<1> QED
  BY <1>1, CoinsAre, TotalIs

LEMMA PlusCounts ==
    ASSUME NEW p \in Numbers, NEW q \in Numbers, NEW r \in Numbers,
           \A t \in Types : r[t] = p[t] + q[t]
    PROVE  Coins(r) = Coins(p) + Coins(q) /\ Total(r) = Total(p) + Total(q)
<1>1. Weighed(Ones, r) = Weighed(Ones, p) + Weighed(Ones, q)
  BY OnesAndValue, WeighedPlus
<1>2. Weighed(Value, r) = Weighed(Value, p) + Weighed(Value, q)
  BY OnesAndValue, WeighedPlus
<1> QED
  BY <1>1, <1>2, CoinsAre, TotalIs

LEMMA MinusCounts ==
    ASSUME NEW p \in Numbers, NEW q \in Numbers, NEW r \in Numbers,
           \A t \in Types : r[t] = p[t] - q[t]
    PROVE  Coins(r) = Coins(p) - Coins(q) /\ Total(r) = Total(p) - Total(q)
<1>1. Weighed(Ones, r) = Weighed(Ones, p) - Weighed(Ones, q)
  BY OnesAndValue, WeighedMinus
<1>2. Weighed(Value, r) = Weighed(Value, p) - Weighed(Value, q)
  BY OnesAndValue, WeighedMinus
<1> QED
  BY <1>1, <1>2, CoinsAre, TotalIs

LEMMA NothingCounts ==
    /\ NoCoins \in Purses /\ NoCoins \in Numbers
    /\ Coins(NoCoins) = 0 /\ Total(NoCoins) = 0
<1>1. NoCoins \in Purses /\ NoCoins \in Numbers
  BY DEF NoCoins, Purses, Numbers
<1>2. Weighed(Ones, NoCoins) = 0 /\ Weighed(Value, NoCoins) = 0
  BY OnesAndValue, WeighedNothing
<1> QED
  BY <1>1, <1>2, CoinsAre, TotalIs

LEMMA OnlyCounts ==
    ASSUME NEW t \in Types, NEW n \in Int
    PROVE  /\ Only(t, n) \in Numbers /\ Only(t, n)[t] = n
           /\ \A s \in Types \ {t} : Only(t, n)[s] = 0
           /\ Coins(Only(t, n)) = n /\ Total(Only(t, n)) = n * Value[t]
<1>1. /\ Only(t, n) \in Numbers /\ Only(t, n)[t] = n
      /\ \A s \in Types \ {t} : Only(t, n)[s] = 0
  BY DEF Only, NoCoins, Numbers
<1>2. Weighed(Ones, Only(t, n)) = n * Ones[t]
  BY OnesAndValue, WeighedOnly
<1>3. Weighed(Value, Only(t, n)) = n * Value[t]
  BY OnesAndValue, WeighedOnly
<1> QED
  BY <1>1, <1>2, <1>3, OnesAndValue, CoinsAre, TotalIs

IsTwo(p, s, m, t, n) == p = [Only(s, m) EXCEPT ![t] = n]

LEMMA TwoCount ==
    ASSUME NEW s \in Types, NEW t \in Types, s # t, NEW m \in Int, NEW n \in Int,
           NEW p, IsTwo(p, s, m, t, n)
    PROVE  /\ OfTwo(p, s, m, t, n)
           /\ Coins(p) = m + n /\ Total(p) = (m * Value[s]) + (n * Value[t])
<1>0. s \in Types /\ t \in Types /\ s # t /\ m \in Int /\ n \in Int
  OBVIOUS
<1>1. OfTwo(p, s, m, t, n)
  BY OnlyCounts DEF Numbers, OfTwo, IsTwo
<1>2. Weighed(Ones, p) = (m * Ones[s]) + (n * Ones[t])
  BY ONLY <1>1, <1>0, OnesAndValue, WeighedTwo
<1>3. Weighed(Value, p) = (m * Value[s]) + (n * Value[t])
  BY ONLY <1>1, <1>0, OnesAndValue, WeighedTwo
<1> QED
  BY <1>1, <1>2, <1>3, OnesAndValue, CoinsAre, TotalIs DEF OfTwo

\* n coins of kind t more, or less
IsMore(q, p, t, n) == q = [p EXCEPT ![t] = @ + n]

LEMMA MoreCounts ==
    ASSUME NEW p \in Numbers, NEW t \in Types, NEW n \in Int,
           NEW q, IsMore(q, p, t, n)
    PROVE  /\ q \in Numbers /\ q[t] = p[t] + n
           /\ \A s \in Types \ {t} : q[s] = p[s]
           /\ Coins(q) = Coins(p) + n /\ Total(q) = Total(p) + (n * Value[t])
<1>1. /\ q \in Numbers /\ q[t] = p[t] + n
      /\ \A s \in Types \ {t} : q[s] = p[s]
  BY DEF Numbers, IsMore
<1>2. \A s \in Types : q[s] = p[s] + Only(t, n)[s]
  <2>1. /\ Only(t, n)[t] = n /\ \A s \in Types \ {t} : Only(t, n)[s] = 0
        /\ \A s \in Types : p[s] \in Int
    BY OnlyCounts DEF Numbers
  <2> QED
    BY <1>1, <2>1
<1>3. Only(t, n) \in Numbers
  BY OnlyCounts
<1>4. /\ Coins(q) = Coins(p) + Coins(Only(t, n))
      /\ Total(q) = Total(p) + Total(Only(t, n))
  BY <1>1, <1>2, <1>3, PlusCounts
<1> QED
  BY <1>1, <1>4, OnlyCounts

-----------------------------------------------------------------------------
(* One body pays, or gets, and the invariant of what is carried            *)

\* What v's body carries and can still carry
Load(v) == capacity[v] + Coins(purse[v]) + Cardinality(Owned(v))

\* What the types say of one body
LEMMA OfBody ==
    ASSUME TypeOK, NEW u \in Users
    PROVE  /\ purse[u] \in Purses /\ bank[u] \in Purses /\ capacity[u] \in Nat
           /\ file[u].purse \in Purses /\ file[u].bank \in Purses
           /\ floor \in Purses /\ box \in Purses
           /\ \A t \in Types : purse[u][t] \in Nat /\ bank[u][t] \in Nat
BY DEF TypeOK, Purses

LEMMA Alivehere == ASSUME TypeOK PROVE Alive \subseteq Users
BY DEF TypeOK, Alive

\* What is left of p when pay is paid
Left(p, pay) == [t \in Types |-> p[t] - pay[t]]

LEMMA LeftCounts ==
    ASSUME NEW p \in Purses, NEW pay \in Numbers,
           \A t \in Types : pay[t] <= p[t]
    PROVE  /\ Left(p, pay) \in Purses
           /\ Coins(Left(p, pay)) = Coins(p) - Coins(pay)
           /\ Total(Left(p, pay)) = Total(p) - Total(pay)
<1>1. \A t \in Types : p[t] - pay[t] \in Nat
  BY DEF Purses, Numbers
<1>2. Left(p, pay) \in Purses /\ \A t \in Types : Left(p, pay)[t] = p[t] - pay[t]
  BY <1>1 DEF Left, Purses
<1>3. Left(p, pay) \in Numbers /\ p \in Numbers
  BY <1>2, PurseCounts
<1> QED
  BY <1>2, <1>3, MinusCounts

\* u has paid pay, and his capacity is c.
Paid(u, pay, c) ==
    /\ purse' \in [Users -> Purses] /\ capacity' \in [Users -> Nat]
    /\ purse'[u] = Left(purse[u], pay) /\ capacity'[u] = c
    /\ Coins(purse'[u]) = Coins(purse[u]) - Coins(pay)
    /\ Total(purse'[u]) = Total(purse[u]) - Total(pay)
    /\ \A v \in Users \ {u} : purse'[v] = purse[v] /\ capacity'[v] = capacity[v]

LEMMA Pays ==
    ASSUME TypeOK, NEW u \in Users, NEW pay \in Numbers, NEW c \in Nat,
           \A t \in Types : pay[t] <= purse[u][t],
           purse' = [purse EXCEPT ![u] = Left(purse[u], pay)],
           capacity' = [capacity EXCEPT ![u] = c]
    PROVE  Paid(u, pay, c)
<1>1. /\ Left(purse[u], pay) \in Purses
      /\ Coins(Left(purse[u], pay)) = Coins(purse[u]) - Coins(pay)
      /\ Total(Left(purse[u], pay)) = Total(purse[u]) - Total(pay)
  BY OfBody, LeftCounts
<1>2. purse \in [Users -> Purses] /\ capacity \in [Users -> Nat]
  BY DEF TypeOK, Purses
<1> DEFINE l == Left(purse[u], pay)
<1>3. /\ l \in Purses /\ purse' = [purse EXCEPT ![u] = l]
  BY <1>1
<1>4. purse' \in [Users -> Purses] /\ capacity' \in [Users -> Nat]
  <2> HIDE DEF l
  <2> QED
    BY <1>2, <1>3
<1>5. purse'[u] = l /\ capacity'[u] = c
  <2> HIDE DEF l
  <2> QED
    BY <1>2, <1>3
<1>6. \A v \in Users \ {u} : purse'[v] = purse[v] /\ capacity'[v] = capacity[v]
  BY <1>2
<1> QED
  BY <1>1, <1>4, <1>5, <1>6 DEF Paid

LEMMA PayPays ==
    ASSUME TypeOK, NEW u \in Users, NEW pay \in Numbers, Pay(u, pay),
           \A t \in Types : pay[t] <= purse[u][t], capacity[u] + Coins(pay) >= 0
    PROVE  Paid(u, pay, capacity[u] + Coins(pay))
<1>1. capacity[u] + Coins(pay) \in Nat
  BY OfBody, NumbersCount
<1>2. /\ purse' = [purse EXCEPT ![u] = Left(purse[u], pay)]
      /\ capacity' = [capacity EXCEPT ![u] = capacity[u] + Coins(pay)]
  BY DEF Pay, Left, TypeOK
<1> QED
  BY <1>1, <1>2, Pays

\* The invariant from its parts
LEMMA InvariantOf ==
    ASSUME TypeOK', OnlyTheLivingOwn', FilesFit',
           \A v \in Alive' : Load(v)' = MaxCapacity
    PROVE  IInv'
<1>1. EncumbranceTrue'
  BY DEF EncumbranceTrue, Load, TypeOK, Alive
<1> QED
  BY <1>1 DEF IInv

LEMMA LoadIs ==
    ASSUME IInv, NEW v \in Alive
    PROVE  Load(v) = MaxCapacity
BY DEF IInv, EncumbranceTrue, Load

\* However u pays, what he carries and can still carry stays what it was.
LEMMA PaidKeeps ==
    ASSUME IInv, NEW u \in Users, NEW pay \in Numbers,
           Paid(u, pay, capacity[u] + Coins(pay)),
           bank' \in [Users -> Purses], floor' \in Purses, box' \in Purses,
           UNCHANGED <<here, dead, file, owner>>
    PROVE  IInv'
<1>1. TypeOK /\ TypeOK' /\ Alive' = Alive /\ Alive \subseteq Users
  BY DEF IInv, TypeOK, Paid, Purses, Alive
<1>2. OnlyTheLivingOwn' /\ FilesFit'
  BY <1>1 DEF IInv, OnlyTheLivingOwn, FilesFit, Coins
<1>3. ASSUME NEW v \in Alive PROVE Load(v)' = MaxCapacity
  <2>1. Load(v) = MaxCapacity
    BY LoadIs
  <2>2. Owned(v)' = Owned(v)
    BY DEF Owned
  <2>3. CASE v # u
    <3>1. purse'[v] = purse[v] /\ capacity'[v] = capacity[v]
      BY <1>1, <2>3 DEF Paid
    <3> QED
      BY <2>1, <2>2, <3>1 DEF Load
  <2>4. CASE v = u
    <3>1. /\ capacity'[u] = capacity[u] + Coins(pay)
          /\ Coins(purse'[u]) = Coins(purse[u]) - Coins(pay)
      BY DEF Paid
    <3>2. /\ capacity[u] \in Nat /\ Coins(pay) \in Int /\ Coins(purse[u]) \in Nat
      BY <1>1, OfBody, PurseCounts, NumbersCount
    <3>3. capacity'[u] + Coins(purse'[u]) = capacity[u] + Coins(purse[u])
      BY <3>1, <3>2
    <3>4. Load(u)' = capacity'[u] + Coins(purse'[u]) + Cardinality(Owned(u)')
      BY DEF Load, Coins
    <3> QED
      BY <2>1, <2>2, <2>4, <3>3, <3>4 DEF Load
  <2> QED
    BY <2>3, <2>4
<1> QED
  BY <1>1, <1>2, <1>3, InvariantOf

-----------------------------------------------------------------------------
(* All the money there is                                                  *)

Riches == [u \in Users |-> Wealth(u)]
Held == SumFunctionOnSet(Riches, Users)
GoodsOf(u) == SumFunctionOnSet(Costs, Owned(u))

LEMMA WorthIs == Worth = Held + Total(floor) + Total(box)
BY DEF Worth, Held, Riches, SumFunction

\* A total depends on the purse only.
LEMMA TotalNext ==
    /\ Total(floor)' = Total(floor') /\ Total(box)' = Total(box')
    /\ \A u : /\ Total(purse[u])' = Total(purse'[u])
              /\ Total(bank[u])' = Total(bank'[u])
              /\ Total(file[u].purse)' = Total(file'[u].purse)
              /\ Total(file[u].bank)' = Total(file'[u].bank)
BY Zenon DEF Total, MapThenSumSet, MapThenFoldSet

LEMMA WorthIsNext == Worth' = Held' + Total(floor') + Total(box')
<1>1. Worth' = Held' + Total(floor)' + Total(box)'
  BY DEF Worth, Held, Riches, SumFunction
<1> QED
  BY <1>1, TotalNext

LEMMA GoodsCount ==
    /\ \A g \in Goods : /\ Costs[g] = Price[g].num * Value[Price[g].type]
                        /\ Costs[g] \in Nat
    /\ \A S \in SUBSET Goods : /\ IsFiniteSet(S)
                               /\ SumFunctionOnSet(Costs, S) \in Nat
<1>1. ASSUME NEW g \in Goods PROVE Price[g].num * Value[Price[g].type] \in Nat
  <2>1. Price[g].num \in Nat /\ Value[Price[g].type] \in Nat
    BY EconomyAssumption
  <2> QED
    BY <2>1
<1>2. \A g \in Goods : /\ Costs[g] = Price[g].num * Value[Price[g].type]
                       /\ Costs[g] \in Nat
  BY <1>1 DEF Costs
<1>3. ASSUME NEW S \in SUBSET Goods
      PROVE  IsFiniteSet(S) /\ SumFunctionOnSet(Costs, S) \in Nat
  <2>1. IsFiniteSet(S)
    BY EconomyAssumption, FS_Subset
  <2>2. \A g \in S : Costs[g] \in Nat
    BY <1>2
  <2> QED
    BY <2>1, <2>2, SumOfNats
<1> QED
  BY <1>2, <1>3

LEMMA WealthOf ==
    ASSUME NEW u
    PROVE  /\ u \in Alive =>
                 Wealth(u) = Total(purse[u]) + Total(bank[u]) + GoodsOf(u)
           /\ u \notin Alive => Wealth(u) = Total(file[u].purse) + Total(file[u].bank)
BY DEF Wealth, GoodsOf

LEMMA WealthOfNext ==
    ASSUME NEW u
    PROVE  /\ u \in Alive' =>
                 Wealth(u)' = Total(purse'[u]) + Total(bank'[u]) + GoodsOf(u)'
           /\ u \notin Alive' =>
                 Wealth(u)' = Total(file'[u].purse) + Total(file'[u].bank)
<1>1. /\ u \in Alive' =>
           Wealth(u)' = Total(purse[u])' + Total(bank[u])' + GoodsOf(u)'
      /\ u \notin Alive' =>
           Wealth(u)' = Total(file[u].purse)' + Total(file[u].bank)'
  BY DEF Wealth, GoodsOf, Alive, Owned
<1> QED
  BY <1>1, TotalNext

LEMMA WealthType ==
    ASSUME TypeOK, NEW u \in Users
    PROVE  /\ Wealth(u) \in Nat /\ GoodsOf(u) \in Nat
           /\ Total(purse[u]) \in Nat /\ Total(bank[u]) \in Nat
           /\ Total(file[u].purse) \in Nat /\ Total(file[u].bank) \in Nat
<1>1. /\ Total(purse[u]) \in Nat /\ Total(bank[u]) \in Nat
      /\ Total(file[u].purse) \in Nat /\ Total(file[u].bank) \in Nat
  BY OfBody, PurseCounts
<1>2. GoodsOf(u) \in Nat
  BY GoodsCount DEF GoodsOf, Owned
<1> QED
  BY <1>1, <1>2, WealthOf

LEMMA WealthTypeNext ==
    ASSUME TypeOK', NEW u \in Users
    PROVE  /\ Wealth(u)' \in Nat /\ GoodsOf(u)' \in Nat
           /\ Total(purse'[u]) \in Nat /\ Total(bank'[u]) \in Nat
           /\ Total(file'[u].purse) \in Nat /\ Total(file'[u].bank) \in Nat
<1>1. /\ purse'[u] \in Purses /\ bank'[u] \in Purses
      /\ file'[u].purse \in Purses /\ file'[u].bank \in Purses
  BY DEF TypeOK, Purses
<1>2. /\ Total(purse'[u]) \in Nat /\ Total(bank'[u]) \in Nat
      /\ Total(file'[u].purse) \in Nat /\ Total(file'[u].bank) \in Nat
  BY <1>1, PurseCounts
<1>3. GoodsOf(u)' \in Nat
  BY GoodsCount DEF GoodsOf, Owned
<1> QED
  BY <1>2, <1>3, WealthOfNext

\* Nobody's wealth changes, or only one's, or two's.
LEMMA WealthOfNone ==
    ASSUME TypeOK, TypeOK', \A v \in Users : Wealth(v)' = Wealth(v)
    PROVE  Held \in Int /\ Held' = Held
<1>1. Riches' = Riches
  BY DEF Riches
<1>2. Held' = SumFunctionOnSet(Riches', Users)
  BY DEF Held, Riches
<1>3. \A v \in Users : Riches[v] \in Int
  BY WealthType DEF Riches
<1> QED
  BY <1>1, <1>2, <1>3, EconomyAssumption, SumTakesOut DEF Held

LEMMA WealthOfOne ==
    ASSUME TypeOK, TypeOK', NEW u \in Users,
           \A v \in Users \ {u} : Wealth(v)' = Wealth(v)
    PROVE  /\ Held \in Int /\ Wealth(u) \in Int /\ Wealth(u)' \in Int
           /\ Held' = (Held - Wealth(u)) + Wealth(u)'
<1> DEFINE R == [v \in Users |-> Wealth(v)']
<1>1. Held' = SumFunctionOnSet(R, Users)
  BY DEF Held, Riches
<1>2. /\ \A v \in Users : Riches[v] = Wealth(v) /\ Riches[v] \in Int
      /\ \A v \in Users : R[v] = Wealth(v)' /\ R[v] \in Int
  BY WealthType, WealthTypeNext DEF Riches
<1>3. DifferAt(u, Riches, R, Users)
  BY <1>2 DEF DifferAt
<1> HIDE DEF R
<1>4. /\ Held \in Int /\ Held' = (Held - Riches[u]) + R[u]
  BY <1>1, <1>3, EconomyAssumption, SumChanged DEF Held
<1> QED
  BY <1>2, <1>4

LEMMA WealthOfTwo ==
    ASSUME TypeOK, TypeOK', NEW u \in Users, NEW v \in Users, u # v,
           \A w \in Users \ {u, v} : Wealth(w)' = Wealth(w)
    PROVE  /\ Held \in Int
           /\ Wealth(u) \in Int /\ Wealth(u)' \in Int
           /\ Wealth(v) \in Int /\ Wealth(v)' \in Int
           /\ Held' = (Held - (Wealth(u) + Wealth(v))) + (Wealth(u)' + Wealth(v)')
<1> DEFINE R == [w \in Users |-> Wealth(w)']
           M == [w \in Users |-> IF w = u THEN Wealth(w)' ELSE Wealth(w)]
<1>1. Held' = SumFunctionOnSet(R, Users)
  BY DEF Held, Riches
<1>2. /\ \A w \in Users : Riches[w] = Wealth(w) /\ Riches[w] \in Int
      /\ \A w \in Users : R[w] = Wealth(w)' /\ R[w] \in Int
      /\ M[u] = Wealth(u)' /\ \A w \in Users \ {u} : M[w] = Wealth(w)
  BY WealthType, WealthTypeNext DEF Riches
<1>3. DifferAt(u, Riches, M, Users) /\ DifferAt(v, M, R, Users)
  BY <1>2 DEF DifferAt
<1> HIDE DEF R, M
<1>4. /\ Held \in Int
      /\ SumFunctionOnSet(M, Users) = (Held - Riches[u]) + M[u]
  BY <1>3, EconomyAssumption, SumChanged DEF Held
<1>5. Held' = (SumFunctionOnSet(M, Users) - M[v]) + R[v]
  BY <1>1, <1>3, EconomyAssumption, SumChanged
<1>6. M[u] = Wealth(u)' /\ M[v] = Wealth(v) /\ R[v] = Wealth(v)'
  BY <1>2
<1>7. /\ Wealth(u) \in Int /\ Wealth(u)' \in Int
      /\ Wealth(v) \in Int /\ Wealth(v)' \in Int
  BY <1>2
<1> QED
  BY <1>2, <1>4, <1>5, <1>6, <1>7

\* u pays, the money on w's account becomes more by m, and nobody else is
\* concerned.
Credited(w, m) ==
    /\ Total(bank'[w]) = Total(bank[w]) + m
    /\ \A v \in Users \ {w} : bank'[v] = bank[v]
OthersOwn(u) == \A v \in Users \ {u} : Owned(v)' = Owned(v)

LEMMA PaidWorth ==
    ASSUME TypeOK, TypeOK', NEW u \in Alive, NEW pay \in Numbers, NEW c,
           Paid(u, pay, c), UNCHANGED <<here, dead, file>>,
           NEW w \in Alive, NEW m \in Int, Credited(w, m), OthersOwn(u)
    PROVE  /\ Held \in Int /\ Held' \in Int
           /\ GoodsOf(u) \in Int /\ GoodsOf(u)' \in Int /\ Total(pay) \in Int
           /\ Held' = (Held - Total(pay)) + m + (GoodsOf(u)' - GoodsOf(u))
<1> USE DEF Credited, OthersOwn
<1>1. Alive' = Alive /\ Alive \subseteq Users
  BY DEF Alive, TypeOK
<1>2. /\ Total(purse'[u]) = Total(purse[u]) - Total(pay)
      /\ Total(pay) \in Int
  BY NumbersCount DEF Paid
<1>3. ASSUME NEW v \in Users \ {u} PROVE GoodsOf(v)' = GoodsOf(v)
  BY DEF GoodsOf
<1>4. ASSUME NEW v \in Users \ {u, w} PROVE Wealth(v)' = Wealth(v)
  <2>1. purse'[v] = purse[v] /\ bank'[v] = bank[v] /\ file'[v] = file[v]
    BY DEF Paid
  <2> QED
    BY <1>1, <1>3, <2>1, WealthOf, WealthOfNext
<1>5. ASSUME NEW v \in Alive
      PROVE  /\ Wealth(v) = Total(purse[v]) + Total(bank[v]) + GoodsOf(v)
             /\ Wealth(v)' = Total(purse'[v]) + Total(bank'[v]) + GoodsOf(v)'
             /\ Total(purse[v]) \in Nat /\ Total(bank[v]) \in Nat
             /\ Total(purse'[v]) \in Nat /\ Total(bank'[v]) \in Nat
             /\ GoodsOf(v) \in Nat /\ GoodsOf(v)' \in Nat
  <2>1. v \in Users /\ v \in Alive'
    BY <1>1
  <2> QED
    BY <2>1, WealthOf, WealthOfNext, WealthType, WealthTypeNext
<1>6. CASE u = w
  <2>1. \A v \in Users \ {u} : Wealth(v)' = Wealth(v)
    BY <1>4, <1>6
  <2>2. u \in Users
    BY <1>1
  <2>3. /\ Held \in Int /\ Wealth(u) \in Int /\ Wealth(u)' \in Int
        /\ Held' = (Held - Wealth(u)) + Wealth(u)'
    BY <2>1, <2>2, WealthOfOne
  <2>4. Total(bank'[u]) = Total(bank[u]) + m
    BY <1>6
  <2> QED
    BY <1>2, <1>5, <2>3, <2>4
<1>7. CASE u # w
  <2>1. u \in Users /\ w \in Users
    BY <1>1
  <2>2. /\ Held \in Int
        /\ Wealth(u) \in Int /\ Wealth(u)' \in Int
        /\ Wealth(w) \in Int /\ Wealth(w)' \in Int
        /\ Held' = (Held - (Wealth(u) + Wealth(w))) + (Wealth(u)' + Wealth(w)')
    BY <1>4, <1>7, <2>1, WealthOfTwo
  <2>3. /\ Total(bank'[u]) = Total(bank[u]) /\ Total(purse'[w]) = Total(purse[w])
        /\ GoodsOf(w)' = GoodsOf(w)
    BY <1>3, <1>7, <2>1 DEF Paid
  <2>4. Wealth(u)' = (Wealth(u) - Total(pay)) + (GoodsOf(u)' - GoodsOf(u))
    BY <1>2, <1>5, <2>3
  <2>5. Wealth(w)' = Wealth(w) + m
    BY <1>5, <2>3
  <2>6. GoodsOf(u) \in Int /\ GoodsOf(u)' \in Int
    BY <1>5
  <2> QED
    BY <1>2, <2>2, <2>4, <2>5, <2>6
<1> QED
  BY <1>6, <1>7

\* The same when the accounts and the goods stay what they are.
LEMMA PaidOnly ==
    ASSUME TypeOK, TypeOK', NEW u \in Alive, NEW pay \in Numbers, NEW c,
           Paid(u, pay, c), UNCHANGED <<here, dead, bank, file, owner>>
    PROVE  /\ Held \in Int /\ Held' \in Int /\ Total(pay) \in Int
           /\ Held' = Held - Total(pay)
<1>1. u \in Users /\ Total(bank[u]) \in Int
  BY WealthType, Alivehere
<1>2. 0 \in Int /\ Credited(u, 0) /\ OthersOwn(u) /\ GoodsOf(u)' = GoodsOf(u)
  BY <1>1 DEF Owned, GoodsOf, Credited, OthersOwn
<1>3. /\ Held \in Int /\ Held' \in Int
      /\ GoodsOf(u) \in Int /\ GoodsOf(u)' \in Int /\ Total(pay) \in Int
      /\ Held' = (Held - Total(pay)) + 0 + (GoodsOf(u)' - GoodsOf(u))
  BY <1>2, PaidWorth
<1> QED
  BY <1>2, <1>3

-----------------------------------------------------------------------------
(* Coins from hand to hand and in the room: each action keeps the          *)
(* invariant, and makes no money.                                          *)

Keeps == IInv' /\ Worth' <= Worth

LEMMA WorthType ==
    ASSUME TypeOK
    PROVE  /\ Held \in Int /\ Total(floor) \in Nat /\ Total(box) \in Nat
           /\ Worth \in Int
<1>1. \A v \in Users : Riches[v] \in Int
  BY WealthType DEF Riches
<1>2. Held \in Int
  BY <1>1, EconomyAssumption, SumTakesOut DEF Held
<1>3. floor \in Purses /\ box \in Purses
  BY DEF TypeOK, Purses
<1>4. Total(floor) \in Nat /\ Total(box) \in Nat
  BY <1>3, PurseCounts
<1> QED
  BY <1>2, <1>4, WorthIs

\* n coins on a heap more, and less
LEMMA HeapMore ==
    ASSUME NEW p \in Purses, NEW t \in Types, NEW n \in Nat,
           NEW q, IsMore(q, p, t, n)
    PROVE  q \in Purses /\ Total(q) = Total(p) + (n * Value[t])
<1>1. q \in Purses
  BY DEF Purses, IsMore
<1>2. p \in Numbers /\ n \in Int
  BY PurseCounts
<1>3. Total(q) = Total(p) + (n * Value[t])
  BY <1>2, MoreCounts
<1> QED
  BY <1>1, <1>3

IsLess(q, p, t, n) == q = [p EXCEPT ![t] = @ - n]

LEMMA HeapLess ==
    ASSUME NEW p \in Purses, NEW t \in Types, NEW n \in Nat, n <= p[t],
           NEW q, IsLess(q, p, t, n)
    PROVE  q \in Purses /\ Total(q) = Total(p) - (n * Value[t])
<1>1. q \in Purses
  BY DEF Purses, IsLess
<1>2. p \in Numbers /\ -n \in Int
  BY PurseCounts
<1>3. IsMore(q, p, t, -n)
  BY DEF IsLess, IsMore, Purses
<1>4. Total(q) = Total(p) + ((-n) * Value[t])
  BY <1>2, <1>3, MoreCounts
<1>5. Total(p) \in Int /\ Value[t] \in Int
  BY PurseCounts, OnesAndValue
<1> QED
  BY <1>1, <1>4, <1>5

\* u pays n coins of kind t, or gets them and can carry them.
LEMMA PaysOnly ==
    ASSUME TypeOK, NEW u \in Users, NEW t \in Types, NEW n \in Nat,
           n <= purse[u][t], Pay(u, Only(t, n))
    PROVE  /\ Only(t, n) \in Numbers /\ Total(Only(t, n)) = n * Value[t]
           /\ Paid(u, Only(t, n), capacity[u] + Coins(Only(t, n)))
<1>1. /\ Only(t, n) \in Numbers /\ Only(t, n)[t] = n
      /\ \A s \in Types \ {t} : Only(t, n)[s] = 0
      /\ Coins(Only(t, n)) = n /\ Total(Only(t, n)) = n * Value[t]
  BY OnlyCounts
<1>2. \A s \in Types : Only(t, n)[s] <= purse[u][s]
  BY <1>1, OfBody
<1>3. capacity[u] + Coins(Only(t, n)) >= 0
  BY <1>1, OfBody
<1> QED
  BY <1>1, <1>2, <1>3, PayPays

LEMMA GetsOnly ==
    ASSUME TypeOK, NEW u \in Users, NEW t \in Types, NEW n \in Nat,
           Fits(u, n), Pay(u, Only(t, -n))
    PROVE  /\ Only(t, -n) \in Numbers /\ Total(Only(t, -n)) = -(n * Value[t])
           /\ Paid(u, Only(t, -n), capacity[u] + Coins(Only(t, -n)))
<1>1. /\ Only(t, -n) \in Numbers /\ Only(t, -n)[t] = -n
      /\ \A s \in Types \ {t} : Only(t, -n)[s] = 0
      /\ Coins(Only(t, -n)) = -n /\ Total(Only(t, -n)) = (-n) * Value[t]
  BY OnlyCounts
<1>2. \A s \in Types : Only(t, -n)[s] <= purse[u][s]
  BY <1>1, OfBody
<1>3. capacity[u] + Coins(Only(t, -n)) >= 0
  BY <1>1, OfBody DEF Fits
<1>4. (-n) * Value[t] = -(n * Value[t])
  BY OnesAndValue
<1> QED
  BY <1>1, <1>2, <1>3, <1>4, PayPays

LEMMA WorthOfCoins ==
    ASSUME NEW t \in Types, NEW n \in Nat
    PROVE  n * Value[t] \in Nat
BY OnesAndValue

\* What the actions on coins have in common: u pays, nothing is written and
\* nothing is sold, and what the heaps become more is not more than he pays.
LEMMA PaidToHeaps ==
    ASSUME IInv, NEW u \in Alive, NEW pay \in Numbers,
           Paid(u, pay, capacity[u] + Coins(pay)),
           UNCHANGED <<here, dead, bank, file, owner>>,
           floor' \in Purses, box' \in Purses,
           Total(floor') + Total(box') <= Total(floor) + Total(box) + Total(pay)
    PROVE  Keeps
<1>1. TypeOK /\ u \in Users
  BY Alivehere DEF IInv
<1>2. bank' \in [Users -> Purses]
  BY <1>1 DEF TypeOK, Purses
<1>3. IInv'
  BY <1>1, <1>2, PaidKeeps
<1>4. Held \in Int /\ Held' \in Int /\ Total(pay) \in Int /\ Held' = Held - Total(pay)
  BY <1>1, <1>3, PaidOnly DEF IInv
<1>5. Total(floor) \in Int /\ Total(box) \in Int
  BY <1>1, WorthType
<1>6. Total(floor') \in Int /\ Total(box') \in Int
  BY PurseCounts
<1>7. Worth' <= Worth
  BY <1>4, <1>5, <1>6, WorthIs, WorthIsNext
<1> QED
  BY <1>3, <1>7 DEF Keeps

\* Only the heaps change.
LEMMA HeapsOnly ==
    ASSUME IInv, floor' \in Purses, box' \in Purses,
           UNCHANGED <<here, dead, purse, bank, capacity, file, owner>>
    PROVE  IInv' /\ Held \in Int /\ Held' = Held
<1>1. TypeOK' /\ TypeOK
  BY DEF IInv, TypeOK, Purses
<1>2. OnlyTheLivingOwn' /\ FilesFit'
  BY DEF IInv, OnlyTheLivingOwn, FilesFit, Alive, Coins
<1>3. ASSUME NEW v \in Alive' PROVE Load(v)' = MaxCapacity
  <2>1. v \in Alive /\ Load(v)' = Load(v)
    BY DEF Alive, Load, Owned, Coins
  <2> QED
    BY <2>1, LoadIs
<1>4. Held' = Held
  <2>1. ASSUME NEW v \in Users PROVE Wealth(v)' = Wealth(v)
    <3>1. Alive' = Alive /\ GoodsOf(v)' = GoodsOf(v)
      BY DEF Alive, GoodsOf, Owned
    <3> QED
      BY <3>1, WealthOf, WealthOfNext
  <2> QED
    BY <1>1, <2>1, WealthOfNone
<1> QED
  BY <1>1, <1>2, <1>3, <1>4, InvariantOf, WorthType

LEMMA DropKeeps ==
    ASSUME IInv, NEW u \in Users, NEW t \in Types, NEW n \in Nat, Drop(u, t, n)
    PROVE  Keeps
<1>1. TypeOK /\ u \in Alive /\ floor \in Purses /\ box \in Purses
  BY DEF IInv, Drop, TypeOK, Purses
<1>2. /\ Only(t, n) \in Numbers /\ Total(Only(t, n)) = n * Value[t]
      /\ Paid(u, Only(t, n), capacity[u] + Coins(Only(t, n)))
  BY <1>1, PaysOnly DEF Drop
<1>3. /\ IsMore(floor', floor, t, n)
      /\ box' = box /\ UNCHANGED <<here, dead, bank, file, owner>>
  BY DEF Drop, IsMore
<1>4. floor' \in Purses /\ Total(floor') = Total(floor) + (n * Value[t])
  BY <1>1, <1>3, HeapMore
<1>5. Total(floor) \in Int /\ Total(box) \in Int /\ n * Value[t] \in Int
  BY <1>1, WorthType, WorthOfCoins
<1> QED
  BY <1>1, <1>2, <1>3, <1>4, <1>5, PaidToHeaps

LEMMA GetKeeps ==
    ASSUME IInv, NEW u \in Users, NEW t \in Types, NEW n \in Nat, Get(u, t, n)
    PROVE  Keeps
<1>1. TypeOK /\ u \in Alive /\ floor \in Purses /\ box \in Purses
  BY DEF IInv, Get, TypeOK, Purses
<1>2. /\ Only(t, -n) \in Numbers /\ Total(Only(t, -n)) = -(n * Value[t])
      /\ Paid(u, Only(t, -n), capacity[u] + Coins(Only(t, -n)))
  BY <1>1, GetsOnly DEF Get
<1>3. /\ IsLess(floor', floor, t, n) /\ n <= floor[t]
      /\ box' = box /\ UNCHANGED <<here, dead, bank, file, owner>>
  BY DEF Get, IsLess
<1>4. floor' \in Purses /\ Total(floor') = Total(floor) - (n * Value[t])
  BY <1>1, <1>3, HeapLess
<1>5. Total(floor) \in Int /\ Total(box) \in Int /\ n * Value[t] \in Int
  BY <1>1, WorthType, WorthOfCoins
<1> QED
  BY <1>1, <1>2, <1>3, <1>4, <1>5, PaidToHeaps

LEMMA PutIntoKeeps ==
    ASSUME IInv, NEW u \in Users, NEW t \in Types, NEW n \in Nat, PutInto(u, t, n)
    PROVE  Keeps
<1>1. TypeOK /\ u \in Alive /\ floor \in Purses /\ box \in Purses
  BY DEF IInv, PutInto, TypeOK, Purses
<1>2. /\ Only(t, n) \in Numbers /\ Total(Only(t, n)) = n * Value[t]
      /\ Paid(u, Only(t, n), capacity[u] + Coins(Only(t, n)))
  BY <1>1, PaysOnly DEF PutInto
<1>3. /\ IsMore(box', box, t, n)
      /\ floor' = floor /\ UNCHANGED <<here, dead, bank, file, owner>>
  BY DEF PutInto, IsMore
<1>4. box' \in Purses /\ Total(box') = Total(box) + (n * Value[t])
  BY <1>1, <1>3, HeapMore
<1>5. Total(floor) \in Int /\ Total(box) \in Int /\ n * Value[t] \in Int
  BY <1>1, WorthType, WorthOfCoins
<1> QED
  BY <1>1, <1>2, <1>3, <1>4, <1>5, PaidToHeaps

LEMMA SpendKeeps ==
    ASSUME IInv, NEW u \in Users, NEW t \in Types, NEW n \in Nat, Spend(u, t, n)
    PROVE  Keeps
<1>1. TypeOK /\ u \in Alive /\ floor \in Purses /\ box \in Purses
  BY DEF IInv, Spend, TypeOK, Purses
<1>2. /\ Only(t, n) \in Numbers /\ Total(Only(t, n)) = n * Value[t]
      /\ Paid(u, Only(t, n), capacity[u] + Coins(Only(t, n)))
  BY <1>1, PaysOnly DEF Spend
<1>3. UNCHANGED <<here, dead, bank, file, owner>> /\ floor' = floor /\ box' = box
  BY DEF Spend
<1>4. Total(floor) \in Int /\ Total(box) \in Int /\ n * Value[t] \in Nat
  BY <1>1, WorthType, WorthOfCoins
<1> QED
  BY <1>1, <1>2, <1>3, <1>4, PaidToHeaps

\* Coins that are too heavy are gone.
LEMMA GetFromKeeps ==
    ASSUME IInv, NEW u \in Users, NEW t \in Types, NEW n \in Nat, GetFrom(u, t, n)
    PROVE  Keeps
<1>1. TypeOK /\ u \in Alive /\ floor \in Purses /\ box \in Purses
  BY DEF IInv, GetFrom, TypeOK, Purses
<1>2. /\ IsLess(box', box, t, n) /\ n <= box[t]
      /\ floor' = floor /\ UNCHANGED <<here, dead, bank, file, owner>>
  BY DEF GetFrom, IsLess
<1>3. box' \in Purses /\ Total(box') = Total(box) - (n * Value[t])
  BY <1>1, <1>2, HeapLess
<1>4. Total(floor) \in Int /\ Total(box) \in Int /\ n * Value[t] \in Nat
  BY <1>1, WorthType, WorthOfCoins
<1>5. CASE Fits(u, n)
  <2>1. /\ Only(t, -n) \in Numbers /\ Total(Only(t, -n)) = -(n * Value[t])
        /\ Paid(u, Only(t, -n), capacity[u] + Coins(Only(t, -n)))
    BY <1>1, <1>5, GetsOnly DEF GetFrom
  <2> QED
    BY <1>1, <1>2, <1>3, <1>4, <2>1, PaidToHeaps
<1>6. CASE ~Fits(u, n)
  <2>1. UNCHANGED <<purse, capacity>>
    BY <1>6 DEF GetFrom
  <2>2. IInv' /\ Held \in Int /\ Held' = Held
    BY <1>1, <1>2, <1>3, <2>1, HeapsOnly
  <2> QED
    BY <1>2, <1>3, <1>4, <2>2, WorthIs, WorthIsNext DEF Keeps
<1> QED
  BY <1>5, <1>6

LEMMA DecayKeeps ==
    ASSUME IInv, Decay
    PROVE  Keeps
<1>1. TypeOK /\ floor \in Purses /\ box \in Purses
  BY DEF IInv, TypeOK, Purses
<1>2. /\ UNCHANGED <<here, dead, purse, bank, capacity, file, owner>>
      /\ box' = NoCoins /\ floor' = [t \in Types |-> floor[t] + box[t]]
  BY DEF Decay
<1>3. /\ floor' \in Purses
      /\ \A t \in Types : floor'[t] = floor[t] + box[t]
  BY <1>1, <1>2 DEF Purses
<1>4. Total(floor') = Total(floor) + Total(box)
  BY <1>1, <1>3, PurseCounts, PlusCounts
<1>5. box' \in Purses /\ Total(box') = 0
  BY <1>2, NothingCounts
<1>6. IInv' /\ Held \in Int /\ Held' = Held
  BY <1>2, <1>3, <1>5, HeapsOnly
<1>7. Total(floor) \in Int /\ Total(box) \in Int
  BY <1>1, WorthType
<1> QED
  BY <1>4, <1>5, <1>6, <1>7, WorthIs, WorthIsNext DEF Keeps

\* The coins go from one purse to the other, and what they weigh with them.
LEMMA GiveKeeps ==
    ASSUME IInv, NEW u \in Users, NEW v \in Users, NEW t \in Types,
           NEW n \in Nat, Give(u, v, t, n)
    PROVE  Keeps
<1>1. /\ TypeOK /\ u \in Alive /\ v \in Alive /\ u # v
      /\ purse \in [Users -> Purses] /\ purse[u] \in Purses /\ purse[v] \in Purses
      /\ capacity \in [Users -> Nat]
  BY DEF IInv, Give, TypeOK, Purses
<1>2. /\ n <= purse[u][t] /\ n <= capacity[v]
      /\ purse' = [purse EXCEPT ![u][t] = @ - n, ![v][t] = @ + n]
      /\ capacity' = [capacity EXCEPT ![u] = @ + n, ![v] = @ - n]
      /\ UNCHANGED <<here, dead, bank, file, floor, box, owner>>
  BY DEF Give, Given, Fits
<1>3. IsLess(purse'[u], purse[u], t, n) /\ IsMore(purse'[v], purse[v], t, n)
  BY <1>1, <1>2 DEF IsLess, IsMore
<1>4. /\ purse'[u] \in Purses /\ Total(purse'[u]) = Total(purse[u]) - (n * Value[t])
      /\ purse'[v] \in Purses /\ Total(purse'[v]) = Total(purse[v]) + (n * Value[t])
  <2>1. purse'[u] \in Purses /\ Total(purse'[u]) = Total(purse[u]) - (n * Value[t])
    BY <1>1, <1>2, <1>3, HeapLess
  <2>2. purse'[v] \in Purses /\ Total(purse'[v]) = Total(purse[v]) + (n * Value[t])
    BY <1>1, <1>3, HeapMore
  <2> QED
    BY <2>1, <2>2
<1>5. Coins(purse'[u]) = Coins(purse[u]) - n /\ Coins(purse'[v]) = Coins(purse[v]) + n
  <2>1. IsMore(purse'[u], purse[u], t, -n)
    BY <1>1, <1>3 DEF IsLess, IsMore, Purses
  <2>2. -n \in Int /\ n \in Int /\ purse[u] \in Numbers /\ purse[v] \in Numbers
    BY <1>1, PurseCounts
  <2>3. Coins(purse'[u]) = Coins(purse[u]) + (-n)
    BY <2>1, <2>2, MoreCounts
  <2>4. Coins(purse'[v]) = Coins(purse[v]) + n
    BY <1>3, <2>2, MoreCounts
  <2>5. Coins(purse[u]) \in Int
    BY <1>1, PurseCounts
  <2> QED
    BY <2>3, <2>4, <2>5
<1>6. /\ capacity'[u] = capacity[u] + n /\ capacity'[v] = capacity[v] - n
      /\ \A w \in Users \ {u, v} : purse'[w] = purse[w] /\ capacity'[w] = capacity[w]
  BY <1>1, <1>2
<1>7. TypeOK'
  <2>1. \A w \in Users : purse'[w] \in Purses /\ capacity'[w] \in Nat
    BY <1>1, <1>2, <1>4, <1>6
  <2>2. DOMAIN purse' = Users /\ purse' = [w \in Users |-> purse'[w]]
    BY <1>1, <1>2
  <2>3. DOMAIN capacity' = Users /\ capacity' = [w \in Users |-> capacity'[w]]
    BY <1>1, <1>2
  <2>4. purse' \in [Users -> Purses] /\ capacity' \in [Users -> Nat]
    BY <2>1, <2>2, <2>3
  <2> QED
    BY <1>1, <1>2, <2>4 DEF TypeOK, Purses
<1>8. IInv'
  <2>1. OnlyTheLivingOwn' /\ FilesFit'
    BY <1>2 DEF IInv, OnlyTheLivingOwn, FilesFit, Alive, Coins
  <2>2. ASSUME NEW w \in Alive' PROVE Load(w)' = MaxCapacity
    <3>1. w \in Alive /\ w \in Users /\ Load(w) = MaxCapacity /\ Owned(w)' = Owned(w)
      BY <1>1, <1>2, LoadIs, Alivehere DEF Alive, Owned
    <3>2. Load(w)' = capacity'[w] + Coins(purse'[w]) + Cardinality(Owned(w)')
      BY DEF Load, Coins
    <3>3. Load(w) = capacity[w] + Coins(purse[w]) + Cardinality(Owned(w))
      BY DEF Load
    <3>4. capacity'[w] + Coins(purse'[w]) = capacity[w] + Coins(purse[w])
      <4>1. /\ capacity[w] \in Int /\ Coins(purse[w]) \in Int
        BY <1>1, <3>1, OfBody, PurseCounts
      <4>2. CASE w = u
        BY <1>5, <1>6, <4>1, <4>2
      <4>3. CASE w = v
        BY <1>5, <1>6, <4>1, <4>3
      <4>4. CASE w \notin {u, v}
        BY <1>6, <3>1, <4>4
      <4> QED
        BY <4>2, <4>3, <4>4
    <3> QED
      BY <3>1, <3>2, <3>3, <3>4
  <2> QED
    BY <1>7, <2>1, <2>2, InvariantOf
<1>9. Held' = Held
  <2>1. ASSUME NEW w \in Users
        PROVE  /\ GoodsOf(w)' = GoodsOf(w) /\ bank'[w] = bank[w]
               /\ file'[w] = file[w] /\ (w \in Alive' <=> w \in Alive)
    BY <1>2 DEF GoodsOf, Owned, Alive
  <2>2. ASSUME NEW w \in Users \ {u, v} PROVE Wealth(w)' = Wealth(w)
    BY <1>6, <2>1, WealthOf, WealthOfNext
  <2>3. /\ Wealth(u)' = Wealth(u) - (n * Value[t])
        /\ Wealth(v)' = Wealth(v) + (n * Value[t])
    <3>1. ASSUME NEW w \in Alive
          PROVE  /\ Total(purse[w]) \in Int /\ Total(bank[w]) \in Int
                 /\ GoodsOf(w) \in Int
                 /\ Wealth(w) = Total(purse[w]) + Total(bank[w]) + GoodsOf(w)
                 /\ Wealth(w)' = Total(purse'[w]) + Total(bank[w]) + GoodsOf(w)
      <4>1. w \in Users /\ w \in Alive'
        BY <1>1, <1>2, Alivehere DEF Alive
      <4> QED
        BY <1>1, <4>1, <2>1, WealthOf, WealthOfNext, WealthType
    <3>2. n * Value[t] \in Int
      BY WorthOfCoins
    <3> QED
      BY <1>1, <1>4, <3>1, <3>2
  <2>4. /\ Held \in Int /\ Wealth(u) \in Int /\ Wealth(v) \in Int
        /\ Held' = (Held - (Wealth(u) + Wealth(v))) + (Wealth(u)' + Wealth(v)')
    BY <1>1, <1>7, <2>2, WealthOfTwo
  <2>5. n * Value[t] \in Int
    BY WorthOfCoins
  <2> QED
    BY <2>3, <2>4, <2>5
<1>10. Worth \in Int /\ Worth' = Worth
  BY <1>1, <1>2, <1>9, WorthType, WorthIs, WorthIsNext
<1> QED
  BY <1>8, <1>10 DEF Keeps

-----------------------------------------------------------------------------
(* The exchange and the bank                                               *)

\* What \div and % make of an amount
LEMMA Divided ==
    ASSUME NEW a \in Int, NEW b \in Nat \ {0}
    PROVE  /\ a \div b \in Int /\ a % b \in 0..(b - 1) /\ a % b \in Nat
           /\ a = ((a \div b) * b) + (a % b)
           /\ a \in Nat => a \div b \in Nat
           /\ (a % b = 0) => a = (a \div b) * b
OBVIOUS

\* Who changes coins gets no more than he gives; the purse keeps enough.
LEMMA ChangeKeeps ==
    ASSUME IInv, NEW u \in Users, NEW s \in Types, NEW t \in Types,
           NEW n \in Nat, Change(u, s, t, n)
    PROVE  Keeps
<1> DEFINE new  == (n * Value[s]) \div Value[t]
           back == Back(s, t, n)
           m    == n - back
           pay  == [Only(s, n - back) EXCEPT ![t] = -new]
<1>1. /\ TypeOK /\ u \in Alive /\ s # t /\ n <= purse[u][s]
      /\ capacity[u] > new + back - n /\ Pay(u, pay)
      /\ UNCHANGED <<here, dead, bank, file, owner>> /\ floor' = floor /\ box' = box
      /\ floor \in Purses /\ box \in Purses
  BY DEF Change, IInv, TypeOK, Purses
<1>2. /\ new \in Nat /\ back \in Nat
      /\ (new * Value[t]) + (back * Value[s]) <= n * Value[s]
  <2> DEFINE x == n * Value[s]
  <2>1. x \in Nat /\ x \in Int /\ Value[t] \in Nat \ {0} /\ Value[s] \in Nat \ {0}
    BY WorthOfCoins, OnesAndValue
  <2> HIDE DEF x
  <2>2. /\ x \div Value[t] \in Nat /\ x % Value[t] \in Nat
        /\ x = ((x \div Value[t]) * Value[t]) + (x % Value[t])
    BY <2>1, Divided
  <2> DEFINE y == x % Value[t]
  <2>3. y \in Nat /\ y \in Int
    BY <2>2
  <2> HIDE DEF y
  <2>4. /\ y \div Value[s] \in Nat /\ y % Value[s] \in Nat
        /\ y = ((y \div Value[s]) * Value[s]) + (y % Value[s])
    BY <2>1, <2>3, Divided
  <2>5. new = x \div Value[t] /\ back = y \div Value[s]
    BY DEF x, y, Back
  <2>6. /\ (x \div Value[t]) * Value[t] \in Int
        /\ (y \div Value[s]) * Value[s] \in Int
    BY <2>1, <2>2, <2>4
  <2>7. (new * Value[t]) + (back * Value[s]) <= x
    <3>1. x = (new * Value[t]) + y
      BY <2>2, <2>5 DEF y
    <3>2. y = (back * Value[s]) + (y % Value[s])
      BY <2>4, <2>5
    <3> QED
      BY <3>1, <3>2, <2>1, <2>3, <2>4, <2>5, <2>6
  <2> QED
    BY <2>2, <2>4, <2>5, <2>7 DEF x
<1> HIDE DEF new, back
<1>3. m \in Int /\ -new \in Int
  BY <1>2
<1>4. /\ OfTwo(pay, s, m, t, -new) /\ Coins(pay) = m + (-new)
      /\ Total(pay) = (m * Value[s]) + ((-new) * Value[t])
  <2> HIDE DEF m
  <2>1. IsTwo(pay, s, m, t, -new)
    BY DEF m, IsTwo
  <2> HIDE DEF pay
  <2>2. s \in Types /\ t \in Types /\ s # t
    BY <1>1
  <2> QED
    BY ONLY <1>3, <2>1, <2>2, TwoCount
<1>5. pay \in Numbers /\ \A r \in Types : pay[r] <= purse[u][r]
  <2>1. /\ pay \in Numbers /\ pay[s] = m /\ pay[t] = -new
        /\ \A r \in Types \ {s, t} : pay[r] = 0
    BY <1>4 DEF OfTwo
  <2> HIDE DEF pay
  <2>2. \A r \in Types : purse[u][r] \in Nat
    BY <1>1, OfBody
  <2>3. pay[s] <= purse[u][s]
    BY <1>1, <1>2, <2>1, <2>2
  <2>4. pay[t] <= purse[u][t]
    BY <1>2, <2>1, <2>2
  <2> QED
    BY <2>1, <2>2, <2>3, <2>4
<1> HIDE DEF pay
<1>6. capacity[u] + Coins(pay) >= 0
  BY <1>1, <1>2, <1>4, OfBody
<1>7. Paid(u, pay, capacity[u] + Coins(pay))
  BY <1>1, <1>5, <1>6, PayPays
<1>8. Total(pay) >= 0 /\ Total(pay) \in Int
  <2>1. /\ Value[s] \in Nat /\ Value[s] \in Int
        /\ Value[t] \in Nat /\ Value[t] \in Int
        /\ n \in Int /\ back \in Int /\ new \in Int
    BY <1>2, OnesAndValue
  <2>0. \A a, b, c \in Int : (a - b) * c = (a * c) - (b * c) /\ (-a) * c = -(a * c)
    OBVIOUS
  <2>2. /\ m * Value[s] = (n * Value[s]) - (back * Value[s])
        /\ (-new) * Value[t] = -(new * Value[t])
    BY <1>2, <2>0, <2>1
  <2>3. /\ n * Value[s] \in Int /\ back * Value[s] \in Int /\ new * Value[t] \in Int
    BY <1>2, <2>1
  <2> QED
    BY <1>2, <1>4, <2>2, <2>3
<1>9. Total(floor) \in Int /\ Total(box) \in Int
  BY <1>1, WorthType
<1> QED
  BY <1>1, <1>5, <1>7, <1>8, <1>9, PaidToHeaps

\* What bank' of one account is
LEMMA AccountIs ==
    ASSUME TypeOK, NEW w \in Users, NEW p \in Purses, bank' = [bank EXCEPT ![w] = p]
    PROVE  /\ bank' \in [Users -> Purses] /\ bank'[w] = p
           /\ \A v \in Users \ {w} : bank'[v] = bank[v]
<1>1. bank \in [Users -> Purses]
  BY DEF TypeOK, Purses
<1> QED
  BY <1>1

\* u pays, or gets, what the bank gives to w's balance, or takes from it.
LEMMA PaidToBank ==
    ASSUME IInv, NEW u \in Alive, NEW w \in Alive, NEW pay \in Numbers,
           Paid(u, pay, capacity[u] + Coins(pay)),
           UNCHANGED <<here, dead, file, floor, box, owner>>,
           bank' \in [Users -> Purses], Credited(w, Total(pay))
    PROVE  Keeps
<1>1. TypeOK /\ u \in Users /\ floor' \in Purses /\ box' \in Purses
  BY Alivehere DEF IInv, TypeOK, Purses
<1>2. IInv'
  BY <1>1, PaidKeeps
<1>3. OthersOwn(u) /\ GoodsOf(u)' = GoodsOf(u)
  BY DEF OthersOwn, Owned, GoodsOf
<1>4. Total(pay) \in Int
  BY NumbersCount
<1>5. /\ Held \in Int /\ Held' \in Int
      /\ GoodsOf(u) \in Int /\ GoodsOf(u)' \in Int
      /\ Held' = (Held - Total(pay)) + Total(pay) + (GoodsOf(u)' - GoodsOf(u))
  BY <1>1, <1>2, <1>3, <1>4, PaidWorth DEF IInv
<1>6. Held' = Held
  BY <1>3, <1>4, <1>5
<1>7. Worth \in Int /\ Worth' = Worth
  BY <1>1, <1>6, WorthType, WorthIs, WorthIsNext
<1> QED
  BY <1>2, <1>7 DEF Keeps

LEMMA DepositKeeps ==
    ASSUME IInv, NEW u \in Users, NEW w \in Users, NEW t \in Types,
           NEW n \in Nat, Deposit(u, w, t, n)
    PROVE  Keeps
<1>1. /\ TypeOK /\ u \in Alive /\ floor \in Purses /\ box \in Purses
      /\ bank[w] \in Purses
      /\ UNCHANGED <<here, dead, file, floor, box, owner>>
  BY DEF IInv, Deposit, TypeOK, Purses
<1>2. /\ Only(t, n) \in Numbers /\ Total(Only(t, n)) = n * Value[t]
      /\ Paid(u, Only(t, n), capacity[u] + Coins(Only(t, n)))
  BY <1>1, PaysOnly DEF Deposit
<1>3. CASE w \in Alive
  <2> DEFINE p == [bank[w] EXCEPT ![t] = @ + n]
  <2>1. IsMore(p, bank[w], t, n)
    BY DEF IsMore
  <2>2. bank' = [bank EXCEPT ![w] = p]
    BY <1>1, <1>3 DEF Deposit, TypeOK
  <2> HIDE DEF p
  <2>3. p \in Purses /\ Total(p) = Total(bank[w]) + (n * Value[t])
    BY <1>1, <2>1, HeapMore
  <2>4. bank' \in [Users -> Purses] /\ Credited(w, Total(Only(t, n)))
    <3>1. /\ bank' \in [Users -> Purses] /\ bank'[w] = p
          /\ \A v \in Users \ {w} : bank'[v] = bank[v]
      BY <1>1, <2>2, <2>3, AccountIs
    <3> QED
      BY <1>2, <2>3, <3>1 DEF Credited
  <2> QED
    BY <1>1, <1>2, <1>3, <2>4, PaidToBank
<1>4. CASE w \notin Alive
  <2>1. bank' = bank
    BY <1>4 DEF Deposit
  <2>2. Total(floor) \in Int /\ Total(box) \in Int /\ n * Value[t] \in Nat
    BY <1>1, WorthType, WorthOfCoins
  <2> QED
    BY <1>1, <1>2, <2>1, <2>2, PaidToHeaps
<1> QED
  BY <1>3, <1>4

\* The kind taken from the balance is worth exactly what is paid out.
LEMMA WithdrawKeeps ==
    ASSUME IInv, NEW u \in Users, NEW w \in Users, NEW t \in Types,
           NEW n \in Nat, Withdraw(u, w, t, n)
    PROVE  Keeps
<1> DEFINE tried == <<t>> \o Kinds
           can   == {i \in DOMAIN tried : Covers(w, t, n, tried[i])}
           s     == tried[Min(can)]
           k     == (n * Value[t]) \div Value[s]
<1>1. /\ TypeOK /\ u \in Alive /\ w \in Alive /\ Fits(u, n) /\ Pay(u, Only(t, -n))
      /\ bank[w] \in Purses /\ can # {}
      /\ bank' = [bank EXCEPT ![w][s] = @ - k]
      /\ UNCHANGED <<here, dead, file, floor, box, owner>>
  BY DEF IInv, Withdraw, TypeOK, Purses
<1>2. s \in Types /\ Covers(w, t, n, s)
  <2>1. tried \in Seq(Types)
    BY EconomyAssumption
  <2>2. can \in SUBSET Nat
    BY <2>1
  <2>3. Min(can) \in can
    <3> HIDE DEF can
    <3> QED
      BY <1>1, <2>2, LeastPlace
  <2> DEFINE m == Min(can)
  <2>4. m \in DOMAIN tried /\ Covers(w, t, n, tried[m])
    <3> HIDE DEF m
    <3> SUFFICES ASSUME m \in can
                 PROVE  m \in DOMAIN tried /\ Covers(w, t, n, tried[m])
      BY <2>3 DEF m
    <3> QED
      OBVIOUS
  <2>5. tried[m] \in Types
    <3> HIDE DEF m, tried
    <3> QED
      BY <2>1, <2>4
  <2> QED
    BY <2>4, <2>5
<1> HIDE DEF s
<1>3. k \in Nat /\ k <= bank[w][s] /\ k * Value[s] = n * Value[t]
  <2> DEFINE x == n * Value[t]
  <2>1. x \in Nat /\ x \in Int /\ Value[s] \in Nat \ {0}
    BY <1>2, WorthOfCoins, OnesAndValue
  <2>2. x % Value[s] = 0 /\ bank[w][s] >= k
    BY <1>2 DEF Covers
  <2>3. bank[w][s] \in Nat
    BY <1>1, <1>2, OfBody
  <2>4. k = x \div Value[s]
    OBVIOUS
  <2> HIDE DEF x, k
  <2>5. x \div Value[s] \in Nat /\ x = (x \div Value[s]) * Value[s]
    BY <2>1, <2>2, Divided
  <2> QED
    BY <2>2, <2>3, <2>4, <2>5 DEF x
<1> HIDE DEF k
<1>4. /\ Only(t, -n) \in Numbers /\ Total(Only(t, -n)) = -(n * Value[t])
      /\ Paid(u, Only(t, -n), capacity[u] + Coins(Only(t, -n)))
  BY <1>1, GetsOnly
<1> DEFINE p == [bank[w] EXCEPT ![s] = @ - k]
<1>5. IsLess(p, bank[w], s, k)
  BY DEF IsLess
<1>6. bank' = [bank EXCEPT ![w] = p]
  BY <1>1 DEF TypeOK
<1> HIDE DEF p
<1>7. p \in Purses /\ Total(p) = Total(bank[w]) - (k * Value[s])
  BY <1>1, <1>2, <1>3, <1>5, HeapLess
<1>8. bank' \in [Users -> Purses] /\ Credited(w, Total(Only(t, -n)))
  <2>1. /\ bank' \in [Users -> Purses] /\ bank'[w] = p
        /\ \A v \in Users \ {w} : bank'[v] = bank[v]
    BY <1>1, <1>6, <1>7, AccountIs
  <2>2. Total(bank[w]) \in Int /\ n * Value[t] \in Int
    BY <1>1, PurseCounts, WorthOfCoins
  <2> QED
    BY <1>3, <1>4, <1>7, <2>1, <2>2 DEF Credited
<1> QED
  BY <1>1, <1>4, <1>8, PaidToBank

-----------------------------------------------------------------------------
(* The shop                                                                *)

\* A list of lists, one after the other, holds nothing else.
LEMMA Flattened ==
    ASSUME NEW S, NEW ss \in Seq(Seq(S))
    PROVE  FlattenSeq(ss) \in Seq(S)
<1> DEFINE n == Len(ss)
           V == Seq(S)
           v == <<>>
           F == [i \in 1..n |-> [x \in V |-> x \o ss[i]]]
           Is(f) == f = [i \in 1..n |-> IF i = 1 THEN ss[i] ELSE f[i - 1] \o ss[i]]
           c == CHOOSE f : Is(f)
<1>1. n \in Nat /\ v \in V /\ \A i \in 1..n : ss[i] \in V
  OBVIOUS
<1>2. F \in [1..n -> [V -> V]]
  <2>1. ASSUME NEW i \in 1..n PROVE [x \in V |-> x \o ss[i]] \in [V -> V]
    BY <1>1
  <2> HIDE DEF V, n
  <2> QED
    BY <2>1
<1>3. PICK h \in [0..n -> V] : StepByStep(h, n, v, F)
  <2> HIDE DEF n, V, v, F
  <2> QED
    BY <1>1, <1>2, Defined
<1>4. \A i \in 1..n : h[i] = h[i - 1] \o ss[i] /\ h[i - 1] \in V
  <2>1. ASSUME NEW i \in 1..n PROVE h[i] = h[i - 1] \o ss[i] /\ h[i - 1] \in V
    <3>1. i \in 0..n /\ i # 0 /\ i - 1 \in 0..n
      BY <1>1
    <3>2. h[i] = F[i][h[i - 1]] /\ h[i - 1] \in V
      <4> HIDE DEF n, V, v, F
      <4> QED
        BY <3>1, <1>3 DEF StepByStep
    <3> QED
      BY <3>2
  <2> QED
    BY <2>1
<1>5. h[0] = <<>>
  BY <1>1, <1>3 DEF StepByStep
<1>6. \E f : Is(f)
  <2> DEFINE f == [i \in 1..n |-> h[i]]
  <2>1. ASSUME NEW i \in 1..n
        PROVE  h[i] = IF i = 1 THEN ss[i] ELSE f[i - 1] \o ss[i]
    <3>1. CASE i = 1
      <4>1. i - 1 = 0
        BY <3>1
      <4>2. h[i] = <<>> \o ss[i]
        BY <4>1, <1>4, <1>5
      <4>3. ss[i] \in Seq(S)
        BY <1>1
      <4> QED
        BY <3>1, <4>2, <4>3
    <3>2. CASE i # 1
      <4>1. i - 1 \in 1..n
        BY <1>1, <3>2
      <4> QED
        BY <3>2, <4>1, <1>4
    <3> QED
      BY <3>1, <3>2
  <2>2. Is(f)
    BY <2>1
  <2> QED
    BY <2>2
<1>7. Is(c)
  <2> HIDE DEF Is
  <2> QED
    BY <1>6
<1>8. FlattenSeq(ss) = IF n = 0 THEN ss ELSE c[n]
  BY DEF FlattenSeq
<1> HIDE DEF c
<1> DEFINE K == {i \in 0..n : i = 0 \/ c[i] \in V}
<1>9. 0 \in K
  BY <1>1
<1>10. ASSUME NEW i \in 0..(n - 1), i \in K PROVE i + 1 \in K
  <2>1. i + 1 \in 1..n /\ (i + 1) - 1 = i
    BY <1>1
  <2>2. c[i + 1] = IF i + 1 = 1 THEN ss[i + 1] ELSE c[i] \o ss[i + 1]
    BY <1>7, <2>1
  <2>3. ss[i + 1] \in V /\ (i = 0 \/ c[i] \in V)
    BY <1>1, <1>10, <2>1
  <2>4. c[i + 1] \in V
    BY <2>1, <2>2, <2>3
  <2> QED
    BY <2>1, <2>4
<1>11. \A i \in 0..n : i \in K
  <2> HIDE DEF K, n
  <2> QED
    BY <1>1, <1>9, <1>10, Counting
<1>12. CASE n = 0
  BY <1>8, <1>12
<1>13. CASE n # 0
  BY <1>1, <1>8, <1>11, <1>13
<1> QED
  BY <1>12, <1>13

\* Where the value of one kind is a multiple of another's, so is any number of
\* coins of it, and the difference of two such amounts.
Whole(x, b) == (x \div b) * b = x /\ x \div b \in Int

LEMMA Multiples ==
    ASSUME NEW a \in Int, NEW c \in Int, NEW m \in Int, NEW b \in Nat \ {0},
           m % b = 0
    PROVE  /\ Whole(c * m, b)
           /\ Whole((a * b) - (c * m), b) /\ Whole((c * m) - (a * b), b)
<1> DEFINE q == m \div b
<1>1. q \in Int /\ m = q * b /\ b \in Int
  BY Divided
<1>2. \A x, y \in Int : x = y * b => (x \div b) * b = x /\ x \div b \in Int
  OBVIOUS
<1> HIDE DEF q
<1>3. c * m = (c * q) * b /\ c * q \in Int /\ c * m \in Int /\ a * b \in Int
  BY <1>1
<1>4. /\ (a * b) - (c * m) = (a - (c * q)) * b
      /\ (c * m) - (a * b) = ((c * q) - a) * b
  <2>1. \A x, y, z \in Int : (x - y) * z = (x * z) - (y * z)
    OBVIOUS
  <2> QED
    BY <1>1, <1>3, <2>1
<1>5. a - (c * q) \in Int /\ (c * q) - a \in Int
  BY <1>3
<1>6. (a * b) - (c * m) \in Int /\ (c * m) - (a * b) \in Int
  BY <1>3
<1> QED
  BY <1>2, <1>3, <1>4, <1>5, <1>6 DEF Whole

\* Whatever buy() tries is worth the price, exactly.
Exact(t, n) == {pay \in Numbers : Total(pay) = n * Value[t]}

LEMMA ExactTwo ==
    ASSUME NEW s \in Types, NEW t \in Types, s # t, NEW i \in Int, NEW j \in Int,
           NEW n \in Int, (i * Value[s]) + (j * Value[t]) = n * Value[t],
           NEW p, IsTwo(p, s, i, t, j)
    PROVE  p \in Exact(t, n)
<1>1. s \in Types /\ t \in Types /\ s # t /\ i \in Int /\ j \in Int
  OBVIOUS
<1>2. OfTwo(p, s, i, t, j) /\ Total(p) = (i * Value[s]) + (j * Value[t])
  BY ONLY <1>1, IsTwo(p, s, i, t, j), TwoCount
<1> QED
  BY <1>2 DEF Exact, OfTwo

LEMMA MixedExact ==
    ASSUME NEW t \in Types, NEW s, Multiple(s, t), NEW n \in Int, NEW new \in Int
    PROVE  Mixed(t, n, s, new) \in Exact(t, n)
<1>1. /\ s \in Types /\ s # t /\ Value[s] % Value[t] = 0
      /\ Value[s] \in Int /\ Value[t] \in Nat \ {0} /\ Value[t] \in Int
  BY OnesAndValue DEF Multiple
<1> DEFINE j == ((n * Value[t]) - (new * Value[s])) \div Value[t]
<1>2. j \in Int /\ j * Value[t] = (n * Value[t]) - (new * Value[s])
  <2>1. Whole((n * Value[t]) - (new * Value[s]), Value[t])
    BY <1>1, Multiples
  <2> QED
    BY <2>1 DEF Whole
<1>3. IsTwo(Mixed(t, n, s, new), s, new, t, j)
  BY DEF IsTwo, Mixed
<1> HIDE DEF j
<1>4. (new * Value[s]) + (j * Value[t]) = n * Value[t]
  <2>1. n * Value[t] \in Int /\ new * Value[s] \in Int
    BY <1>1
  <2> QED
    BY <1>2, <2>1
<1> QED
  BY <1>1, <1>2, <1>3, <1>4, ExactTwo

LEMMA OffersUpExact ==
    ASSUME NEW t \in Types, NEW s, Multiple(s, t), NEW n \in Int, NEW k \in Int
    PROVE  OffersUp(t, n, k, s) \in Seq(Exact(t, n))
<1>1. Value[s] \in Nat \ {0} /\ Value[t] \in Int
  BY OnesAndValue DEF Multiple
<1> DEFINE b == ((n - k) * Value[t]) \div Value[s]
           more == IF (n * Value[t]) - (b * Value[s]) > k * Value[t] THEN 1 ELSE 0
<1>2. (n * Value[t]) \div Value[s] \in Int /\ b \in Int
  <2>1. n * Value[t] \in Int /\ (n - k) * Value[t] \in Int
    BY <1>1
  <2> QED
    BY <1>1, <2>1, Divided
<1>3. more \in Int
  OBVIOUS
<1>4. OffersUp(t, n, k, s)
         = <<Mixed(t, n, s, (n * Value[t]) \div Value[s]), Mixed(t, n, s, b + more)>>
  BY DEF OffersUp
<1> HIDE DEF b, more
<1>5. b + more \in Int
  BY <1>2, <1>3
<1>6. /\ Mixed(t, n, s, (n * Value[t]) \div Value[s]) \in Exact(t, n)
      /\ Mixed(t, n, s, b + more) \in Exact(t, n)
  BY <1>2, <1>5, MixedExact
<1> QED
  BY <1>4, <1>6

LEMMA OfferDownExact ==
    ASSUME NEW t \in Types, NEW s, Multiple(t, s), NEW n \in Int, NEW k \in Int
    PROVE  OfferDown(t, n, k, s) \in Exact(t, n)
<1>1. /\ s \in Types /\ s # t /\ Value[t] % Value[s] = 0
      /\ Value[t] \in Int /\ Value[s] \in Nat \ {0}
  BY OnesAndValue DEF Multiple
<1> DEFINE i == ((n - k) * Value[t]) \div Value[s]
<1>2. i \in Int /\ i * Value[s] = (n - k) * Value[t]
  <2>1. n - k \in Int
    OBVIOUS
  <2>2. Whole((n - k) * Value[t], Value[s])
    BY <1>1, <2>1, Multiples
  <2> QED
    BY <2>2 DEF Whole
<1>3. IsTwo(OfferDown(t, n, k, s), s, i, t, k)
  BY DEF IsTwo, OfferDown
<1> HIDE DEF i
<1>4. (i * Value[s]) + (k * Value[t]) = n * Value[t]
  <2>1. \A x, y, z \in Int : ((x - y) * z) + (y * z) = x * z
    OBVIOUS
  <2> QED
    BY <1>1, <1>2, <2>1
<1> QED
  BY <1>1, <1>2, <1>3, <1>4, ExactTwo

LEMMA OfferChangeExact ==
    ASSUME NEW t \in Types, NEW s, Multiple(s, t), NEW n \in Int
    PROVE  OfferChange(t, n, s) \in Exact(t, n)
<1> DEFINE i == Changed(t, n, s)
           j == ((i * Value[s]) - (n * Value[t])) \div Value[t]
<1>1. /\ s \in Types /\ s # t /\ Value[s] % Value[t] = 0
      /\ Value[s] \in Int /\ Value[s] \in Nat \ {0}
      /\ Value[t] \in Int /\ Value[t] \in Nat \ {0}
  BY OnesAndValue DEF Multiple
<1>2. i \in Int
  <2>1. (n * Value[t]) + Value[s] - 1 \in Int
    BY <1>1
  <2> QED
    BY <1>1, <2>1, Divided DEF Changed
<1>3. IsTwo(OfferChange(t, n, s), s, i, t, -j)
  BY DEF IsTwo, OfferChange
<1> HIDE DEF i
<1>4. j \in Int /\ j * Value[t] = (i * Value[s]) - (n * Value[t])
  <2>1. Whole((i * Value[s]) - (n * Value[t]), Value[t])
    BY <1>1, <1>2, Multiples
  <2> QED
    BY <2>1 DEF Whole
<1> HIDE DEF j
<1>5. (i * Value[s]) + ((-j) * Value[t]) = n * Value[t]
  <2>1. \A x, y \in Int : (-x) * y = -(x * y)
    OBVIOUS
  <2>2. i * Value[s] \in Int /\ n * Value[t] \in Int
    BY <1>1, <1>2
  <2> QED
    BY <1>1, <1>4, <2>1, <2>2
<1>6. -j \in Int
  BY <1>4
<1> QED
  BY <1>1, <1>2, <1>3, <1>5, <1>6, ExactTwo

LEMMA OffersExact ==
    ASSUME NEW t \in Types, NEW n \in Int, NEW k \in Int
    PROVE  Offers(t, n, k) \in Seq(Exact(t, n))
<1> DEFINE up   == Higher(t)
           down == Lower(t)
           E    == Exact(t, n)
           ups  == [i \in DOMAIN up |-> OffersUp(t, n, k, up[i])]
           downs == [i \in DOMAIN down |-> OfferDown(t, n, k, down[i])]
           changes == [i \in DOMAIN up |-> OfferChange(t, n, up[i])]
<1>1. /\ \A i \in DOMAIN up : Multiple(up[i], t)
      /\ \A i \in DOMAIN down : Multiple(t, down[i])
  BY KindsInOrder
<1>2. \E m \in Nat : DOMAIN up = 1..m
  <2>1. Place(t) - 1 \in Nat /\ DOMAIN up = 1..(Place(t) - 1)
    BY KindsInOrder, EconomyAssumption DEF Higher
  <2> QED
    BY <2>1
<1>3. \E m \in Nat : DOMAIN down = 1..m
  <2>1. Place(t) \in 1..Len(Kinds) /\ Len(Kinds) \in Nat
    BY KindsInOrder, EconomyAssumption
  <2>2. Len(Kinds) - Place(t) \in Nat /\ DOMAIN down = 1..(Len(Kinds) - Place(t))
    BY <2>1 DEF Lower
  <2> QED
    BY <2>2
<1> HIDE DEF up, down
<1>4. ups \in Seq(Seq(E))
  <2>1. \A i \in DOMAIN up : OffersUp(t, n, k, up[i]) \in Seq(E)
    BY <1>1, OffersUpExact
  <2> HIDE DEF E
  <2> QED
    BY <1>2, <2>1
<1>5. downs \in Seq(E)
  <2>1. \A i \in DOMAIN down : OfferDown(t, n, k, down[i]) \in E
    BY <1>1, OfferDownExact
  <2> HIDE DEF E
  <2> QED
    BY <1>3, <2>1
<1>6. changes \in Seq(E)
  <2>1. \A i \in DOMAIN up : OfferChange(t, n, up[i]) \in E
    BY <1>1, OfferChangeExact
  <2> HIDE DEF E
  <2> QED
    BY <1>2, <2>1
<1>7. <<Only(t, n)>> \in Seq(E)
  <2>1. Only(t, n) \in E
    BY OnlyCounts DEF Exact
  <2> HIDE DEF E
  <2> QED
    BY <2>1
<1>8. Offers(t, n, k) = IF k >= n THEN <<Only(t, n)>>
                        ELSE FlattenSeq(ups) \o downs \o changes
  BY DEF Offers, up, down
<1>9. FlattenSeq(ups) \in Seq(E)
  <2> HIDE DEF E, ups
  <2> QED
    BY <1>4, Flattened
<1> HIDE DEF E, ups, downs, changes
<1>10. Offers(t, n, k) \in Seq(E)
  BY <1>5, <1>6, <1>7, <1>8, <1>9
<1> QED
  BY <1>10 DEF E

\* u pays for a good, or is paid for it: its weight, d, is made up for by the
\* capacity, c, and its price, e, by the coins.
Trade(u, pay, c, d, e) ==
    /\ Paid(u, pay, c) /\ OthersOwn(u)
    /\ Cardinality(Owned(u)') = Cardinality(Owned(u)) + d
    /\ GoodsOf(u)' = GoodsOf(u) + e
    /\ c + d = capacity[u] + Coins(pay) /\ e <= Total(pay)

LEMMA TradeKeeps ==
    ASSUME IInv, NEW u \in Alive, NEW pay \in Numbers,
           NEW c \in Int, NEW d \in Int, NEW e \in Int, Trade(u, pay, c, d, e),
           UNCHANGED <<here, dead, bank, file, floor, box>>,
           owner' \in [Goods -> Alive \cup {None}]
    PROVE  Keeps
<1>1. /\ TypeOK /\ u \in Users /\ Alive' = Alive
      /\ bank \in [Users -> Purses] /\ bank[u] \in Purses
  BY Alivehere DEF IInv, TypeOK, Purses, Alive
<1>2. TypeOK'
  <2>1. owner' \in [Goods -> Users \cup {None}]
    BY <1>1, Alivehere
  <2> QED
    BY <1>1, <2>1 DEF TypeOK, Trade, Paid, Purses
<1>3. IInv'
  <2>1. OnlyTheLivingOwn' /\ FilesFit'
    BY <1>1 DEF IInv, OnlyTheLivingOwn, FilesFit, Coins
  <2>2. ASSUME NEW v \in Alive' PROVE Load(v)' = MaxCapacity
    <3>1. v \in Alive /\ v \in Users /\ Load(v) = MaxCapacity
      BY <1>1, LoadIs, Alivehere
    <3>2. Load(v)' = capacity'[v] + Coins(purse'[v]) + Cardinality(Owned(v)')
      BY DEF Load, Coins
    <3>3. Load(v) = capacity[v] + Coins(purse[v]) + Cardinality(Owned(v))
      BY DEF Load
    <3>4. CASE v # u
      <4>1. /\ purse'[v] = purse[v] /\ capacity'[v] = capacity[v]
            /\ Owned(v)' = Owned(v)
        BY <3>1, <3>4 DEF Trade, Paid, OthersOwn
      <4> QED
        BY <3>1, <3>2, <3>3, <4>1
    <3>5. CASE v = u
      <4>1. /\ capacity'[v] = c /\ Coins(purse'[v]) = Coins(purse[v]) - Coins(pay)
            /\ Cardinality(Owned(v)') = Cardinality(Owned(v)) + d
            /\ c + d = capacity[v] + Coins(pay)
        BY <3>5 DEF Trade, Paid
      <4>2. /\ capacity[v] \in Int /\ Coins(pay) \in Int /\ Coins(purse[v]) \in Int
            /\ Cardinality(Owned(v)) \in Int
        <5>1. Owned(v) \in SUBSET Goods
          BY DEF Owned
        <5>2. Cardinality(Owned(v)) \in Nat
          BY <5>1, GoodsCount, FS_CardinalityType
        <5> QED
          BY <1>1, <3>1, <5>2, OfBody, PurseCounts, NumbersCount
      <4> QED
        BY <3>1, <3>2, <3>3, <4>1, <4>2
    <3> QED
      BY <3>4, <3>5
  <2> QED
    BY <1>2, <2>1, <2>2, InvariantOf
<1>4. 0 \in Int /\ Credited(u, 0)
  <2>1. Total(bank[u]) \in Int
    BY <1>1, PurseCounts
  <2> QED
    BY <2>1 DEF Credited
<1>5. Paid(u, pay, c) /\ OthersOwn(u)
  BY DEF Trade
<1>6. /\ Held \in Int /\ Held' \in Int
      /\ GoodsOf(u) \in Int /\ GoodsOf(u)' \in Int /\ Total(pay) \in Int
      /\ Held' = (Held - Total(pay)) + 0 + (GoodsOf(u)' - GoodsOf(u))
  BY <1>1, <1>2, <1>4, <1>5, PaidWorth
<1>7. Held' <= Held
  BY <1>6 DEF Trade
<1>8. Total(floor) \in Int /\ Total(box) \in Int
  BY <1>1, WorthType
<1>9. Worth' <= Worth
  BY <1>6, <1>7, <1>8, WorthIs, WorthIsNext
<1> QED
  BY <1>3, <1>9 DEF Keeps

\* One good more, or less
LEMMA GoodMore ==
    ASSUME NEW S \in SUBSET Goods, NEW g \in Goods, g \notin S
    PROVE  /\ Cardinality(S \cup {g}) = Cardinality(S) + 1
           /\ Cardinality(S) \in Int
           /\ SumFunctionOnSet(Costs, S \cup {g})
                 = SumFunctionOnSet(Costs, S) + Costs[g]
           /\ Costs[g] \in Int /\ SumFunctionOnSet(Costs, S) \in Int
<1>1. IsFiniteSet(S) /\ IsFiniteSet(S \cup {g}) /\ \A x \in S \cup {g} : Costs[x] \in Int
  BY GoodsCount
<1>2. Cardinality(S \cup {g}) = Cardinality(S) + 1 /\ Cardinality(S) \in Int
  BY <1>1, FS_AddElement, FS_CardinalityType
<1>3. (S \cup {g}) \ {g} = S
  OBVIOUS
<1>4. SumFunctionOnSet(Costs, S \cup {g})
         = Costs[g] + SumFunctionOnSet(Costs, (S \cup {g}) \ {g})
  BY <1>1, SumTakesOut
<1>5. Costs[g] \in Int /\ SumFunctionOnSet(Costs, S) \in Int
  BY <1>1, GoodsCount
<1>6. SumFunctionOnSet(Costs, S \cup {g}) = Costs[g] + SumFunctionOnSet(Costs, S)
  BY ONLY <1>3, <1>4
<1>7. \A x, y \in Int : x + y = y + x
  OBVIOUS
<1> QED
  BY ONLY <1>2, <1>5, <1>6, <1>7

LEMMA BuyKeeps ==
    ASSUME IInv, NEW u \in Users, NEW g \in Goods, Buy(u, g)
    PROVE  Keeps
<1> DEFINE t     == Price[g].type
           n     == Price[g].num
           offers == Offers(t, n, purse[u][t])
           can   == Affordable(purse[u], offers)
           first == Min(can)
           pay   == offers[first]
           c     == capacity[u] + Coins(pay) - 1
<1>1. /\ TypeOK /\ u \in Alive /\ owner[g] = None /\ can # {}
      /\ capacity[u] + Coins(pay) >= 1
      /\ purse' = [purse EXCEPT ![u] = [s \in Types |-> @[s] - pay[s]]]
      /\ capacity' = [capacity EXCEPT ![u] = c]
      /\ owner' = [owner EXCEPT ![g] = u]
      /\ UNCHANGED <<here, dead, bank, file, floor, box>>
  BY DEF IInv, Buy, TypeOK
<1>2. /\ t \in Types /\ n \in Int /\ n * Value[t] = Costs[g]
      /\ purse[u][t] \in Int /\ owner \in [Goods -> Users \cup {None}]
      /\ None \notin Users /\ purse \in [Users -> Purses]
  <2>1. t \in Types /\ n \in Int /\ None \notin Users
    BY EconomyAssumption
  <2>2. purse[u][t] \in Int
    BY <1>1, <2>1, OfBody
  <2>3. owner \in [Goods -> Users \cup {None}] /\ purse \in [Users -> Purses]
    BY <1>1 DEF TypeOK, Purses
  <2>4. n * Value[t] = Costs[g]
    BY GoodsCount
  <2> QED
    BY <2>1, <2>2, <2>3, <2>4
<1>3. pay \in Exact(t, n) /\ \A s \in Types : pay[s] <= purse[u][s]
  <2>1. offers \in Seq(Exact(t, n))
    BY <1>2, OffersExact
  <2>2. can = {i \in 1..Len(offers) :
                 \A s \in Types : purse[u][s] >= offers[i][s]}
    <3> HIDE DEF offers
    <3> QED
      BY <2>1 DEF Affordable
  <2>3. can \in SUBSET Nat
    BY <2>1, <2>2
  <2>4. first \in can
    <3> HIDE DEF can
    <3> QED
      BY <1>1, <2>3, LeastPlace
  <2>5. first \in 1..Len(offers) /\ \A s \in Types : purse[u][s] >= offers[first][s]
    <3> HIDE DEF can, first, offers
    <3> QED
      BY <2>2, <2>4
  <2>6. offers[first] \in Exact(t, n)
    <3> HIDE DEF can, first, offers
    <3> QED
      BY <2>1, <2>5
  <2>7. offers[first] \in Numbers
    BY <2>6 DEF Exact
  <2>8. \A s \in Types : offers[first][s] \in Int /\ purse[u][s] \in Int
    BY <1>1, <2>7, OfBody DEF Numbers
  <2> HIDE DEF can, first, offers
  <2>9. \A s \in Types : offers[first][s] <= purse[u][s]
    BY <2>5, <2>8
  <2>10. pay = offers[first]
    OBVIOUS
  <2> QED
    BY <2>6, <2>9, <2>10
<1> HIDE DEF pay, first, can, offers
<1>4. pay \in Numbers /\ Total(pay) = Costs[g] /\ Coins(pay) \in Int
  BY <1>2, <1>3, NumbersCount DEF Exact
<1>5. c \in Nat /\ c \in Int
  BY <1>1, <1>4, OfBody
<1>6. Paid(u, pay, c)
  <2>1. purse' = [purse EXCEPT ![u] = Left(purse[u], pay)]
    BY <1>1 DEF Left, TypeOK
  <2> HIDE DEF c
  <2> QED
    BY <1>1, <1>3, <1>4, <1>5, <2>1, Pays
<1>7. g \notin Owned(u) /\ Owned(u)' = Owned(u) \cup {g} /\ OthersOwn(u)
  BY <1>1, <1>2 DEF Owned, OthersOwn
<1>8. Trade(u, pay, c, 1, Costs[g])
  <2>1. Owned(u) \in SUBSET Goods
    BY DEF Owned
  <2>2. /\ Cardinality(Owned(u) \cup {g}) = Cardinality(Owned(u)) + 1
        /\ SumFunctionOnSet(Costs, Owned(u) \cup {g})
              = SumFunctionOnSet(Costs, Owned(u)) + Costs[g]
        /\ Costs[g] \in Int
    BY <1>7, <2>1, GoodMore
  <2>3. c + 1 = capacity[u] + Coins(pay)
    BY <1>1, <1>4, OfBody
  <2>4. GoodsOf(u)' = GoodsOf(u) + Costs[g]
    BY <1>7, <2>2 DEF GoodsOf
  <2> QED
    BY <1>4, <1>6, <1>7, <2>2, <2>3, <2>4 DEF Trade
<1>9. owner' \in [Goods -> Alive \cup {None}]
  <2>1. owner \in [Goods -> Alive \cup {None}]
    BY <1>2 DEF IInv, OnlyTheLivingOwn
  <2> QED
    BY <1>1, <2>1
<1>10. Costs[g] \in Int /\ 1 \in Int
  BY GoodsCount
<1> HIDE DEF c
<1> QED
  BY <1>1, <1>4, <1>5, <1>8, <1>9, <1>10, TradeKeeps

\* What the shop gives for a good is not worth more than its price.
LEMMA SoldCounts ==
    ASSUME NEW t \in Types, NEW n \in Nat \ {0}
    PROVE  Sold(t, n) \in Purses /\ Total(Sold(t, n)) <= n * Value[t]
<1>1. Value[t] \in Nat \ {0} /\ Value[t] \in Int /\ n * Value[t] \in Nat
  BY OnesAndValue, WorthOfCoins
<1>2. CASE Lower(t) = <<>>
  <2> DEFINE m == IF (n * 3) \div 4 = 0 THEN 1 ELSE (n * 3) \div 4
  <2>1. m \in Nat /\ m \in Int /\ m <= n
    OBVIOUS
  <2>2. Sold(t, n) = Only(t, m)
    BY <1>2 DEF Sold
  <2> HIDE DEF m
  <2>3. Only(t, m) \in Purses
    BY <2>1 DEF Only, NoCoins, Purses
  <2>4. Total(Only(t, m)) = m * Value[t]
    BY <2>1, OnlyCounts
  <2>5. m * Value[t] <= n * Value[t]
    <3>1. \A x, y, z \in Nat : x <= y => x * z <= y * z
      <4>1. ASSUME NEW x \in Nat, NEW y \in Nat, NEW z \in Nat, x <= y
            PROVE  x * z <= y * z
        <5>1. y - x \in Nat /\ (y - x) * z \in Nat
          BY <4>1
        <5>2. (y - x) * z = (y * z) - (x * z)
          OBVIOUS
        <5> QED
          BY <5>1, <5>2
      <4> QED
        BY <4>1
    <3> QED
      BY <1>1, <2>1, <3>1
  <2> QED
    BY <2>2, <2>3, <2>4, <2>5
<1>3. CASE Lower(t) # <<>>
  <2> DEFINE s   == Lower(t)[1]
             sum == (n * Value[t] * 3) \div 4
             a   == sum \div Value[t]
             y   == sum % Value[t]
             b   == y \div Value[s]
  <2>1. Multiple(t, s)
    <3>1. Place(t) \in 1..Len(Kinds) /\ Len(Kinds) \in Nat
      BY KindsInOrder, EconomyAssumption
    <3>2. Len(Kinds) - Place(t) \in Nat
      BY <3>1
    <3>3. Len(Kinds) - Place(t) # 0
      <4>1. ASSUME Len(Kinds) - Place(t) = 0 PROVE Lower(t) = <<>>
        BY <4>1 DEF Lower
      <4> QED
        BY <1>3, <4>1
    <3>4. 1 \in DOMAIN Lower(t)
      BY <3>2, <3>3 DEF Lower
    <3> QED
      BY <3>4, KindsInOrder
  <2>2. s \in Types /\ s # t /\ Value[s] \in Nat \ {0} /\ Value[s] \in Int
    BY <2>1, OnesAndValue DEF Multiple
  <2>3. sum \in Nat /\ sum \in Int /\ sum <= n * Value[t]
    <3> DEFINE x == n * Value[t]
    <3>1. x \in Nat
      BY <1>1
    <3>2. sum = (x * 3) \div 4
      OBVIOUS
    <3> HIDE DEF x, sum
    <3>3. sum \in Nat /\ sum <= x
      BY <3>1, <3>2
    <3> QED
      BY <3>3 DEF x
  <2>4. Sold(t, n) = [Only(t, a) EXCEPT ![s] = b]
    BY <1>3 DEF Sold
  <2> HIDE DEF s, sum
  <2>5. a \in Nat /\ a \in Int /\ y \in Nat /\ y \in Int /\ sum = (a * Value[t]) + y
    <3>1. /\ sum \div Value[t] \in Nat /\ sum % Value[t] \in Nat
          /\ sum = ((sum \div Value[t]) * Value[t]) + (sum % Value[t])
      BY ONLY <1>1, <2>3, Divided
    <3> QED
      BY <3>1
  <2> HIDE DEF a, y
  <2>6. /\ b \in Nat /\ b \in Int /\ y % Value[s] \in Nat
        /\ y = (b * Value[s]) + (y % Value[s])
    BY <2>2, <2>5, Divided
  <2> HIDE DEF b
  <2>7. IsTwo(Sold(t, n), t, a, s, b)
    BY <2>4 DEF IsTwo
  <2>8. t \in Types /\ t # s
    BY <2>2
  <2>9. /\ OfTwo(Sold(t, n), t, a, s, b)
        /\ Total(Sold(t, n)) = (a * Value[t]) + (b * Value[s])
    BY ONLY <2>2, <2>5, <2>6, <2>7, <2>8, TwoCount
  <2>10. Sold(t, n) \in Purses
    BY <2>2, <2>5, <2>6, <2>9 DEF OfTwo, Numbers, Purses
  <2>11. a * Value[t] \in Int /\ b * Value[s] \in Int /\ n * Value[t] \in Int
    BY <1>1, <2>2, <2>5, <2>6
  <2>12. (a * Value[t]) + (b * Value[s]) <= n * Value[t]
    BY <2>3, <2>5, <2>6, <2>11
  <2> QED
    BY <2>9, <2>10, <2>12
<1> QED
  BY <1>2, <1>3

LEMMA SellKeeps ==
    ASSUME IInv, NEW u \in Users, NEW g \in Goods, Sell(u, g)
    PROVE  Keeps
<1> DEFINE t      == Price[g].type
           n      == Price[g].num
           gain   == Sold(t, n)
           pay    == Left(NoCoins, gain)
           c      == capacity[u] + 1 - Coins(gain)
<1>1. /\ TypeOK /\ u \in Alive /\ owner[g] = u
      /\ capacity[u] + 1 >= Coins(gain)
      /\ purse' = [purse EXCEPT ![u] = [r \in Types |-> @[r] + gain[r]]]
      /\ capacity' = [capacity EXCEPT ![u] = c]
      /\ owner' = [owner EXCEPT ![g] = None]
      /\ UNCHANGED <<here, dead, bank, file, floor, box>>
  BY DEF IInv, Sell, TypeOK
<1>2. /\ gain \in Purses /\ Total(gain) <= Costs[g]
  <2>1. t \in Types /\ n \in Nat \ {0}
    BY EconomyAssumption
  <2>2. n * Value[t] = Costs[g]
    BY GoodsCount
  <2> HIDE DEF t, n
  <2> QED
    BY <2>1, <2>2, SoldCounts
<1>3. /\ owner \in [Goods -> Users \cup {None}] /\ None \notin Users
      /\ purse[u] \in Purses /\ capacity[u] \in Nat
  BY <1>1, OfBody, EconomyAssumption DEF TypeOK
<1> HIDE DEF gain
<1>4. /\ gain \in Numbers /\ Coins(gain) \in Nat /\ Total(gain) \in Nat
      /\ NoCoins \in Numbers /\ Coins(NoCoins) = 0 /\ Total(NoCoins) = 0
  BY <1>2, PurseCounts, NothingCounts
<1>5. pay \in Numbers /\ \A r \in Types : pay[r] = 0 - gain[r] /\ pay[r] = NoCoins[r] - gain[r]
  BY <1>4 DEF Left, NoCoins, Numbers
<1>6. Left(purse[u], pay) = [r \in Types |-> purse[u][r] + gain[r]]
  <2>1. \A r \in Types : purse[u][r] - pay[r] = purse[u][r] + gain[r]
    BY <1>2, <1>3, <1>5 DEF Purses
  <2> HIDE DEF pay
  <2> QED
    BY <2>1 DEF Left
<1>7. \A r \in Types : pay[r] <= purse[u][r]
  BY <1>2, <1>3, <1>5 DEF Purses
<1> HIDE DEF pay
<1>8. Coins(pay) = 0 - Coins(gain) /\ Total(pay) = 0 - Total(gain)
  BY <1>4, <1>5, MinusCounts
<1>9. c \in Nat /\ c \in Int
  BY <1>1, <1>3, <1>4
<1>10. Paid(u, pay, c)
  <2>1. purse' = [purse EXCEPT ![u] = Left(purse[u], pay)]
    BY <1>1, <1>6 DEF TypeOK
  <2> HIDE DEF c
  <2> QED
    BY <1>1, <1>5, <1>7, <1>9, <2>1, Pays
<1> DEFINE S == Owned(u) \ {g}
<1>11. /\ g \in Owned(u) /\ Owned(u)' = S /\ OthersOwn(u)
       /\ Owned(u) = S \cup {g} /\ S \in SUBSET Goods /\ g \notin S
  BY <1>1, <1>3 DEF Owned, OthersOwn
<1>12. Trade(u, pay, c, -1, -Costs[g])
  <2> HIDE DEF S
  <2>1. /\ Cardinality(S \cup {g}) = Cardinality(S) + 1
        /\ SumFunctionOnSet(Costs, S \cup {g}) = SumFunctionOnSet(Costs, S) + Costs[g]
        /\ Costs[g] \in Int /\ Cardinality(S) \in Int
        /\ SumFunctionOnSet(Costs, S) \in Int
    BY <1>11, GoodMore
  <2>2. Cardinality(Owned(u)') = Cardinality(Owned(u)) + (-1)
    BY <1>11, <2>1
  <2>3. GoodsOf(u)' = GoodsOf(u) + (-Costs[g])
    <3>1. GoodsOf(u) = SumFunctionOnSet(Costs, S) + Costs[g]
      BY <1>11, <2>1 DEF GoodsOf
    <3>2. GoodsOf(u)' = SumFunctionOnSet(Costs, S)
      BY <1>11 DEF GoodsOf
    <3> QED
      BY <2>1, <3>1, <3>2
  <2>4. c + (-1) = capacity[u] + Coins(pay)
    BY <1>3, <1>4, <1>8
  <2>5. -Costs[g] <= Total(pay)
    BY <1>2, <1>4, <1>8, <2>1
  <2> QED
    BY <1>10, <1>11, <2>2, <2>3, <2>4, <2>5 DEF Trade
<1>13. owner' \in [Goods -> Alive \cup {None}]
  <2>1. owner \in [Goods -> Alive \cup {None}]
    BY <1>3 DEF IInv, OnlyTheLivingOwn
  <2> QED
    BY <1>1, <2>1
<1>14. -Costs[g] \in Int /\ -1 \in Int
  BY GoodsCount
<1> HIDE DEF c
<1> QED
  BY <1>1, <1>5, <1>9, <1>12, <1>13, <1>14, TradeKeeps

-----------------------------------------------------------------------------
(* Bodies and their files                                                  *)

\* The bodies of S leave: the others are not concerned, and keep what they
\* carry.
LEMMA EmptiedLeave ==
    ASSUME IInv, NEW S \in SUBSET Users, Emptied(S), Alive' = Alive \ S
    PROVE  /\ purse' \in [Users -> Purses] /\ bank' \in [Users -> Purses]
           /\ capacity' \in [Users -> Nat]
           /\ owner' \in [Goods -> Users \cup {None}]
           /\ OnlyTheLivingOwn'
           /\ \A v \in Users \ S : /\ purse'[v] = purse[v] /\ bank'[v] = bank[v]
                                   /\ Owned(v)' = Owned(v)
           /\ \A v \in Alive' : Load(v)' = MaxCapacity
<1>1. /\ TypeOK /\ None \notin Users
      /\ purse \in [Users -> Purses] /\ bank \in [Users -> Purses]
      /\ capacity \in [Users -> Nat] /\ NoCoins \in Purses
      /\ owner \in [Goods -> Alive \cup {None}] /\ Alive \subseteq Users
  BY NothingCounts, EconomyAssumption, Alivehere
     DEF IInv, TypeOK, Purses, OnlyTheLivingOwn
<1>2. /\ purse' = [u \in Users |-> IF u \in S THEN NoCoins ELSE purse[u]]
      /\ bank' = [u \in Users |-> IF u \in S THEN NoCoins ELSE bank[u]]
      /\ capacity' = [u \in Users |-> IF u \in S THEN 0 ELSE capacity[u]]
      /\ owner' = [g \in Goods |-> IF owner[g] \in S THEN None ELSE owner[g]]
  BY DEF Emptied, LosesGoods
<1>3. purse' \in [Users -> Purses] /\ bank' \in [Users -> Purses]
  BY <1>1, <1>2
<1>4. capacity' \in [Users -> Nat]
  BY <1>1, <1>2
<1>5. owner' \in [Goods -> (Alive \ S) \cup {None}]
  BY <1>1, <1>2
<1>6. ASSUME NEW v \in Users \ S
      PROVE  /\ purse'[v] = purse[v] /\ bank'[v] = bank[v]
             /\ capacity'[v] = capacity[v] /\ Owned(v)' = Owned(v)
  <2>1. purse'[v] = purse[v] /\ bank'[v] = bank[v] /\ capacity'[v] = capacity[v]
    BY <1>2
  <2>2. \A g \in Goods : owner'[g] = v <=> owner[g] = v
    BY <1>1, <1>2
  <2> QED
    BY <2>1, <2>2 DEF Owned
<1>7. OnlyTheLivingOwn'
  BY <1>5 DEF OnlyTheLivingOwn, Alive
<1>8. ASSUME NEW v \in Alive' PROVE Load(v)' = MaxCapacity
  <2>1. v \in Alive /\ v \in Users \ S
    BY <1>1
  <2>2. Load(v) = MaxCapacity
    BY <2>1, LoadIs
  <2>3. /\ purse'[v] = purse[v] /\ capacity'[v] = capacity[v]
        /\ Owned(v)' = Owned(v)
    BY <1>6, <2>1
  <2> QED
    BY <2>2, <2>3 DEF Load
<1>9. owner' \in [Goods -> Users \cup {None}]
  BY <1>1, <1>5
<1> QED
  BY <1>3, <1>4, <1>6, <1>7, <1>8, <1>9

\* A living body has no more coins than its file may hold, and what is saved
\* is what it has.
LEMMA LivingFits ==
    ASSUME IInv, NEW u \in Alive
    PROVE  Coins(purse[u]) <= MaxCapacity
<1>1. TypeOK /\ u \in Users /\ Load(u) = MaxCapacity
  BY Alivehere, LoadIs DEF IInv
<1>2. purse[u] \in Purses /\ capacity[u] \in Nat
  BY <1>1, OfBody
<1>3. Coins(purse[u]) \in Nat
  BY <1>2, PurseCounts
<1>4. IsFiniteSet(Owned(u))
  BY GoodsCount DEF Owned
<1>5. Cardinality(Owned(u)) \in Nat
  BY <1>4, FS_CardinalityType
<1>6. capacity[u] + Coins(purse[u]) + Cardinality(Owned(u)) = MaxCapacity
  BY <1>1 DEF Load
<1> QED
  BY <1>2, <1>3, <1>5, <1>6

Files == [Users -> [purse : Purses, bank : Purses]]

LEMMA WrittenIs ==
    ASSUME IInv, NEW u \in Alive, file' = Written(u)
    PROVE  /\ file' \in Files /\ FilesFit'
           /\ file'[u].purse = purse[u] /\ file'[u].bank = bank[u]
           /\ \A v \in Users \ {u} : file'[v] = file[v]
<1>1. /\ TypeOK /\ u \in Users /\ file \in Files
      /\ purse[u] \in Purses /\ bank[u] \in Purses
  BY Alivehere, OfBody DEF IInv, TypeOK, Purses, Files
<1> DEFINE r == [purse |-> purse[u], bank |-> bank[u]]
<1>2. r \in [purse : Purses, bank : Purses] /\ file' = [file EXCEPT ![u] = r]
  BY <1>1 DEF Written
<1>3. r.purse = purse[u] /\ r.bank = bank[u]
  OBVIOUS
<1> HIDE DEF r
<1>4. /\ file' \in Files /\ file'[u] = r
      /\ \A v \in Users \ {u} : file'[v] = file[v]
  BY <1>1, <1>2 DEF Files
<1>5. FilesFit'
  <2>1. Coins(file'[u].purse) <= MaxCapacity
    BY <1>3, <1>4, LivingFits
  <2>2. \A v \in Users \ {u} : Coins(file'[v].purse) <= MaxCapacity
    BY <1>4 DEF IInv, FilesFit
  <2> QED
    BY <2>1, <2>2 DEF FilesFit, Coins
<1> QED
  BY <1>3, <1>4, <1>5

\* A body is made from its file: it can carry what the file says it has, owns
\* none of the goods, and is worth what the file was.
LEMMA RestoredEnters ==
    ASSUME IInv, NEW u \in Users \ Alive, Restored(u), Alive' = Alive \cup {u},
           UNCHANGED <<file, owner>>
    PROVE  /\ purse' \in [Users -> Purses] /\ bank' \in [Users -> Purses]
           /\ capacity' \in [Users -> Nat]
           /\ OnlyTheLivingOwn'
           /\ \A v \in Alive' : Load(v)' = MaxCapacity
           /\ \A v \in Users : Wealth(v)' = Wealth(v)
<1> DEFINE c == MaxCapacity - Coins(file[u].purse)
<1>1. /\ TypeOK /\ None \notin Users
      /\ purse \in [Users -> Purses] /\ bank \in [Users -> Purses]
      /\ capacity \in [Users -> Nat]
      /\ file[u].purse \in Purses /\ file[u].bank \in Purses
      /\ owner \in [Goods -> Alive \cup {None}] /\ Alive \subseteq Users
  BY EconomyAssumption, Alivehere, OfBody
     DEF IInv, TypeOK, Purses, OnlyTheLivingOwn
<1>2. Coins(file[u].purse) \in Nat /\ Coins(file[u].purse) <= MaxCapacity
  BY <1>1, PurseCounts DEF IInv, FilesFit
<1>3. c \in Nat /\ c + Coins(file[u].purse) = MaxCapacity
  BY <1>2, EconomyAssumption
<1>4. /\ purse' = [purse EXCEPT ![u] = file[u].purse]
      /\ bank' = [bank EXCEPT ![u] = file[u].bank]
      /\ capacity' = [capacity EXCEPT ![u] = c]
  BY DEF Restored
<1> HIDE DEF c
<1>5. /\ purse' \in [Users -> Purses] /\ bank' \in [Users -> Purses]
      /\ capacity' \in [Users -> Nat]
  BY <1>1, <1>3, <1>4
<1>6. /\ purse'[u] = file[u].purse /\ bank'[u] = file[u].bank /\ capacity'[u] = c
      /\ \A v \in Users \ {u} : /\ purse'[v] = purse[v] /\ bank'[v] = bank[v]
                                /\ capacity'[v] = capacity[v]
  BY <1>1, <1>4
<1>7. OnlyTheLivingOwn'
  BY <1>1 DEF OnlyTheLivingOwn, Alive
<1>8. \A v \in Users : Owned(v)' = Owned(v) /\ GoodsOf(v)' = GoodsOf(v)
  BY DEF Owned, GoodsOf
<1>9. Owned(u) = {} /\ Cardinality(Owned(u)) = 0 /\ GoodsOf(u) = 0
  <2>1. Owned(u) = {}
    BY <1>1 DEF Owned
  <2>2. \A g \in Goods : Costs[g] \in Int
    BY GoodsCount
  <2> QED
    BY <2>1, <2>2, EconomyAssumption, SumTakesOut, FS_EmptySet DEF GoodsOf
<1>10. ASSUME NEW v \in Alive' PROVE Load(v)' = MaxCapacity
  <2>1. CASE v = u
    <3>1. Load(u)' = capacity'[u] + Coins(purse'[u]) + Cardinality(Owned(u)')
      BY DEF Load, Coins
    <3>2. Load(u)' = c + Coins(file[u].purse) + 0
      BY <1>6, <1>8, <1>9, <3>1
    <3> QED
      BY <1>2, <1>3, <2>1, <3>2
  <2>2. CASE v # u
    <3>1. v \in Alive /\ v \in Users
      BY <1>1, <2>2
    <3>2. Load(v) = MaxCapacity
      BY <3>1, LoadIs
    <3>3. /\ purse'[v] = purse[v] /\ capacity'[v] = capacity[v]
          /\ Owned(v)' = Owned(v)
      BY <1>6, <1>8, <2>2, <3>1
    <3> QED
      BY <3>2, <3>3 DEF Load
  <2> QED
    BY <2>1, <2>2
<1>11. ASSUME NEW v \in Users PROVE Wealth(v)' = Wealth(v)
  <2>1. CASE v = u
    <3>1. Wealth(u) = Total(file[u].purse) + Total(file[u].bank)
      BY WealthOf
    <3>2. Wealth(u)' = Total(file[u].purse) + Total(file[u].bank) + 0
      BY <1>6, <1>8, <1>9, WealthOfNext
    <3>3. Total(file[u].purse) \in Nat /\ Total(file[u].bank) \in Nat
      BY <1>1, WealthType
    <3> QED
      BY <2>1, <3>1, <3>2, <3>3
  <2>2. CASE v # u
    <3>1. purse'[v] = purse[v] /\ bank'[v] = bank[v] /\ GoodsOf(v)' = GoodsOf(v)
      BY <1>6, <1>8, <2>2
    <3>2. v \in Alive' <=> v \in Alive
      BY <2>2
    <3>3. file' = file
      OBVIOUS
    <3> QED
      BY <3>1, <3>2, <3>3, WealthOf, WealthOfNext
  <2> QED
    BY <2>1, <2>2
<1> QED
  BY <1>5, <1>7, <1>10, <1>11

\* When nobody's wealth changes and the room stays what it is
LEMMA NothingGained ==
    ASSUME IInv, IInv', UNCHANGED <<floor, box>>,
           \A v \in Users : Wealth(v)' = Wealth(v)
    PROVE  Keeps
<1>1. TypeOK /\ TypeOK'
  BY DEF IInv
<1>2. Held \in Int /\ Held' = Held
  BY <1>1, WealthOfNone
<1>3. Total(floor) \in Int /\ Total(box) \in Int
  BY <1>1, WorthType
<1> QED
  BY <1>2, <1>3, WorthIs, WorthIsNext DEF Keeps

LEMMA SaveKeeps ==
    ASSUME IInv, NEW u \in Users, Save(u)
    PROVE  Keeps
<1>1. /\ TypeOK /\ u \in Alive /\ file' = Written(u)
      /\ UNCHANGED <<here, dead, purse, bank, capacity, floor, box, owner>>
  BY DEF IInv, Save
<1>2. /\ file' \in Files /\ FilesFit'
      /\ \A v \in Users \ {u} : file'[v] = file[v]
  BY <1>1, WrittenIs
<1>3. Alive' = Alive
  BY <1>1 DEF Alive
<1>4. IInv'
  <2>1. TypeOK'
    BY <1>1, <1>2 DEF TypeOK, Files, Purses
  <2>2. OnlyTheLivingOwn' /\ \A v \in Alive' : Load(v)' = MaxCapacity
    BY <1>1, <1>3, LoadIs DEF IInv, OnlyTheLivingOwn, Load, Owned
  <2> QED
    BY <1>2, <2>1, <2>2, InvariantOf
<1>5. ASSUME NEW v \in Users PROVE Wealth(v)' = Wealth(v)
  <2>1. GoodsOf(v)' = GoodsOf(v)
    BY <1>1 DEF GoodsOf, Owned
  <2>2. v \notin Alive => file'[v] = file[v]
    BY <1>1, <1>2
  <2> QED
    BY <1>1, <1>3, <2>1, <2>2, WealthOf, WealthOfNext
<1> QED
  BY <1>1, <1>4, <1>5, NothingGained

\* Who quits loses the goods, and nothing else.
LEMMA QuitKeeps ==
    ASSUME IInv, NEW u \in Users, Quit(u)
    PROVE  Keeps
<1>1. /\ TypeOK /\ here' = here \ {u} /\ Emptied({u})
      /\ file' = IF u \in Alive THEN Written(u) ELSE file
      /\ UNCHANGED <<dead, floor, box>>
  BY DEF IInv, Quit
<1>2. Alive' = Alive \ {u}
  BY <1>1 DEF Alive
<1>3. /\ file' \in Files /\ FilesFit'
      /\ \A v \in Users \ {u} : file'[v] = file[v]
  <2>1. CASE u \in Alive
    BY <1>1, <2>1, WrittenIs
  <2>2. CASE u \notin Alive
    BY <1>1, <2>2 DEF IInv, TypeOK, FilesFit, Files, Purses, Coins
  <2> QED
    BY <2>1, <2>2
<1>4. {u} \in SUBSET Users
  OBVIOUS
<1>5. /\ purse' \in [Users -> Purses] /\ bank' \in [Users -> Purses]
      /\ capacity' \in [Users -> Nat]
      /\ owner' \in [Goods -> Users \cup {None}]
      /\ OnlyTheLivingOwn'
      /\ \A v \in Users \ {u} : /\ purse'[v] = purse[v] /\ bank'[v] = bank[v]
                                /\ Owned(v)' = Owned(v)
      /\ \A v \in Alive' : Load(v)' = MaxCapacity
  BY <1>1, <1>2, <1>4, EmptiedLeave
<1>6. IInv' /\ TypeOK'
  <2>1. TypeOK'
    BY <1>1, <1>3, <1>5 DEF TypeOK, Files, Purses
  <2> QED
    BY <1>3, <1>5, <2>1, InvariantOf
<1>7. ASSUME NEW v \in Users \ {u} PROVE Wealth(v)' = Wealth(v)
  <2>1. purse'[v] = purse[v] /\ bank'[v] = bank[v] /\ file'[v] = file[v]
    BY <1>3, <1>5
  <2>2. GoodsOf(v)' = GoodsOf(v)
    BY <1>5 DEF GoodsOf
  <2>3. v \in Alive' <=> v \in Alive
    BY <1>2
  <2> QED
    BY <2>1, <2>2, <2>3, WealthOf, WealthOfNext
<1>8. Wealth(u)' <= Wealth(u)
  <2>1. Wealth(u)' = Total(file'[u].purse) + Total(file'[u].bank)
    BY <1>2, WealthOfNext
  <2>2. /\ Total(purse[u]) \in Nat /\ Total(bank[u]) \in Nat
        /\ GoodsOf(u) \in Nat /\ Wealth(u) \in Nat
    BY <1>1, WealthType
  <2>3. CASE u \in Alive
    <3>1. file'[u].purse = purse[u] /\ file'[u].bank = bank[u]
      BY <1>1, <2>3, WrittenIs
    <3>2. Wealth(u) = Total(purse[u]) + Total(bank[u]) + GoodsOf(u)
      BY <2>3, WealthOf
    <3> QED
      BY <2>1, <2>2, <3>1, <3>2
  <2>4. CASE u \notin Alive
    <3>1. Wealth(u) = Total(file[u].purse) + Total(file[u].bank)
      BY <2>4, WealthOf
    <3> QED
      BY <1>1, <2>1, <2>2, <2>4, <3>1
  <2> QED
    BY <2>3, <2>4
<1>9. /\ Held \in Int /\ Wealth(u) \in Int /\ Wealth(u)' \in Int
      /\ Held' = (Held - Wealth(u)) + Wealth(u)'
  BY <1>1, <1>6, <1>7, WealthOfOne
<1>10. Total(floor) \in Int /\ Total(box) \in Int
  BY <1>1, WorthType
<1>11. Worth' = Held' + Total(floor) + Total(box)
  BY <1>1, WorthIsNext
<1> QED
  BY <1>6, <1>8, <1>9, <1>10, <1>11, WorthIs DEF Keeps

LEMMA LoginKeeps ==
    ASSUME IInv, NEW u \in Users, Login(u)
    PROVE  Keeps
<1>1. /\ TypeOK /\ u \notin here /\ here' = here \cup {u}
      /\ UNCHANGED <<dead, file, floor, box, owner>>
  BY DEF IInv, Login
<1>2. FilesFit'
  BY <1>1 DEF IInv, FilesFit, Coins
<1>3. CASE u \in dead
  <2>1. Alive' = Alive /\ UNCHANGED <<purse, bank, capacity>>
    BY <1>1, <1>3 DEF Alive, Login
  <2>2. TypeOK'
    BY <1>1, <2>1 DEF TypeOK
  <2>3. OnlyTheLivingOwn' /\ \A v \in Alive' : Load(v)' = MaxCapacity
    BY <1>1, <2>1, LoadIs DEF IInv, OnlyTheLivingOwn, Load, Owned
  <2>4. IInv'
    BY <1>2, <2>2, <2>3, InvariantOf
  <2>5. ASSUME NEW v \in Users PROVE Wealth(v)' = Wealth(v)
    <3>1. GoodsOf(v)' = GoodsOf(v)
      BY <1>1 DEF GoodsOf, Owned
    <3> QED
      BY <1>1, <2>1, <3>1, WealthOf, WealthOfNext
  <2> QED
    BY <1>1, <2>4, <2>5, NothingGained
<1>4. CASE u \notin dead
  <2>1. /\ u \in Users \ Alive /\ Restored(u) /\ Alive' = Alive \cup {u}
        /\ UNCHANGED <<file, owner>>
    BY <1>1, <1>4 DEF Alive, Login
  <2>2. /\ purse' \in [Users -> Purses] /\ bank' \in [Users -> Purses]
        /\ capacity' \in [Users -> Nat]
        /\ OnlyTheLivingOwn'
        /\ \A v \in Alive' : Load(v)' = MaxCapacity
        /\ \A v \in Users : Wealth(v)' = Wealth(v)
    BY <2>1, RestoredEnters
  <2>3. TypeOK'
    BY <1>1, <2>2 DEF TypeOK, Purses
  <2>4. IInv'
    BY <1>2, <2>2, <2>3, InvariantOf
  <2> QED
    BY <1>1, <2>2, <2>4, NothingGained
<1> QED
  BY <1>3, <1>4

LEMMA ReviveKeeps ==
    ASSUME IInv, NEW u \in Users, Revive(u)
    PROVE  Keeps
<1>1. /\ TypeOK /\ u \in here \cap dead /\ dead' = dead \ {u} /\ Restored(u)
      /\ UNCHANGED <<here, file, floor, box, owner>>
  BY DEF IInv, Revive
<1>2. FilesFit'
  BY <1>1 DEF IInv, FilesFit, Coins
<1>3. /\ u \in Users \ Alive /\ Alive' = Alive \cup {u}
      /\ UNCHANGED <<file, owner>>
  BY <1>1 DEF Alive
<1>4. /\ purse' \in [Users -> Purses] /\ bank' \in [Users -> Purses]
      /\ capacity' \in [Users -> Nat]
      /\ OnlyTheLivingOwn'
      /\ \A v \in Alive' : Load(v)' = MaxCapacity
      /\ \A v \in Users : Wealth(v)' = Wealth(v)
  BY <1>1, <1>3, RestoredEnters
<1>5. TypeOK'
  BY <1>1, <1>4 DEF TypeOK, Purses
<1>6. IInv'
  BY <1>2, <1>4, <1>5, InvariantOf
<1> QED
  BY <1>1, <1>4, <1>6, NothingGained

\* A death and a crash keep the invariant; what there is may become more.
LEMMA DieKeeps ==
    ASSUME IInv, NEW u \in Users, Die(u)
    PROVE  IInv'
<1>1. /\ TypeOK /\ dead' = dead \cup {u} /\ Emptied({u})
      /\ UNCHANGED <<here, file, floor>>
  BY DEF IInv, Die
<1>2. PICK S \in SUBSET Types :
          box' = [t \in Types |-> IF t \in S THEN box[t] + purse[u][t] ELSE box[t]]
  BY DEF Die
<1>3. box' \in Purses
  <2>1. /\ \A t \in Types : purse[u][t] \in Nat /\ box \in Purses
    BY <1>1, OfBody
  <2>2. \A t \in Types :
           (IF t \in S THEN box[t] + purse[u][t] ELSE box[t]) \in Nat
    BY <2>1 DEF Purses
  <2> QED
    BY <1>2, <2>2 DEF Purses
<1>4. Alive' = Alive \ {u} /\ {u} \in SUBSET Users
  BY <1>1 DEF Alive
<1>5. /\ purse' \in [Users -> Purses] /\ bank' \in [Users -> Purses]
      /\ capacity' \in [Users -> Nat]
      /\ owner' \in [Goods -> Users \cup {None}]
      /\ OnlyTheLivingOwn'
      /\ \A v \in Alive' : Load(v)' = MaxCapacity
  BY <1>1, <1>4, EmptiedLeave
<1>6. TypeOK'
  BY <1>1, <1>3, <1>5 DEF TypeOK, Purses
<1>7. FilesFit'
  BY <1>1 DEF IInv, FilesFit, Coins
<1> QED
  BY <1>5, <1>6, <1>7, InvariantOf

LEMMA CrashKeeps ==
    ASSUME IInv, Crash
    PROVE  IInv'
<1>1. /\ TypeOK /\ here' = {} /\ Emptied(Users)
      /\ floor' = NoCoins /\ box' = NoCoins /\ UNCHANGED <<dead, file>>
  BY DEF IInv, Crash
<1>2. Alive' = Alive \ Users
  BY <1>1, Alivehere DEF Alive
<1>3. /\ purse' \in [Users -> Purses] /\ bank' \in [Users -> Purses]
      /\ capacity' \in [Users -> Nat]
      /\ owner' \in [Goods -> Users \cup {None}]
      /\ OnlyTheLivingOwn'
      /\ \A v \in Alive' : Load(v)' = MaxCapacity
  <2>1. Users \in SUBSET Users
    OBVIOUS
  <2> QED
    BY <1>1, <1>2, <2>1, EmptiedLeave
<1>4. TypeOK'
  BY <1>1, <1>3, NothingCounts DEF TypeOK, Purses
<1>5. FilesFit'
  BY <1>1 DEF IInv, FilesFit, Coins
<1> QED
  BY <1>3, <1>4, <1>5, InvariantOf

-----------------------------------------------------------------------------
(* The theorems                                                            *)

LEMMA InitInvariant == Init => IInv
<1> SUFFICES ASSUME Init PROVE IInv
  OBVIOUS
<1>1. /\ here = Users /\ dead = {} /\ purse = Start
      /\ bank = [u \in Users |-> NoCoins]
      /\ capacity = [u \in Users |-> MaxCapacity - Coins(Start[u])]
      /\ file = [u \in Users |-> [purse |-> Start[u], bank |-> NoCoins]]
      /\ floor = NoCoins /\ box = NoCoins /\ owner = [g \in Goods |-> None]
  BY DEF Init
<1>2. Start \in [Users -> Purses] /\ NoCoins \in Purses
  BY EconomyAssumption, NothingCounts DEF Purses
<1>3. ASSUME NEW u \in Users
      PROVE  /\ Coins(Start[u]) \in Nat /\ Coins(Start[u]) <= MaxCapacity
             /\ MaxCapacity - Coins(Start[u]) \in Nat
             /\ (MaxCapacity - Coins(Start[u])) + Coins(Start[u]) = MaxCapacity
  <2>1. Coins(Start[u]) \in Nat
    BY <1>2, PurseCounts
  <2>2. Coins(Start[u]) <= MaxCapacity /\ MaxCapacity \in Nat
    BY EconomyAssumption
  <2> QED
    BY <2>1, <2>2
<1>4. TypeOK
  <2>1. capacity \in [Users -> Nat]
    BY <1>1, <1>3
  <2>2. file \in [Users -> [purse : Purses, bank : Purses]]
    BY <1>1, <1>2
  <2> QED
    BY <1>1, <1>2, <2>1, <2>2 DEF TypeOK, Purses
<1>5. OnlyTheLivingOwn
  BY <1>1 DEF OnlyTheLivingOwn
<1>6. FilesFit
  BY <1>1, <1>3 DEF FilesFit
<1>7. ASSUME NEW u \in Alive PROVE Load(u) = MaxCapacity
  <2>1. u \in Users
    BY <1>1 DEF Alive
  <2>2. Owned(u) = {}
    BY <1>1, <2>1, EconomyAssumption DEF Owned
  <2>3. Cardinality(Owned(u)) = 0
    BY <2>2, FS_EmptySet
  <2>4. /\ capacity[u] = MaxCapacity - Coins(Start[u])
        /\ purse[u] = Start[u]
    BY <1>1, <2>1
  <2>5. MaxCapacity \in Nat
    BY EconomyAssumption
  <2> QED
    BY <1>3, <2>1, <2>3, <2>4, <2>5 DEF Load
<1>8. EncumbranceTrue
  BY <1>4, <1>7 DEF EncumbranceTrue, Load, TypeOK, Alive
<1> QED
  BY <1>4, <1>5, <1>6, <1>8 DEF IInv

LEMMA MoneyKeeps ==
    ASSUME IInv, Money
    PROVE  Keeps
<1>1. PICK u \in Users, t \in Types, n \in Amounts :
         \/ \E v \in Users : Give(u, v, t, n)
         \/ Drop(u, t, n)
         \/ Get(u, t, n)
         \/ PutInto(u, t, n)
         \/ GetFrom(u, t, n)
         \/ \E s \in Types : Change(u, s, t, n)
         \/ Spend(u, t, n)
         \/ \E w \in Users : Deposit(u, w, t, n)
         \/ \E w \in Users : Withdraw(u, w, t, n)
  BY DEF Money
<1>2. n \in Nat
  BY EconomyAssumption DEF Amounts
<1>3. CASE \E v \in Users : Give(u, v, t, n)
  BY <1>2, <1>3, GiveKeeps
<1>4. CASE Drop(u, t, n)
  BY <1>2, <1>4, DropKeeps
<1>5. CASE Get(u, t, n)
  BY <1>2, <1>5, GetKeeps
<1>6. CASE PutInto(u, t, n)
  BY <1>2, <1>6, PutIntoKeeps
<1>7. CASE GetFrom(u, t, n)
  BY <1>2, <1>7, GetFromKeeps
<1>8. CASE \E s \in Types : Change(u, s, t, n)
  BY <1>2, <1>8, ChangeKeeps
<1>9. CASE Spend(u, t, n)
  BY <1>2, <1>9, SpendKeeps
<1>10. CASE \E w \in Users : Deposit(u, w, t, n)
  BY <1>2, <1>10, DepositKeeps
<1>11. CASE \E w \in Users : Withdraw(u, w, t, n)
  BY <1>2, <1>11, WithdrawKeeps
<1> QED
  BY <1>1, <1>3, <1>4, <1>5, <1>6, <1>7, <1>8, <1>9, <1>10, <1>11

\* Every step keeps the invariant, and makes no money unless it is a crash or
\* a death.
LEMMA StepKeeps ==
    ASSUME IInv, Next
    PROVE  IInv' /\ (Worth' <= Worth \/ Crash \/ \E u \in Users : Die(u))
<1>1. CASE Money
  BY <1>1, MoneyKeeps DEF Keeps
<1>2. CASE Decay
  BY <1>2, DecayKeeps DEF Keeps
<1>3. CASE \E u \in Users, g \in Goods : Buy(u, g)
  BY <1>3, BuyKeeps DEF Keeps
<1>4. CASE \E u \in Users, g \in Goods : Sell(u, g)
  BY <1>4, SellKeeps DEF Keeps
<1>5. CASE \E u \in Users : Save(u)
  BY <1>5, SaveKeeps DEF Keeps
<1>6. CASE \E u \in Users : Quit(u)
  BY <1>6, QuitKeeps DEF Keeps
<1>7. CASE \E u \in Users : Login(u)
  BY <1>7, LoginKeeps DEF Keeps
<1>8. CASE \E u \in Users : Revive(u)
  BY <1>8, ReviveKeeps DEF Keeps
<1>9. CASE \E u \in Users : Die(u)
  BY <1>9, DieKeeps
<1>10. CASE Crash
  BY <1>10, CrashKeeps
<1> QED
  BY <1>1, <1>2, <1>3, <1>4, <1>5, <1>6, <1>7, <1>8, <1>9, <1>10 DEF Next

LEMMA StutterKeeps ==
    ASSUME IInv, UNCHANGED vars
    PROVE  IInv'
BY DEF IInv, vars, TypeOK, EncumbranceTrue, OnlyTheLivingOwn, FilesFit,
       Alive, Owned, Coins

\* The invariant: the types; what a body can still carry and what it carries
\* make up its capacity; only who lives in the game owns goods; and what a
\* file says can be carried.
THEOREM Invariant == Spec => []IInv
<1>1. IInv /\ [Next]_vars => IInv'
  BY StepKeeps, StutterKeeps
<1> QED
  BY <1>1, InitInvariant, PTL DEF Spec

\* No purse, no balance, no pile of coins and no capacity ever holds less than
\* nothing, for any payment, change, purchase or refund.
THEOREM TypeCorrect == Spec => []TypeOK
<1>1. IInv => TypeOK
  BY DEF IInv
<1> QED
  BY <1>1, Invariant, PTL

\* The capacity of a body in the game is always true to what it carries,
\* whatever it is given or refused, buys, sells, or finds in its file.
THEOREM EncumbranceHolds == Spec => []EncumbranceTrue
<1>1. IInv => EncumbranceTrue
  BY DEF IInv
<1> QED
  BY <1>1, Invariant, PTL

\* Only a death or a crash leaves more money in the world than there was.
THEOREM NoMoneyIsMade == Spec => NoMoneyMade
<1>1. ASSUME IInv, [Next]_vars
      PROVE  [Worth' <= Worth \/ Crash \/ \E u \in Users : Die(u)]_vars
  BY <1>1, StepKeeps
<1> QED
  BY <1>1, Invariant, PTL DEF Spec, NoMoneyMade
=============================================================================
