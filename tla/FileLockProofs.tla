--------------------------- MODULE FileLockProofs --------------------------
(***************************************************************************)
(* What the file lock daemon's arrays keep, for every set of bodies, files *)
(* and accounts: they agree, a lock that is in use stays, and the arrays   *)
(* implement the table of owners of module LockTable.                      *)
(*                                                                         *)
(* The proofs see a table through one fact, OwnerAt: in an aligned table   *)
(* the owner of files[i] is lockobjs[i].  Each operation on the table is   *)
(* then described once by what it does to OwnerOf (Owner...), and the      *)
(* steps use those descriptions only.                                      *)
(***************************************************************************)
EXTENDS FileLock, PlacesProofs

-----------------------------------------------------------------------------
(***************************************************************************)
(* The table                                                               *)
(***************************************************************************)

\* What the invariants say of a table: its types, and that its arrays agree.
Sound(t) ==
    /\ t \in [files : Seq(Paths), lockobjs : Seq(Lockers),
              stats : [ToSet(t.files) -> {"ed", "clog", "other"}]]
    /\ Len(t.files) = Len(t.lockobjs)
    /\ IsInjective(t.files)

\* The owner of files[i] is lockobjs[i]; a path that is not there has none.
LEMMA OwnerAt ==
    ASSUME NEW t, Sound(t)
    PROVE  /\ Len(t.files) \in Nat
           /\ DOMAIN t.files = 1..Len(t.files) /\ DOMAIN t.lockobjs = 1..Len(t.files)
           /\ \A i \in 1..Len(t.files) :
                 /\ t.files[i] \in Paths /\ t.lockobjs[i] \in Lockers
                 /\ Locked(t, t.files[i]) /\ Pos(t, t.files[i]) = i
                 /\ OwnerOf(t, t.files[i]) = t.lockobjs[i]
           /\ \A p : Locked(t, p) <=> \E i \in 1..Len(t.files) : p = t.files[i]
           /\ \A p : ~Locked(t, p) => OwnerOf(t, p) = None
<1>1. /\ Len(t.files) \in Nat
      /\ DOMAIN t.files = 1..Len(t.files) /\ DOMAIN t.lockobjs = 1..Len(t.files)
      /\ \A i \in 1..Len(t.files) : t.files[i] \in Paths /\ t.lockobjs[i] \in Lockers
  BY DEF Sound
<1>2. \A p : Locked(t, p) <=> \E i \in 1..Len(t.files) : p = t.files[i]
  BY <1>1 DEF Locked, ToSet
<1>3. ASSUME NEW i \in 1..Len(t.files) PROVE Pos(t, t.files[i]) = i
  <2> DEFINE I == {j \in 1..Len(t.files) : t.files[j] = t.files[i]}
  <2>1. I = {i}
    BY <1>1 DEF Sound, IsInjective
  <2>2. Pos(t, t.files[i]) = Min(I)
    BY <2>1 DEF Pos, SelectInSeq
  <2>3. i \in Nat
    BY <1>1
  <2>4. Min({i}) = i
    BY <2>3, LeastPlace
  <2> QED
    BY <2>1, <2>2, <2>4
<1> QED
  BY <1>1, <1>2, <1>3 DEF OwnerOf

\* Owners are objects that lock, and only locked paths have one.
LEMMA OwnerType ==
    ASSUME NEW t, Sound(t), FileLockAssumption
    PROVE  /\ \A p : Locked(t, p) => p \in Paths /\ OwnerOf(t, p) \in Lockers
           /\ \A p : Locked(t, p) <=> OwnerOf(t, p) # None
<1>1. \A p : Locked(t, p) => p \in Paths /\ OwnerOf(t, p) \in Lockers
  BY OwnerAt
<1>2. \A p : ~Locked(t, p) => OwnerOf(t, p) = None
  BY OwnerAt
<1> QED
  BY <1>1, <1>2 DEF FileLockAssumption

\* The entries at the places K keep their owners, the others are gone.
LEMMA OwnerKept ==
    ASSUME NEW t, Sound(t), NEW K \in SUBSET (1..Len(t.files))
    PROVE  /\ Sound(Keeping(t, K))
           /\ \A i \in 1..Len(t.files) :
                 OwnerOf(Keeping(t, K), t.files[i])
                     = IF i \in K THEN OwnerOf(t, t.files[i]) ELSE None
           /\ \A p : ~Locked(t, p) => OwnerOf(Keeping(t, K), p) = None
<1> DEFINE n == Len(t.files)
           c == Cardinality(K)
           u == Keeping(t, K)
<1>1. n \in Nat
  BY OwnerAt
<1>2. PICK g \in Bijection(1..c, K) : \A s : At(s, K) = [j \in 1..c |-> s[g[j]]]
  BY <1>1, AtPlaces
<1>3. c \in Nat
  BY <1>1, AtPlaces
<1>4. /\ \A j \in 1..c : g[j] \in K
      /\ \A j, k \in 1..c : g[j] = g[k] => j = k
      /\ \A i \in K : \E j \in 1..c : g[j] = i
  BY <1>2 DEF Bijection, Injection, Surjection, IsInjective
<1>5. /\ u.files = [j \in 1..c |-> t.files[g[j]]]
      /\ u.lockobjs = [j \in 1..c |-> t.lockobjs[g[j]]]
      /\ u.stats = [q \in {t.files[i] : i \in K} |-> t.stats[q]]
      /\ u = [files |-> u.files, lockobjs |-> u.lockobjs, stats |-> u.stats]
  BY <1>2 DEF Keeping
<1> HIDE DEF c, u
<1>6. \A j \in 1..c : t.files[g[j]] \in Paths /\ t.lockobjs[g[j]] \in Lockers
  BY <1>4, OwnerAt
<1>7. /\ u.files \in Seq(Paths) /\ u.lockobjs \in Seq(Lockers)
      /\ Len(u.files) = c /\ Len(u.lockobjs) = c
  <2>1. u.files \in [1..c -> Paths] /\ u.lockobjs \in [1..c -> Lockers]
    BY <1>5, <1>6
  <2>2. u.files \in Seq(Paths) /\ u.lockobjs \in Seq(Lockers)
    BY <1>3, <2>1
  <2> QED
    BY <1>3, <2>1, <2>2
<1>8. ToSet(u.files) = {t.files[i] : i \in K}
  BY <1>3, <1>4, <1>5 DEF ToSet
<1>9. {t.files[i] : i \in K} \subseteq ToSet(t.files)
  BY OwnerAt DEF ToSet
<1>10. u.stats \in [ToSet(u.files) -> {"ed", "clog", "other"}]
  BY <1>5, <1>8, <1>9 DEF Sound
<1>11. IsInjective(u.files)
  <2>1. \A i, k \in 1..n : t.files[i] = t.files[k] => i = k
    BY OwnerAt DEF Sound, IsInjective
  <2> QED
    BY <1>4, <1>5, <2>1 DEF IsInjective
<1>12. Sound(u)
  BY <1>5, <1>7, <1>10, <1>11 DEF Sound
<1>13. ASSUME NEW j \in 1..c PROVE OwnerOf(u, t.files[g[j]]) = t.lockobjs[g[j]]
  <2>1. u.files[j] = t.files[g[j]] /\ u.lockobjs[j] = t.lockobjs[g[j]]
    BY <1>5
  <2>2. OwnerOf(u, u.files[j]) = u.lockobjs[j]
    BY <1>7, <1>12, OwnerAt
  <2> QED
    BY <2>1, <2>2
<1>14. \A i \in K : OwnerOf(u, t.files[i]) = OwnerOf(t, t.files[i])
  BY <1>4, <1>13, OwnerAt
<1>15. ASSUME NEW p, Locked(u, p) PROVE \E i \in K : p = t.files[i]
  <2>1. p \in {t.files[i] : i \in K}
    BY <1>8, <1>15 DEF Locked
  <2> QED
    BY <2>1
<1>16. ASSUME NEW i \in (1..n) \ K PROVE OwnerOf(u, t.files[i]) = None
  <2>1. \A k \in K : t.files[k] # t.files[i]
    BY OwnerAt DEF Sound, IsInjective
  <2> QED
    BY <1>12, <1>15, <2>1, OwnerAt
<1>17. ASSUME NEW p, ~Locked(t, p) PROVE OwnerOf(u, p) = None
  BY <1>12, <1>15, <1>17, OwnerAt
<1> QED
  BY <1>12, <1>14, <1>16, <1>17 DEF u

\* flock() with F_LOCK gives path p the owner l and leaves the others theirs.
LEMMA OwnerLock ==
    ASSUME NEW t, Sound(t), NEW l \in Lockers, NEW p \in Paths,
           NEW prev \in {"ed", "clog", "other"}
    PROVE  /\ Sound(AfterLock(t, l, p, prev))
           /\ \A q : OwnerOf(AfterLock(t, l, p, prev), q)
                         = IF q = p THEN l ELSE OwnerOf(t, q)
<1> DEFINE n == Len(t.files)
           u == AfterLock(t, l, p, prev)
<1>1. /\ n \in Nat /\ DOMAIN t.files = 1..n /\ DOMAIN t.lockobjs = 1..n
      /\ t.files \in Seq(Paths) /\ t.lockobjs \in Seq(Lockers) /\ Len(t.lockobjs) = n
  BY OwnerAt DEF Sound
<1>2. CASE Locked(t, p)
  <2> DEFINE k == Pos(t, p)
  <2>1. k \in 1..n /\ t.files[k] = p
    BY <1>2, OwnerAt
  <2>2. /\ u.files = t.files /\ u.stats = t.stats
        /\ u.lockobjs = [t.lockobjs EXCEPT ![k] = l]
        /\ u \in [files : {u.files}, lockobjs : {u.lockobjs}, stats : {u.stats}]
    BY <1>2 DEF AfterLock, Sound
  <2> HIDE DEF k, u
  <2>3. u.lockobjs \in Seq(Lockers) /\ Len(u.lockobjs) = n
    BY <1>1, <2>1, <2>2
  <2>4. Sound(u)
    BY <1>1, <2>2, <2>3 DEF Sound
  <2>5. ASSUME NEW i \in 1..n
        PROVE  OwnerOf(u, t.files[i]) = IF t.files[i] = p THEN l ELSE OwnerOf(t, t.files[i])
    <3>1. OwnerOf(u, u.files[i]) = u.lockobjs[i]
      <4>1. i \in 1..Len(u.files)
        BY <2>2
      <4> QED
        BY <2>4, <4>1, OwnerAt
    <3>3. OwnerOf(t, t.files[i]) = t.lockobjs[i]
      BY OwnerAt
    <3>2. t.files[i] = p <=> i = k
      BY <1>1, <2>1 DEF Sound, IsInjective
    <3> QED
      BY <1>1, <2>2, <3>1, <3>2, <3>3
  <2>6. ASSUME NEW q, ~Locked(t, q) PROVE OwnerOf(u, q) = OwnerOf(t, q) /\ q # p
    <3>1. ~Locked(u, q)
      BY <2>2, <2>6 DEF Locked
    <3> QED
      BY <1>2, <2>4, <2>6, <3>1, OwnerAt
  <2> QED
    BY <2>4, <2>5, <2>6, OwnerAt DEF u
<1>3. CASE ~Locked(t, p)
  <2>1. /\ u.files = Append(t.files, p) /\ u.lockobjs = Append(t.lockobjs, l)
        /\ u.stats = [q \in DOMAIN t.stats \cup {p} |-> IF q = p THEN prev ELSE t.stats[q]]
        /\ u \in [files : {u.files}, lockobjs : {u.lockobjs}, stats : {u.stats}]
    BY <1>3 DEF AfterLock
  <2> HIDE DEF u
  <2>2. /\ u.files \in Seq(Paths) /\ Len(u.files) = n + 1
        /\ u.files[n + 1] = p /\ \A i \in 1..n : u.files[i] = t.files[i]
    BY <1>1, <2>1
  <2>3. /\ u.lockobjs \in Seq(Lockers) /\ Len(u.lockobjs) = n + 1
        /\ u.lockobjs[n + 1] = l /\ \A i \in 1..n : u.lockobjs[i] = t.lockobjs[i]
    BY <1>1, <2>1
  <2>4. \A i \in 1..n : t.files[i] # p
    BY <1>3, OwnerAt
  <2>5. DOMAIN u.files = 1..(n + 1)
    BY <2>2
  <2>6. ToSet(u.files) = ToSet(t.files) \cup {p}
    <3>1. ToSet(u.files) = {u.files[i] : i \in 1..(n + 1)}
      BY <2>5 DEF ToSet
    <3>2. ToSet(t.files) = {t.files[i] : i \in 1..n}
      BY <1>1 DEF ToSet
    <3>3. 1..(n + 1) = (1..n) \cup {n + 1}
      BY <1>1
    <3> QED
      BY <2>2, <3>1, <3>2, <3>3
  <2>7. u.stats \in [ToSet(u.files) -> {"ed", "clog", "other"}]
    BY <2>1, <2>6 DEF Sound
  <2>8. IsInjective(u.files)
    <3>1. \A i, j \in 1..n : t.files[i] = t.files[j] => i = j
      BY <1>1 DEF Sound, IsInjective
    <3>2. \A i \in 1..(n + 1) : i \in 1..n \/ i = n + 1
      BY <1>1
    <3> QED
      BY <2>2, <2>4, <2>5, <3>1, <3>2 DEF IsInjective
  <2>9. Sound(u)
    BY <2>1, <2>2, <2>3, <2>7, <2>8 DEF Sound
  <2>10. OwnerOf(u, p) = l
    BY <1>1, <2>2, <2>3, <2>9, OwnerAt
  <2>11. ASSUME NEW i \in 1..n
         PROVE  OwnerOf(u, t.files[i]) = OwnerOf(t, t.files[i])
    <3>1. i \in 1..(n + 1)
      BY <1>1
    <3>2. OwnerOf(u, u.files[i]) = u.lockobjs[i]
      BY <2>2, <2>9, <3>1, OwnerAt
    <3> QED
      BY <2>2, <2>3, <3>2, OwnerAt
  <2>12. ASSUME NEW q, ~Locked(t, q), q # p PROVE OwnerOf(u, q) = OwnerOf(t, q)
    <3>1. ~Locked(u, q)
      BY <2>6, <2>12 DEF Locked
    <3> QED
      BY <2>9, <2>12, <3>1, OwnerAt
  <2>13. \A q : OwnerOf(u, q) = IF q = p THEN l ELSE OwnerOf(t, q)
    <3> SUFFICES ASSUME NEW q PROVE OwnerOf(u, q) = IF q = p THEN l ELSE OwnerOf(t, q)
      OBVIOUS
    <3>1. CASE q = p
      BY <2>10, <3>1
    <3>2. CASE q # p /\ Locked(t, q)
      <4>1. PICK i \in 1..n : q = t.files[i]
        BY <3>2, OwnerAt
      <4> QED
        BY <2>11, <3>2, <4>1
    <3>3. CASE q # p /\ ~Locked(t, q)
      BY <2>12, <3>3
    <3> QED
      BY <3>1, <3>2, <3>3
  <2> QED
    BY <2>9, <2>13 DEF u
<1> QED
  BY <1>2, <1>3

\* F_UNLOCK takes the owner of path p only.
LEMMA OwnerUnlock ==
    ASSUME NEW t, Sound(t), NEW p
    PROVE  /\ Sound(AfterUnlock(t, p))
           /\ \A q : OwnerOf(AfterUnlock(t, p), q)
                         = IF q = p THEN None ELSE OwnerOf(t, q)
<1> DEFINE n == Len(t.files)
           k == Pos(t, p)
           K == (1..n) \ {k}
<1>1. CASE ~Locked(t, p)
  BY <1>1, OwnerAt DEF AfterUnlock
<1>2. CASE Locked(t, p)
  <2>1. k \in 1..n /\ t.files[k] = p /\ DOMAIN t.files = 1..n /\ DOMAIN t.lockobjs = 1..n
    BY <1>2, OwnerAt
  <2>2. \A i \in 1..n : t.files[i] = p <=> i = k
    BY <2>1 DEF Sound, IsInjective
  <2>3. {i \in DOMAIN t.files : t.files[i] # p} = K
    BY <2>1, <2>2
  <2>4. DOMAIN t.stats \ {p} = {t.files[i] : i \in K}
    <3>1. DOMAIN t.stats = {t.files[i] : i \in 1..n}
      BY <2>1 DEF Sound, ToSet
    <3> QED
      BY <2>2, <3>1
  <2>5. AfterUnlock(t, p) = Keeping(t, K)
    BY <1>2, <2>1, <2>3, <2>4 DEF AfterUnlock, Keeping
  <2> HIDE DEF k
  <2>6. /\ Sound(Keeping(t, K))
        /\ \A i \in 1..n : OwnerOf(Keeping(t, K), t.files[i])
                                = IF i \in K THEN OwnerOf(t, t.files[i]) ELSE None
        /\ \A q : ~Locked(t, q) => OwnerOf(Keeping(t, K), q) = None
    BY OwnerKept
  <2>7. ASSUME NEW q, Locked(t, q)
        PROVE  OwnerOf(Keeping(t, K), q) = IF q = p THEN None ELSE OwnerOf(t, q)
    <3>1. PICK i \in 1..n : q = t.files[i]
      BY <2>7, OwnerAt
    <3>2. i \in K <=> q # p
      BY <2>2, <3>1
    <3> QED
      BY <2>6, <3>1, <3>2
  <2>8. ASSUME NEW q, ~Locked(t, q)
        PROVE  OwnerOf(Keeping(t, K), q) = OwnerOf(t, q) /\ q # p
    BY <1>2, <2>6, <2>8, OwnerAt
  <2> QED
    BY <2>5, <2>6, <2>7, <2>8
<1> QED
  BY <1>1, <1>2

\* free_lockobj() takes all that l owns, and nothing else.
LEMMA OwnerFree ==
    ASSUME NEW t, Sound(t), NEW l
    PROVE  /\ Sound(AfterFree(t, l))
           /\ \A q : OwnerOf(AfterFree(t, l), q)
                         = IF OwnerOf(t, q) = l THEN None ELSE OwnerOf(t, q)
<1> DEFINE n == Len(t.files)
           K == {i \in 1..n : t.lockobjs[i] # l}
<1>1. AfterFree(t, l) = Keeping(t, K)
  BY OwnerAt DEF AfterFree
<1>2. /\ Sound(Keeping(t, K))
      /\ \A i \in 1..n : OwnerOf(Keeping(t, K), t.files[i])
                              = IF i \in K THEN OwnerOf(t, t.files[i]) ELSE None
      /\ \A q : ~Locked(t, q) => OwnerOf(Keeping(t, K), q) = None
  BY OwnerKept
<1>3. ASSUME NEW q, Locked(t, q)
      PROVE  OwnerOf(Keeping(t, K), q) = IF OwnerOf(t, q) = l THEN None ELSE OwnerOf(t, q)
  <2>1. PICK i \in 1..n : q = t.files[i]
    BY <1>3, OwnerAt
  <2>2. OwnerOf(t, q) = t.lockobjs[i]
    BY <2>1, OwnerAt
  <2> QED
    BY <1>2, <2>1, <2>2
<1>4. ASSUME NEW q, ~Locked(t, q)
      PROVE  OwnerOf(Keeping(t, K), q) = None /\ OwnerOf(t, q) = None
  BY <1>2, <1>4, OwnerAt
<1> QED
  BY <1>1, <1>2, <1>3, <1>4

\* A removal that fails takes some locks and changes no other.
LEMMA OwnerFailedFree ==
    ASSUME NEW t, Sound(t), NEW l, NEW x
    PROVE  /\ Sound(AfterFailedFree(t, l, x))
           /\ \A q : OwnerOf(AfterFailedFree(t, l, x), q) \in {None, OwnerOf(t, q)}
<1> DEFINE n == Len(t.files)
<1>1. PICK K \in SUBSET (1..n) : AfterFailedFree(t, l, x) = Keeping(t, K)
  <2>1. DOMAIN t.files = 1..n
    BY OwnerAt
  <2> QED
    BY <2>1 DEF AfterFailedFree
<1>2. /\ Sound(Keeping(t, K))
      /\ \A i \in 1..n : OwnerOf(Keeping(t, K), t.files[i])
                              = IF i \in K THEN OwnerOf(t, t.files[i]) ELSE None
      /\ \A q : ~Locked(t, q) => OwnerOf(Keeping(t, K), q) = None
  BY OwnerKept
<1>3. ASSUME NEW q, Locked(t, q)
      PROVE  OwnerOf(Keeping(t, K), q) \in {None, OwnerOf(t, q)}
  <2>1. PICK i \in 1..n : q = t.files[i]
    BY <1>3, OwnerAt
  <2> QED
    BY <1>2, <2>1
<1> QED
  BY <1>1, <1>2, <1>3

\* query_lockfn() finds a path of the body that asks, or none.
LEMMA EdFileOwned ==
    ASSUME NEW t, Sound(t), NEW l
    PROVE  LET p == EdFile(t, l) IN
           p # None => Locked(t, p) /\ OwnerOf(t, p) = l
<1> DEFINE n == Len(t.files)
           I == {i \in 1..n : OwnerOf(t, t.files[i]) = l /\ t.stats[t.files[i]] = "ed"}
<1>1. n \in Nat
  BY OwnerAt
<1>2. I # {} => Min(I) \in I
  <2>1. I \in SUBSET Nat
    BY <1>1
  <2> HIDE DEF I
  <2> QED
    BY <2>1, LeastPlace
<1>3. EdFile(t, l) = IF I = {} THEN None ELSE t.files[Min(I)]
  <2>1. I # {} => Min(I) # 0
    BY <1>2
  <2> QED
    BY <2>1 DEF EdFile, SelectInSeq
<1> QED
  BY <1>2, <1>3, OwnerAt

-----------------------------------------------------------------------------
(***************************************************************************)
(* The inductive invariant                                                 *)
(***************************************************************************)

\* A body that edits has its connection, and only admins comment the log.
InUse == /\ \A b \in Bodies : edit[b] # None => status[b] = "in"
         /\ \A b \in writing : Euid[b] \in Admins
         /\ \A n \in Accounts : clog[n] # None => n \in Admins

LockInv == TypeOK /\ Aligned /\ InUse

LEMMA TableSound == LockInv => Sound(table)
BY DEF LockInv, TypeOK, Aligned, Sound

LEMMA LockInit == FileLockAssumption /\ Init => LockInv
<1> SUFFICES ASSUME FileLockAssumption, Init PROVE LockInv
  OBVIOUS
<1>1. /\ table = [files |-> <<>>, lockobjs |-> <<>>, stats |-> <<>>]
      /\ status = [b \in Bodies |-> "out"] /\ edit = [b \in Bodies |-> None]
      /\ clog = [n \in Accounts |-> None] /\ writing = {} /\ upload = {}
  BY DEF Init
<1>2. ToSet(<<>>) = {} /\ Len(<<>>) = 0 /\ DOMAIN <<>> = {}
  BY DEF ToSet
<1>3. <<>> \in [{} -> {"ed", "clog", "other"}]
  BY <1>2
<1>4. <<>> \in Seq(Paths) /\ <<>> \in Seq(Lockers)
  OBVIOUS
<1>5. TypeOK
  BY <1>1, <1>2, <1>3, <1>4 DEF TypeOK
<1>6. Aligned
  BY <1>1, <1>2 DEF Aligned, IsInjective
<1> QED
  BY <1>1, <1>5, <1>6 DEF LockInv, InUse

\* A sound table and well-typed variables are all of TypeOK and Aligned.
LEMMA SoundTable ==
    ASSUME Sound(table'),
           status' \in [Bodies -> {"out", "in", "linkdead", "gone"}],
           edit' \in [Bodies -> Paths \cup {None}],
           clog' \in [Accounts -> Files \cup {None}],
           writing' \subseteq Bodies, upload' \subseteq Files
    PROVE  TypeOK' /\ Aligned'
BY DEF Sound, TypeOK, Aligned

LEMMA LockNext == FileLockAssumption /\ LockInv /\ [Next]_vars => LockInv'
<1> SUFFICES ASSUME FileLockAssumption, LockInv, [Next]_vars PROVE LockInv'
  OBVIOUS
<1>1. Sound(table)
  BY TableSound
<1>2. /\ status \in [Bodies -> {"out", "in", "linkdead", "gone"}]
      /\ edit \in [Bodies -> Paths \cup {None}]
      /\ clog \in [Accounts -> Files \cup {None}]
      /\ writing \subseteq Bodies /\ upload \subseteq Files
  BY DEF LockInv, TypeOK
<1>3. /\ \A b \in Bodies : edit[b] # None => status[b] = "in"
      /\ \A b \in writing : Euid[b] \in Admins
      /\ \A n \in Accounts : clog[n] # None => n \in Admins
  BY DEF LockInv, InUse
<1>4. /\ \A b \in Bodies : Euid[b] \in Accounts /\ b \in Lockers
      /\ \A b \in Bodies : \A f \in Files : Tmp(b, f) \in Paths
      /\ Files \subseteq Paths /\ FtpD \in Lockers
  BY DEF Accounts, Paths, Tmp, Lockers
<1> USE DEF LockInv, InUse
<1>5. ASSUME NEW b \in Bodies, Login(b) PROVE LockInv'
  <2>1. /\ status' = [status EXCEPT ![b] = "in"]
        /\ UNCHANGED <<table, edit, clog, writing, upload>>
    BY <1>5 DEF Login
  <2>2. status' \in [Bodies -> {"out", "in", "linkdead", "gone"}]
    BY <1>2, <2>1
  <2>3. InUse'
    BY <1>2, <1>3, <2>1
  <2> QED
    BY <1>1, <1>2, <2>1, <2>2, <2>3, SoundTable
<1>6. ASSUME NEW b \in Bodies, NEW st \in {"in", "linkdead"}, LinkLost(b, st)
      PROVE LockInv'
  <2>1. /\ status' = [status EXCEPT ![b] = st] /\ edit' = [edit EXCEPT ![b] = None]
        /\ writing' = writing \ {b} /\ UNCHANGED <<table, clog, upload>>
    BY <1>6 DEF LinkLost
  <2>2. /\ status' \in [Bodies -> {"out", "in", "linkdead", "gone"}]
        /\ edit' \in [Bodies -> Paths \cup {None}] /\ writing' \subseteq Bodies
    BY <1>2, <2>1
  <2>3. InUse'
    BY <1>2, <1>3, <2>1
  <2> QED
    BY <1>1, <1>2, <2>1, <2>2, <2>3, SoundTable
<1>7. ASSUME NEW b \in Bodies, Reconnect(b) PROVE LockInv'
  <2>1. /\ status' = [status EXCEPT ![b] = "in"]
        /\ UNCHANGED <<table, edit, clog, writing, upload>>
    BY <1>7 DEF Reconnect
  <2>2. status' \in [Bodies -> {"out", "in", "linkdead", "gone"}]
    BY <1>2, <2>1
  <2>3. InUse'
    BY <1>2, <1>3, <2>1
  <2> QED
    BY <1>1, <1>2, <2>1, <2>2, <2>3, SoundTable
<1>8. ASSUME NEW b \in Bodies, Leave(b) PROVE LockInv'
  <2>1. /\ status' = [status EXCEPT ![b] = "gone"] /\ edit' = [edit EXCEPT ![b] = None]
        /\ writing' = writing \ {b} /\ UNCHANGED <<clog, upload>>
    BY <1>8 DEF Leave
  <2>2. /\ status' \in [Bodies -> {"out", "in", "linkdead", "gone"}]
        /\ edit' \in [Bodies -> Paths \cup {None}] /\ writing' \subseteq Bodies
    BY <1>2, <2>1
  <2>3. InUse'
    BY <1>2, <1>3, <2>1
  <2>4. Sound(table')
    BY <1>1, <1>8, OwnerFree DEF Leave
  <2> QED
    BY <1>2, <2>1, <2>2, <2>3, <2>4, SoundTable
<1>9. ASSUME NEW b \in Bodies, NEW x \in Bodies, DestEditing(x, b) PROVE LockInv'
  <2>1. Sound(table') /\ UNCHANGED <<status, edit, clog, writing, upload>>
    BY <1>1, <1>9, OwnerFailedFree DEF DestEditing
  <2> QED
    BY <1>2, <1>3, <2>1, SoundTable
<1>10. ASSUME NEW b \in Bodies, NEW f \in Files, Ed(b, f) PROVE LockInv'
  <2>1. PICK p \in Paths : /\ table' = AfterLock(table, b, p, "ed")
                           /\ edit' = [edit EXCEPT ![b] = p]
                           /\ status[b] = "in"
                           /\ UNCHANGED <<status, clog, writing, upload>>
    BY <1>4, <1>10 DEF Ed
  <2>2. Sound(table')
    BY <1>1, <1>4, <2>1, OwnerLock
  <2>3. edit' \in [Bodies -> Paths \cup {None}]
    BY <1>2, <2>1
  <2>4. InUse'
    BY <1>2, <1>3, <2>1
  <2> QED
    BY <1>2, <2>1, <2>2, <2>3, <2>4, SoundTable
<1>11. ASSUME NEW b \in Bodies, EdQuit(b) PROVE LockInv'
  <2>1. /\ edit' = [edit EXCEPT ![b] = None]
        /\ table' = AfterUnlock(table, EdFile(table, b))
        /\ UNCHANGED <<status, clog, writing, upload>>
    BY <1>11 DEF EdQuit, AfterEditing
  <2>2. Sound(table')
    BY <1>1, <2>1, OwnerUnlock
  <2>3. edit' \in [Bodies -> Paths \cup {None}]
    BY <1>2, <2>1
  <2>4. InUse'
    BY <1>2, <1>3, <2>1
  <2> QED
    BY <1>2, <2>1, <2>2, <2>3, <2>4, SoundTable
<1>12. ASSUME NEW b \in Bodies, NEW f \in Files, LockBriefly(b, f) PROVE LockInv'
  <2>1. /\ table' = AfterUnlock(AfterLock(table, b, f, "other"), f)
        /\ UNCHANGED <<status, edit, clog, writing, upload>>
    BY <1>12 DEF LockBriefly
  <2>2. Sound(AfterLock(table, b, f, "other"))
    BY <1>1, <1>4, OwnerLock
  <2>3. Sound(table')
    BY <2>1, <2>2, OwnerUnlock
  <2> QED
    BY <1>2, <1>3, <2>1, <2>3, SoundTable
<1>13. ASSUME NEW b \in Bodies, NEW f \in Files, Clog(b, f) PROVE LockInv'
  <2>1. /\ Euid[b] \in Admins
        /\ table' = AfterLock(table, b, f, "clog")
        /\ clog' = [clog EXCEPT ![Euid[b]] = f]
        /\ writing' = writing \cup {b}
        /\ UNCHANGED <<status, edit, upload>>
    BY <1>13 DEF Clog
  <2>2. Sound(table')
    BY <1>1, <1>4, <2>1, OwnerLock
  <2>3. clog' \in [Accounts -> Files \cup {None}] /\ writing' \subseteq Bodies
    BY <1>2, <2>1
  <2>4. InUse'
    BY <1>2, <1>3, <2>1
  <2> QED
    BY <1>2, <2>1, <2>2, <2>3, <2>4, SoundTable
<1>14. ASSUME NEW b \in Bodies, ClogDone(b) \/ ClogClear(b) PROVE LockInv'
  <2>1. /\ clog' = [clog EXCEPT ![Euid[b]] = None]
        /\ writing' \subseteq writing
        /\ UNCHANGED <<status, edit, upload>>
    BY <1>14 DEF ClogDone, ClogClear
  <2>2. Sound(table')
    <3>1. table' = table \/ table' = AfterUnlock(table, clog[Euid[b]])
      BY <1>14 DEF ClogDone, ClogClear
    <3> QED
      BY <1>1, <3>1, OwnerUnlock
  <2>3. clog' \in [Accounts -> Files \cup {None}]
    BY <1>2, <2>1
  <2>4. InUse'
    BY <1>2, <1>3, <2>1
  <2> QED
    BY <1>2, <2>1, <2>2, <2>3, <2>4, SoundTable
<1>15. ASSUME NEW f \in Files, FtpStore(f) \/ FtpStored(f) PROVE LockInv'
  <2>1. /\ table' = AfterLock(table, FtpD, f, "other") \/ table' = AfterUnlock(table, f)
        /\ upload' \subseteq Files
        /\ UNCHANGED <<status, edit, clog, writing>>
    BY <1>2, <1>15 DEF FtpStore, FtpStored
  <2>2. Sound(table')
    BY <1>1, <1>4, <2>1, OwnerLock, OwnerUnlock
  <2> QED
    BY <1>2, <1>3, <2>1, <2>2, SoundTable
<1>16. CASE UNCHANGED vars
  BY <1>1, <1>2, <1>3, <1>16, SoundTable DEF vars
<1> QED
  BY <1>5, <1>6, <1>7, <1>8, <1>9, <1>10, <1>11, <1>12, <1>13, <1>14, <1>15, <1>16
  DEF Next, NetDead, Displaced, Quit, Sweep, Dest

\* The invariant holds in every state of every run.
THEOREM LockInvariant == Spec => []LockInv
<1>1. FileLockAssumption
  BY FileLockAssumption
<1> QED
  BY <1>1, LockInit, LockNext, PTL DEF Spec

\* Every value of the model's variables is of its type, and the table has
\* stats for the locked paths only.
THEOREM LockTypes == Spec => []TypeOK
<1>1. LockInv => TypeOK
  BY DEF LockInv
<1> QED
  BY <1>1, LockInvariant, PTL

\* flock() never finds the two arrays of different length and never forgets
\* all locks for it: no path is in the table twice.
THEOREM ArraysAgree == Spec => []Aligned
<1>1. LockInv => Aligned
  BY DEF LockInv
<1> QED
  BY <1>1, LockInvariant, PTL

-----------------------------------------------------------------------------
(***************************************************************************)
(* Locks in use stay                                                       *)
(***************************************************************************)

\* A path that flock() grants was free, the owner's already, or left behind
\* by a body without its connection.
LEMMA Granted ==
    ASSUME LockInv, FileLockAssumption, NEW l, NEW p, NEW prev, CanLock(l, p, prev)
    PROVE  \/ OwnerOf(table, p) \in {None, l}
           \/ OwnerOf(table, p) \in Bodies /\ status[OwnerOf(table, p)] = "linkdead"
<1>1. CASE ~Locked(table, p)
  BY <1>1, TableSound, OwnerAt
<1>2. CASE Stale(p)
  BY <1>2 DEF Stale
<1>3. CASE Reusable(l, p, prev)
  BY <1>3 DEF Reusable
<1> QED
  BY <1>1, <1>2, <1>3 DEF CanLock

\* What the action property says of one step.
EditorsKeep == \A b \in Bodies :
    edit[b] # None /\ edit'[b] = edit[b] /\ OwnerOf(table, edit[b]) = b
        => OwnerOf(table', edit[b]) = b \/ Unchecked
TransfersKeep == \A f \in upload \cap upload' :
    OwnerOf(table, f) = FtpD => OwnerOf(table', f) = FtpD \/ Unchecked

\* A step that gives no lock of a connected body and none of the ftp daemon
\* to others keeps them all.
LEMMA GrantKeeps ==
    ASSUME FileLockAssumption, LockInv, NEW l \in Lockers, NEW p \in Paths,
           NEW prev \in {"ed", "clog", "other"}, CanLock(l, p, prev),
           table' = AfterLock(table, l, p, prev)
    PROVE  EditorsKeep /\ TransfersKeep
<1>1. \A q : OwnerOf(table', q) = IF q = p THEN l ELSE OwnerOf(table, q)
  BY TableSound, OwnerLock
<1>2. \/ OwnerOf(table, p) \in {None, l}
      \/ OwnerOf(table, p) \in Bodies /\ status[OwnerOf(table, p)] = "linkdead"
  BY Granted
<1>3. \A b \in Bodies : edit[b] # None => status[b] = "in"
  BY DEF LockInv, InUse
<1>4. FtpD \notin Bodies /\ FtpD # None /\ None \notin Bodies
  BY DEF FileLockAssumption, Lockers
<1>5. EditorsKeep
  BY <1>1, <1>2, <1>3, <1>4 DEF EditorsKeep
<1>6. TransfersKeep
  BY <1>1, <1>2, <1>4 DEF TransfersKeep
<1> QED
  BY <1>5, <1>6

LEMMA KeepsStep ==
    ASSUME FileLockAssumption, LockInv, [Next]_vars
    PROVE  EditorsKeep /\ TransfersKeep
<1>1. Sound(table)
  BY TableSound
<1>2. /\ \A b \in Bodies : edit[b] # None => status[b] = "in"
      /\ \A b \in writing : Euid[b] \in Admins
      /\ \A n \in Accounts : clog[n] # None => n \in Admins
      /\ edit \in [Bodies -> Paths \cup {None}]
  BY DEF LockInv, InUse, TypeOK
<1>3. /\ FtpD \notin Bodies /\ FtpD # None /\ None \notin Bodies
      /\ \A b \in Bodies : Euid[b] \in Accounts /\ b \in Lockers
      /\ \A b \in Bodies : \A f \in Files : Tmp(b, f) \in Paths
      /\ Files \subseteq Paths /\ FtpD \in Lockers
  BY DEF FileLockAssumption, Lockers, Accounts, Paths, Tmp
<1>4. ASSUME table' = table PROVE EditorsKeep /\ TransfersKeep
  BY <1>4 DEF EditorsKeep, TransfersKeep
<1>5. ASSUME NEW b \in Bodies, Leave(b) PROVE EditorsKeep /\ TransfersKeep
  <2>1. \A q : OwnerOf(table', q) = IF OwnerOf(table, q) = b THEN None ELSE OwnerOf(table, q)
    BY <1>1, <1>5, OwnerFree DEF Leave
  <2>2. edit'[b] = None
    BY <1>2, <1>5 DEF Leave
  <2> QED
    BY <1>3, <2>1, <2>2 DEF EditorsKeep, TransfersKeep
<1>6. ASSUME NEW b \in Bodies, NEW x \in Bodies, DestEditing(x, b)
      PROVE  EditorsKeep /\ TransfersKeep
  <2>1. Unchecked
    BY <1>6 DEF Unchecked, DestEditing
  <2> QED
    BY <2>1 DEF EditorsKeep, TransfersKeep
<1>7. ASSUME NEW b \in Bodies, NEW f \in Files, Ed(b, f) PROVE EditorsKeep /\ TransfersKeep
  <2>1. PICK p \in Paths : CanLock(b, p, "ed") /\ table' = AfterLock(table, b, p, "ed")
    BY <1>3, <1>7 DEF Ed
  <2> QED
    BY <1>3, <2>1, GrantKeeps
<1>8. ASSUME NEW b \in Bodies, EdQuit(b) PROVE EditorsKeep /\ TransfersKeep
  <2> DEFINE e == EdFile(table, b)
  <2>1. \A q : OwnerOf(table', q) = IF q = e THEN None ELSE OwnerOf(table, q)
    BY <1>1, <1>8, OwnerUnlock DEF EdQuit, AfterEditing
  <2>2. e # None => OwnerOf(table, e) = b
    BY <1>1, EdFileOwned
  <2>3. OwnerOf(table, None) = None
    BY <1>1, OwnerType DEF FileLockAssumption
  <2>4. edit'[b] = None
    BY <1>2, <1>8 DEF EdQuit
  <2> HIDE DEF e
  <2> QED
    BY <1>3, <2>1, <2>2, <2>3, <2>4 DEF EditorsKeep, TransfersKeep
<1>9. ASSUME NEW b \in Bodies, NEW f \in Files, LockBriefly(b, f)
      PROVE  EditorsKeep /\ TransfersKeep
  <2> DEFINE t == AfterLock(table, b, f, "other")
  <2>1. Sound(t) /\ \A q : OwnerOf(t, q) = IF q = f THEN b ELSE OwnerOf(table, q)
    BY <1>1, <1>3, OwnerLock
  <2>2. table' = AfterUnlock(t, f) /\ CanLock(b, f, "other") /\ edit' = edit
    BY <1>9 DEF LockBriefly
  <2> HIDE DEF t
  <2>3. \A q : OwnerOf(table', q) = IF q = f THEN None ELSE OwnerOf(table, q)
    BY <2>1, <2>2, OwnerUnlock
  <2>4. ~Reusable(b, f, "other")
    BY DEF Reusable
  <2>5. \/ OwnerOf(table, f) = None
        \/ OwnerOf(table, f) \in Bodies /\ status[OwnerOf(table, f)] = "linkdead"
    BY <1>1, <2>2, <2>4, OwnerAt DEF CanLock, Stale
  <2> QED
    BY <1>2, <1>3, <2>3, <2>5 DEF EditorsKeep, TransfersKeep
<1>10. ASSUME NEW b \in Bodies, NEW f \in Files, Clog(b, f) PROVE EditorsKeep /\ TransfersKeep
  BY <1>3, <1>10, GrantKeeps DEF Clog
<1>11. ASSUME NEW b \in Bodies, ClogDone(b) \/ ClogClear(b) PROVE EditorsKeep /\ TransfersKeep
  <2>1. Euid[b] \in Admins
    BY <1>2, <1>3, <1>11 DEF ClogDone, ClogClear
  <2>2. Unchecked
    BY <1>11, <2>1 DEF Unchecked
  <2> QED
    BY <2>2 DEF EditorsKeep, TransfersKeep
<1>12. ASSUME NEW f \in Files, FtpStore(f) PROVE EditorsKeep /\ TransfersKeep
  BY <1>3, <1>12, GrantKeeps DEF FtpStore
<1>13. ASSUME NEW f \in Files, FtpStored(f) PROVE EditorsKeep /\ TransfersKeep
  <2>1. \A q : OwnerOf(table', q) = IF q = f THEN None ELSE OwnerOf(table, q)
    BY <1>1, <1>13, OwnerUnlock DEF FtpStored
  <2>2. f \notin upload'
    BY <1>13 DEF FtpStored
  <2>3. OwnerOf(table, f) = FtpD \/ Unchecked
    BY <1>13 DEF Unchecked
  <2> QED
    BY <1>3, <2>1, <2>2, <2>3 DEF EditorsKeep, TransfersKeep
<1> QED
  BY <1>4, <1>5, <1>6, <1>7, <1>8, <1>9, <1>10, <1>11, <1>12, <1>13
  DEF Next, vars, Login, NetDead, Displaced, LinkLost, Reconnect, Quit, Sweep, Dest

\* No step takes the lock of a path that is being edited or stored by ftp,
\* unless it is one of those that flock() does not check.
THEOREM InUseStays == Spec => LocksInUseStay
<1>1. FileLockAssumption
  BY FileLockAssumption
<1>2. LockInv /\ [Next]_vars =>
        [/\ \A b \in Bodies :
              edit[b] # None /\ edit'[b] = edit[b] /\ OwnerOf(table, edit[b]) = b
                  => OwnerOf(table', edit[b]) = b \/ Unchecked
         /\ \A f \in upload \cap upload' :
              OwnerOf(table, f) = FtpD => OwnerOf(table', f) = FtpD \/ Unchecked]_vars
  BY <1>1, KeepsStep DEF EditorsKeep, TransfersKeep
<1> QED
  BY <1>2, LockInvariant, PTL DEF Spec, LocksInUseStay

-----------------------------------------------------------------------------
(***************************************************************************)
(* The arrays implement the table of owners                                *)
(***************************************************************************)

Owners == [p \in Paths |-> OwnerOf(table, p)]
PromiseStep == [Promise!Next]_(Promise!vars)

\* What the abstract actions ask for, in terms of Owners.
LEMMA StepStutters ==
    ASSUME Owners' = Owners, status' = status
    PROVE  PromiseStep
BY DEF PromiseStep, Promise!vars, Owners

LEMMA StepReleases ==
    ASSUME NEW S \in SUBSET Paths, status' = status,
           \A p \in Paths : OwnerOf(table', p) = IF p \in S THEN None ELSE OwnerOf(table, p)
    PROVE  PromiseStep
<1>1. Promise!Release(S)
  BY DEF Promise!Release
<1> QED
  BY <1>1 DEF PromiseStep, Promise!Next

LEMMA StepMoves ==
    ASSUME NEW b \in Bodies, NEW st \in {"in", "linkdead", "gone"},
           status[b] # "gone", status' = [status EXCEPT ![b] = st],
           \A p \in Paths : OwnerOf(table', p)
               = IF st = "gone" /\ OwnerOf(table, p) = b THEN None ELSE OwnerOf(table, p)
    PROVE  PromiseStep
<1>1. Promise!Move(b)
  BY DEF Promise!Move
<1> QED
  BY <1>1 DEF PromiseStep, Promise!Next

LEMMA StepGrants ==
    ASSUME FileLockAssumption, LockInv, NEW l \in Lockers, NEW p \in Paths,
           NEW prev \in {"ed", "clog", "other"}, CanLock(l, p, prev),
           table' = AfterLock(table, l, p, prev),
           l \in Bodies => status[l] = "in", status' = status
    PROVE  PromiseStep
<1>1. \A q : OwnerOf(table', q) = IF q = p THEN l ELSE OwnerOf(table, q)
  BY TableSound, OwnerLock
<1>2. \/ OwnerOf(table, p) \in {None, l}
      \/ OwnerOf(table, p) \in Bodies /\ status[OwnerOf(table, p)] = "linkdead"
  BY Granted
<1>3. FtpD \notin Bodies /\ FtpD # None /\ None \notin Bodies
  BY DEF FileLockAssumption, Lockers
<1>4. CASE OwnerOf(table, p) = l
  BY <1>1, <1>4, StepStutters DEF Owners
<1>5. CASE OwnerOf(table, p) # l
  <2>1. Promise!Grant(l, p)
    BY <1>1, <1>2, <1>3, <1>5 DEF Promise!Grant
  <2> QED
    BY <2>1 DEF PromiseStep, Promise!Next, Lockers
<1> QED
  BY <1>4, <1>5

LEMMA LockStep ==
    ASSUME FileLockAssumption, LockInv, [Next]_vars
    PROVE  PromiseStep
<1>1. Sound(table)
  BY TableSound
<1>2. /\ \A b \in Bodies : b \in Lockers
      /\ \A b \in Bodies : \A f \in Files : Tmp(b, f) \in Paths
      /\ Files \subseteq Paths /\ FtpD \in Lockers /\ FtpD \notin Bodies
  BY DEF FileLockAssumption, Lockers, Accounts, Paths, Tmp
<1>3. ASSUME NEW p, status' = status, table' = AfterUnlock(table, p) PROVE PromiseStep
  <2>1. \A q : OwnerOf(table', q) = IF q = p THEN None ELSE OwnerOf(table, q)
    BY <1>1, <1>3, OwnerUnlock
  <2> DEFINE S == {p} \cap Paths
  <2>2. S \in SUBSET Paths
    OBVIOUS
  <2>3. \A q \in Paths : OwnerOf(table', q) = IF q \in S THEN None ELSE OwnerOf(table, q)
    BY <2>1
  <2> HIDE DEF S
  <2> QED
    BY <1>3, <2>2, <2>3, StepReleases
<1>4. ASSUME NEW b \in Bodies, NEW st \in {"in", "linkdead"}, table' = table,
             status[b] # "gone", status' = [status EXCEPT ![b] = st]
      PROVE  PromiseStep
  BY <1>4, StepMoves
<1>5. ASSUME NEW b \in Bodies, status[b] # "gone", Leave(b) PROVE PromiseStep
  <2>1. \A q : OwnerOf(table', q) = IF OwnerOf(table, q) = b THEN None ELSE OwnerOf(table, q)
    BY <1>1, <1>5, OwnerFree DEF Leave
  <2> DEFINE st == "gone"
  <2>2. st \in {"in", "linkdead", "gone"} /\ status' = [status EXCEPT ![b] = st]
    BY <1>5 DEF Leave
  <2>3. \A p \in Paths : OwnerOf(table', p)
            = IF st = "gone" /\ OwnerOf(table, p) = b THEN None ELSE OwnerOf(table, p)
    BY <2>1
  <2> HIDE DEF st
  <2> QED
    BY <1>5, <2>2, <2>3, StepMoves
<1>6. ASSUME NEW b \in Bodies, NEW x \in Bodies, DestEditing(x, b) PROVE PromiseStep
  <2> DEFINE S == {p \in Paths : OwnerOf(table', p) # OwnerOf(table, p)}
  <2>1. \A q : OwnerOf(table', q) \in {None, OwnerOf(table, q)}
    BY <1>1, <1>6, OwnerFailedFree DEF DestEditing
  <2>2. \A p \in Paths : OwnerOf(table', p) = IF p \in S THEN None ELSE OwnerOf(table, p)
    BY <2>1
  <2>3. status' = status
    BY <1>6 DEF DestEditing
  <2>4. S \in SUBSET Paths
    OBVIOUS
  <2> HIDE DEF S
  <2> QED
    BY <2>2, <2>3, <2>4, StepReleases
<1>7. ASSUME NEW b \in Bodies, NEW f \in Files, Ed(b, f) PROVE PromiseStep
  <2>1. PICK p \in Paths : /\ CanLock(b, p, "ed") /\ table' = AfterLock(table, b, p, "ed")
                           /\ status[b] = "in" /\ status' = status
    BY <1>2, <1>7 DEF Ed
  <2> QED
    BY <1>2, <2>1, StepGrants
<1>8. ASSUME NEW b \in Bodies, NEW f \in Files, LockBriefly(b, f) PROVE PromiseStep
  <2> DEFINE t == AfterLock(table, b, f, "other")
  <2>1. Sound(t) /\ \A q : OwnerOf(t, q) = IF q = f THEN b ELSE OwnerOf(table, q)
    BY <1>1, <1>2, OwnerLock
  <2>2. table' = AfterUnlock(t, f) /\ status' = status
    BY <1>8 DEF LockBriefly
  <2> HIDE DEF t
  <2>3. \A q : OwnerOf(table', q) = IF q \in {f} THEN None ELSE OwnerOf(table, q)
    BY <2>1, <2>2, OwnerUnlock
  <2>4. {f} \in SUBSET Paths
    BY <1>2
  <2> QED
    BY <2>2, <2>3, <2>4, StepReleases
<1>9. ASSUME table' = table, status' = status PROVE PromiseStep
  BY <1>9, StepStutters DEF Owners
<1>10. ASSUME NEW b \in Bodies, EdQuit(b) \/ ClogDone(b) \/ ClogClear(b) PROVE PromiseStep
  BY <1>3, <1>9, <1>10 DEF EdQuit, AfterEditing, ClogDone, ClogClear
<1>11. ASSUME NEW b \in Bodies, NEW f \in Files, Clog(b, f) PROVE PromiseStep
  BY <1>2, <1>11, StepGrants DEF Clog
<1>12. ASSUME NEW f \in Files, FtpStore(f) \/ FtpStored(f) PROVE PromiseStep
  BY <1>2, <1>3, <1>12, StepGrants DEF FtpStore, FtpStored
<1>13. ASSUME NEW b \in Bodies,
              Login(b) \/ NetDead(b) \/ Displaced(b) \/ Reconnect(b)
       PROVE  PromiseStep
  BY <1>4, <1>13 DEF Login, NetDead, Displaced, LinkLost, Reconnect
<1>14. ASSUME NEW b \in Bodies, NEW x \in Bodies, Quit(b) \/ Sweep(b) \/ Dest(x, b)
       PROVE  PromiseStep
  BY <1>5, <1>14 DEF Quit, Sweep, Dest
<1> QED
  BY <1>6, <1>7, <1>8, <1>9, <1>10, <1>11, <1>12, <1>13, <1>14 DEF Next, vars

\* The parallel arrays implement a table that gives each path at most one
\* owner, passes a lock on only when its owner has lost its connection, and
\* keeps no lock for a body that has left the game.
THEOREM ArraysImplementLockTable == Spec => ImplementsLockTable
<1>1. FileLockAssumption
  BY FileLockAssumption
<1>2. Init => Promise!Init
  <2> SUFFICES ASSUME Init PROVE Promise!Init
    OBVIOUS
  <2>1. LockInv /\ table = [files |-> <<>>, lockobjs |-> <<>>, stats |-> <<>>]
    BY <1>1, LockInit DEF Init
  <2>2. \A p : ~Locked(table, p)
    BY <2>1 DEF Locked, ToSet
  <2>3. \A p \in Paths : OwnerOf(table, p) = None
    BY <2>1, <2>2, TableSound, OwnerAt
  <2> QED
    BY <2>3 DEF Promise!Init, Init
<1>3. LockInv /\ [Next]_vars => [Promise!Next]_(Promise!vars)
  BY <1>1, LockStep DEF PromiseStep
<1> QED
  BY <1>2, <1>3, LockInvariant, PTL DEF Spec, ImplementsLockTable, Promise!Spec
=============================================================================
