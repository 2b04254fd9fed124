---------------------------- MODULE MailProofs -----------------------------
(***************************************************************************)
(* What is proved of Mail for any users, messages, and limits: the daemon  *)
(* opens, writes and swaps boxes without changing what is in them, a       *)
(* mailbox and the messages that name its owner agree, and only what its   *)
(* owner has marked goes out of it.                                        *)
(***************************************************************************)
EXTENDS Mail, PlacesProofs

-----------------------------------------------------------------------------
(* Types *)

Daemon == {m \in [file : Users \cup {None}, mailbox : Seq(Ids), disk : [Users -> Seq(Ids)]] :
              m.file = None => m.mailbox = <<>>}
Readers == [Ids -> SUBSET Users]
States == [mb : Daemon, remain : Readers]
Mailers == {r \in [view : Seq(Ids), marked : SUBSET Nat] : r.marked \subseteq DOMAIN r.view}

\* What despool remembers while it asks.
Spools == [owner : Users \cup {None}, mailbox : Seq(Ids)]

Types ==
    /\ mb \in Daemon
    /\ remain \in Readers
    /\ sending # None => sending \in [idx : Ids, left : (SUBSET Users) \ {{}}, once : BOOLEAN]
    /\ mailer \in [Users -> Mailers \cup {None}]
    /\ asked # {} => spool \in Spools
    /\ asked = {} => spool = None
    /\ asked \subseteq Users /\ refused \subseteq Users /\ hurt \subseteq Users

LEMMA TypesTyped == Types => TypeOK
BY DEF Types, TypeOK, Daemon, Readers, Mailers, Spools

-----------------------------------------------------------------------------
(* The daemon changes boxes in memory and on disk, and with that no box. *)

LEMMA BoxOpened ==
    ASSUME NEW m \in Daemon, NEW u \in Users
    PROVE  /\ Opened(m, u) \in Daemon
           /\ Opened(m, u).file = u /\ Opened(m, u).mailbox = Box(m, u)
           /\ \A v \in Users : Box(Opened(m, u), v) = Box(m, v)
<1> USE MailAssumption
<1>1. CASE m.file = u
  BY <1>1 DEF Opened, Box, Daemon
<1>2. CASE m.file # u /\ m.file = None
  BY <1>2 DEF Opened, Box, Daemon
<1>3. CASE m.file # u /\ m.file # None
  <2> DEFINE d == [m.disk EXCEPT ![m.file] = m.mailbox]
  <2>1. Opened(m, u) = [disk |-> d, file |-> u, mailbox |-> m.disk[u]]
    BY <1>3 DEF Opened
  <2>2. d \in [Users -> Seq(Ids)] /\ m.file \in Users
    BY <1>3 DEF Daemon
  <2>3. \A v \in Users : d[v] = IF v = m.file THEN m.mailbox ELSE m.disk[v]
    BY <1>3 DEF Daemon
  <2> HIDE DEF d
  <2> QED
    BY <1>3, <2>1, <2>2, <2>3 DEF Box, Daemon
<1> QED
  BY <1>1, <1>2, <1>3

LEMMA BoxFlushed ==
    ASSUME NEW m \in Daemon
    PROVE  /\ Flushed(m) \in Daemon
           /\ \A v \in Users : Box(Flushed(m), v) = Box(m, v) /\ Flushed(m).disk[v] = Box(m, v)
<1> USE MailAssumption
<1>1. CASE m.file = None
  BY <1>1 DEF Flushed, Box, Daemon
<1>2. CASE m.file # None
  <2> DEFINE d == [m.disk EXCEPT ![m.file] = m.mailbox]
  <2>1. Flushed(m) = [m EXCEPT !.disk = d]
    BY <1>2 DEF Flushed
  <2>2. d \in [Users -> Seq(Ids)] /\ m.file \in Users
    BY <1>2 DEF Daemon
  <2>3. \A v \in Users : d[v] = IF v = m.file THEN m.mailbox ELSE m.disk[v]
    BY <1>2 DEF Daemon
  <2> HIDE DEF d
  <2> QED
    BY <1>2, <2>1, <2>2, <2>3 DEF Box, Daemon
<1> QED
  BY <1>1, <1>2

LEMMA BoxTyped ==
    ASSUME NEW m \in Daemon, NEW u \in Users
    PROVE  Box(m, u) \in Seq(Ids)
BY DEF Box, Daemon

\* Something is put in the place of the box that is open.
LEMMA BoxChanged ==
    ASSUME NEW m \in Daemon, m.file \in Users, NEW q \in Seq(Ids)
    PROVE  LET n == [m EXCEPT !.mailbox = q]
           IN  /\ n \in Daemon
               /\ \A v \in Users : Box(n, v) = IF v = m.file THEN q ELSE Box(m, v)
BY MailAssumption DEF Daemon, Box

\* Memory is lost: a box is as it was written.
LEMMA BoxLost ==
    ASSUME mb \in Daemon, MemoryLost
    PROVE  /\ mb' \in Daemon
           /\ \A v \in Users \ Unsaved : Box(mb', v) = Box(mb, v)
<1>1. mb' = [mb EXCEPT !.file = None, !.mailbox = <<>>]
  BY DEF MemoryLost
<1>2. <<>> \in Seq(Ids)
  OBVIOUS
<1> QED
  BY <1>1, <1>2, MailAssumption DEF Daemon, Box, Unsaved

-----------------------------------------------------------------------------
(* A mailbox and the messages that name its owner *)

\* Box q has each message of u's once, and no other.
Matches(q, r, u) == IsInjective(q) /\ Range(q) = {id \in Ids : u \in r[id]}

\* An entry is taken out: what stood before it stays where it was.
LEMMA TakenOut ==
    ASSUME NEW q \in Seq(Ids), NEW num \in 1..Len(q)
    PROVE  /\ RemoveAt(q, num) \in Seq(Ids) /\ Len(RemoveAt(q, num)) = Len(q) - 1
           /\ \A i \in 1..(num - 1) : RemoveAt(q, num)[i] = q[i]
           /\ Range(q) \subseteq Range(RemoveAt(q, num)) \cup {q[num]}
           /\ IsInjective(q) => /\ IsInjective(RemoveAt(q, num))
                                /\ Range(RemoveAt(q, num)) = Range(q) \ {q[num]}
<1> DEFINE r == RemoveAt(q, num)
           n == Len(q)
<1>1. n \in Nat /\ DOMAIN q = 1..n /\ num \in 1..n
  OBVIOUS
<1>2. /\ r \in Seq(Ids) /\ Len(r) = n - 1
      /\ \A i \in 1..(n - 1) : r[i] = IF i < num THEN q[i] ELSE q[i + 1]
  BY Removed
<1>3. DOMAIN r = 1..(n - 1)
  BY <1>2
<1> HIDE DEF r, n
<1>4. \A i \in 1..(num - 1) : r[i] = q[i]
  BY <1>1, <1>2
<1>5. ASSUME NEW i \in 1..n, i # num PROVE \E j \in 1..(n - 1) : r[j] = q[i]
  <2>1. CASE i < num
    BY <1>1, <1>2, <2>1
  <2>2. CASE num < i
    <3>1. i - 1 \in 1..(n - 1) /\ ~(i - 1 < num) /\ (i - 1) + 1 = i
      BY <1>1, <2>2
    <3> QED
      BY <1>2, <3>1
  <2> QED
    BY <1>1, <1>5, <2>1, <2>2
<1>6. Range(q) \subseteq Range(r) \cup {q[num]}
  BY <1>1, <1>3, <1>5 DEF Range
<1>7. \A j \in 1..(n - 1) : \E i \in 1..n : i # num /\ r[j] = q[i]
  <2> SUFFICES ASSUME NEW j \in 1..(n - 1) PROVE \E i \in 1..n : i # num /\ r[j] = q[i]
    OBVIOUS
  <2>1. CASE j < num
    BY <1>1, <1>2, <2>1
  <2>2. CASE ~(j < num)
    <3>1. j + 1 \in 1..n /\ j + 1 # num
      BY <1>1, <2>2
    <3> QED
      BY <1>2, <2>2, <3>1
  <2> QED
    BY <2>1, <2>2
<1>8. ASSUME IsInjective(q) PROVE IsInjective(r) /\ Range(r) = Range(q) \ {q[num]}
  <2>1. \A i, j \in 1..n : q[i] = q[j] => i = j
    BY <1>1, <1>8 DEF IsInjective
  <2>2. ASSUME NEW i \in 1..(n - 1), NEW j \in 1..(n - 1), r[i] = r[j] PROVE i = j
    <3> DEFINE P(x) == IF x < num THEN x ELSE x + 1
    <3>1. P(i) \in 1..n /\ P(j) \in 1..n /\ r[i] = q[P(i)] /\ r[j] = q[P(j)]
      BY <1>1, <1>2
    <3>2. P(i) = P(j)
      <4> HIDE DEF P
      <4> QED
        BY <2>1, <2>2, <3>1
    <3> QED
      BY <1>1, <3>2
  <2>3. IsInjective(r)
    BY <1>3, <2>2 DEF IsInjective
  <2>4. Range(r) \subseteq Range(q) \ {q[num]}
    BY <1>1, <1>3, <1>7, <2>1 DEF Range
  <2>5. q[num] \notin Range(r)
    BY <2>4
  <2> QED
    BY <1>6, <2>3, <2>4, <2>5
<1> QED
  BY <1>1, <1>2, <1>4, <1>6, <1>8 DEF r, n

\* Only u is taken off messages.
LEMMA Forgotten ==
    ASSUME NEW r \in Readers, NEW u \in Users, NEW ids
    PROVE  /\ Forget(r, u, ids) \in Readers
           /\ \A id \in Ids, v \in Users :
                 v \in Forget(r, u, ids)[id] <=> v \in r[id] /\ ~(v = u /\ id \in ids)
BY DEF Forget, Readers

\* The boxes and messages of the other players are the same in s and t.
OthersSame(u, s, t) ==
    \A v \in Users \ {u} : /\ Box(t.mb, v) = Box(s.mb, v)
                           /\ \A id \in Ids : v \in t.remain[id] <=> v \in s.remain[id]

\* remove_message(), when there is no such number, and when there is.
LEMMA NothingRemoved ==
    ASSUME NEW s \in States, NEW u \in Users, NEW num, num \notin 1..Len(Box(s.mb, u))
    PROVE  LET r == RemovedMessage(s, u, num)
           IN  r \in States /\ OthersSame(u, s, r) /\ Box(r.mb, u) = Box(s.mb, u)
               /\ r.remain = s.remain
<1> DEFINE m == Opened(s.mb, u)
<1>0. s.mb \in Daemon /\ s.remain \in Readers
  BY DEF States
<1>1. /\ m \in Daemon /\ m.file = u /\ m.mailbox = Box(s.mb, u)
      /\ \A v \in Users : Box(m, v) = Box(s.mb, v)
  BY <1>0, BoxOpened
<1>2. m.mailbox \in Seq(Ids)
  BY <1>1 DEF Daemon
<1>3. RemovedMessage(s, u, num) = [s EXCEPT !.mb = m]
  BY <1>1, <1>2 DEF RemovedMessage
<1> HIDE DEF m
<1> QED
  BY <1>0, <1>1, <1>3 DEF States, OthersSame

LEMMA OneRemoved ==
    ASSUME NEW s \in States, NEW u \in Users, NEW num \in 1..Len(Box(s.mb, u))
    PROVE  LET r == RemovedMessage(s, u, num)
           IN  /\ r \in States /\ OthersSame(u, s, r)
               /\ Box(r.mb, u) = RemoveAt(Box(s.mb, u), num)
               /\ r.remain = Forget(s.remain, u, {Box(s.mb, u)[num]})
<1> DEFINE m == Opened(s.mb, u)
           q == Box(s.mb, u)
           n == [m EXCEPT !.mailbox = RemoveAt(q, num)]
           f == Forget(s.remain, u, {q[num]})
<1>0. s.mb \in Daemon /\ s.remain \in Readers
  BY DEF States
<1>1. /\ m \in Daemon /\ m.file = u /\ m.mailbox = q
      /\ \A v \in Users : Box(m, v) = Box(s.mb, v)
  BY <1>0, BoxOpened
<1>2. q \in Seq(Ids) /\ num \in 1..Len(q) /\ DOMAIN q = 1..Len(q)
  BY <1>0, BoxTyped
<1>3. RemoveAt(q, num) \in Seq(Ids)
  <2> HIDE DEF q
  <2> QED
    BY <1>2, TakenOut
<1>4. RemovedMessage(s, u, num) = [mb |-> n, remain |-> f]
  <2>1. num \in DOMAIN m.mailbox
    BY <1>1, <1>2
  <2> HIDE DEF q
  <2> QED
    BY <1>1, <2>1 DEF RemovedMessage
<1> HIDE DEF m, q
<1>5. n \in Daemon /\ \A v \in Users : Box(n, v) = IF v = u THEN RemoveAt(q, num) ELSE Box(m, v)
  BY <1>1, <1>3, BoxChanged
<1>6. /\ f \in Readers
      /\ \A id \in Ids, v \in Users \ {u} : v \in f[id] <=> v \in s.remain[id]
  BY <1>0, Forgotten
<1> HIDE DEF n, f
<1>7. OthersSame(u, s, [mb |-> n, remain |-> f])
  BY <1>1, <1>5, <1>6 DEF OthersSame
<1>8. [mb |-> n, remain |-> f] \in States
  BY <1>5, <1>6 DEF States
<1> QED
  BY <1>4, <1>5, <1>7, <1>8 DEF f, q

-----------------------------------------------------------------------------
(* The mailer's update_box() *)

Present == [mb |-> mb, remain |-> remain]

\* When u's mailer has looked at the numbers from num on: the others' boxes
\* are untouched, the entries below stand where they stood, what is gone was
\* marked by its number, and box and messages agree if they did.
Looked(s, u, num) ==
    /\ s \in States /\ OthersSame(u, Present, s)
    /\ Len(Box(s.mb, u)) <= Len(Box(mb, u))
    /\ \A i \in 1..(num - 1) : i <= Len(Box(mb, u)) =>
          i <= Len(Box(s.mb, u)) /\ Box(s.mb, u)[i] = Box(mb, u)[i]
    /\ \A id \in Range(Box(mb, u)) \ Range(Box(s.mb, u)) :
          \E i \in mailer[u].marked :
             num <= i /\ i <= Len(Box(mb, u)) /\ Box(mb, u)[i] = id
    /\ mailer[u].marked = {} => Box(s.mb, u) = Box(mb, u)
    /\ Matches(Box(mb, u), remain, u) => Matches(Box(s.mb, u), s.remain, u)

\* The same, of the box q that s has, where q0 was.
LookedAt(q, q0, marked, num) ==
    /\ Len(q) <= Len(q0)
    /\ \A i \in 1..(num - 1) : i <= Len(q0) => i <= Len(q) /\ q[i] = q0[i]
    /\ \A id \in Range(q0) \ Range(q) :
          \E i \in marked : num <= i /\ i <= Len(q0) /\ q0[i] = id
    /\ marked = {} => q = q0

LEMMA LookedAtNext ==
    ASSUME NEW q \in Seq(Ids), NEW q0 \in Seq(Ids), NEW marked \in SUBSET Nat,
           NEW num \in Nat \ {0}, LookedAt(q, q0, marked, num + 1),
           NEW r, \/ r = q
                  \/ num \in marked /\ num \in 1..Len(q) /\ r = RemoveAt(q, num)
    PROVE  LookedAt(r, q0, marked, num)
<1>1. Len(q) \in Nat /\ Len(q0) \in Nat /\ num + 1 - 1 = num /\ num \in 1..num
  OBVIOUS
<1>2. CASE r = q
  BY <1>1, <1>2 DEF LookedAt
<1>3. CASE num \in marked /\ num \in 1..Len(q) /\ r = RemoveAt(q, num)
  <2>1. /\ Len(r) = Len(q) - 1 /\ \A i \in 1..(num - 1) : r[i] = q[i]
        /\ Range(q) \subseteq Range(r) \cup {q[num]}
    BY <1>3, TakenOut
  <2>2. num <= Len(q) /\ num <= Len(q0) /\ q[num] = q0[num]
    BY <1>1, <1>3 DEF LookedAt
  <2>3. ASSUME NEW i \in 1..(num - 1), i <= Len(q0) PROVE i <= Len(r) /\ r[i] = q0[i]
    <3>1. q[i] = q0[i] /\ i <= Len(r)
      BY <1>1, <2>1, <2>2, <2>3 DEF LookedAt
    <3> QED
      BY <2>1, <3>1
  <2>4. ASSUME NEW id \in Range(q0) \ Range(r)
        PROVE  \E i \in marked : num <= i /\ i <= Len(q0) /\ q0[i] = id
    <3>1. CASE id = q[num]
      BY <1>1, <1>3, <2>2, <3>1
    <3>2. CASE id \notin Range(q)
      <4>1. PICK i \in marked : num + 1 <= i /\ i <= Len(q0) /\ q0[i] = id
        BY <2>4, <3>2 DEF LookedAt
      <4> QED
        BY <4>1
    <3> QED
      BY <2>1, <2>4, <3>1, <3>2
  <2> QED
    BY <1>1, <2>1, <2>3, <2>4 DEF LookedAt
<1> QED
  BY <1>2, <1>3

LEMMA MatchesNext ==
    ASSUME NEW q \in Seq(Ids), NEW r \in Readers, NEW u \in Users, NEW num \in 1..Len(q),
           Matches(q, r, u)
    PROVE  Matches(RemoveAt(q, num), Forget(r, u, {q[num]}), u)
<1>1. IsInjective(RemoveAt(q, num)) /\ Range(RemoveAt(q, num)) = Range(q) \ {q[num]}
  BY TakenOut DEF Matches
<1>2. \A id \in Ids : u \in Forget(r, u, {q[num]})[id] <=> u \in r[id] /\ id # q[num]
  BY Forgotten
<1> QED
  BY <1>1, <1>2 DEF Matches

LEMMA LookedIs ==
    ASSUME NEW s, NEW u, NEW num
    PROVE  Looked(s, u, num) <=>
             /\ s \in States /\ OthersSame(u, Present, s)
             /\ LookedAt(Box(s.mb, u), Box(mb, u), mailer[u].marked, num)
             /\ Matches(Box(mb, u), remain, u) => Matches(Box(s.mb, u), s.remain, u)
BY DEF Looked, LookedAt

LEMMA SettledTyped ==
    ASSUME Types, NEW u \in Users, mailer[u] # None, NEW s \in States, NEW num
    PROVE  Settled(s, u, num) \in States
<1>1. s.mb \in Daemon /\ s.remain \in Readers
  BY DEF States
<1>2. CASE num \notin mailer[u].marked
  <2>1. Opened(s.mb, u) \in Daemon
    BY <1>1, BoxOpened
  <2> QED
    BY <1>1, <1>2, <2>1 DEF Settled, States
<1>3. CASE num \in mailer[u].marked /\ num \in 1..Len(Box(s.mb, u))
  BY <1>3, OneRemoved DEF Settled
<1>4. CASE num \in mailer[u].marked /\ num \notin 1..Len(Box(s.mb, u))
  BY <1>4, NothingRemoved DEF Settled
<1> QED
  BY <1>2, <1>3, <1>4

LEMMA LookedNext ==
    ASSUME Types, NEW u \in Users, mailer[u] # None, NEW s, NEW num \in Nat \ {0},
           Looked(s, u, num + 1)
    PROVE  Looked(Settled(s, u, num), u, num)
<1> DEFINE q0 == Box(mb, u)
           q == Box(s.mb, u)
           marked == mailer[u].marked
           t == Settled(s, u, num)
           r == Box(t.mb, u)
<1>1. /\ s \in States /\ s.mb \in Daemon /\ s.remain \in Readers /\ OthersSame(u, Present, s)
      /\ LookedAt(q, q0, marked, num + 1)
      /\ Matches(q0, remain, u) => Matches(q, s.remain, u)
  BY LookedIs DEF States
<1>2. q0 \in Seq(Ids) /\ q \in Seq(Ids) /\ marked \in SUBSET Nat
  <2>1. mb \in Daemon /\ mailer[u] \in Mailers
    BY DEF Types
  <2> QED
    BY <1>1, <2>1, BoxTyped DEF Mailers
<1>3. /\ t \in States /\ OthersSame(u, s, t)
      /\ \/ r = q /\ t.remain = s.remain
         \/ /\ num \in marked /\ num \in 1..Len(q)
            /\ r = RemoveAt(q, num) /\ t.remain = Forget(s.remain, u, {q[num]})
  <2>1. CASE num \notin marked
    <3>1. /\ Opened(s.mb, u) \in Daemon
          /\ \A v \in Users : Box(Opened(s.mb, u), v) = Box(s.mb, v)
      BY <1>1, BoxOpened
    <3>2. t = [s EXCEPT !.mb = Opened(s.mb, u)]
      BY <2>1 DEF Settled
    <3>3. t.mb = Opened(s.mb, u) /\ t.remain = s.remain
      BY <1>1, <3>2 DEF States
    <3> HIDE DEF t
    <3> QED
      BY <1>1, <3>1, <3>2, <3>3 DEF States, OthersSame
  <2>2. CASE num \in marked /\ num \in 1..Len(q)
    BY <1>1, <2>2, OneRemoved DEF Settled
  <2>3. CASE num \in marked /\ num \notin 1..Len(q)
    BY <1>1, <2>3, NothingRemoved DEF Settled
  <2> QED
    BY <2>1, <2>2, <2>3
<1>4. OthersSame(u, Present, t)
  <2> HIDE DEF t
  <2> QED
    BY <1>1, <1>3 DEF OthersSame
<1> HIDE DEF q, q0, marked, t, r
<1>5. LookedAt(r, q0, marked, num)
  BY <1>1, <1>2, <1>3, LookedAtNext
<1>6. Matches(q, s.remain, u) => Matches(r, t.remain, u)
  BY <1>1, <1>2, <1>3, MatchesNext
<1>7. Matches(q0, remain, u) => Matches(r, t.remain, u)
  BY <1>1, <1>6
<1> QED
  BY <1>3, <1>4, <1>5, <1>7, LookedIs DEF q0, r, marked, t

LEMMA UpdatedLooked ==
    ASSUME Types, NEW u \in Users, mailer[u] # None
    PROVE  Looked(UpdatedBox(u), u, 1)
<1> DEFINE n == Len(mailer[u].view)
           F == [j \in 1..n |-> [s \in States |-> Settled(s, u, n + 1 - j)]]
           Is(f) == f = [j \in 0..n |-> IF j = 0 THEN Present
                                        ELSE Settled(f[j - 1], u, n + 1 - j)]
           after == CHOOSE f : Is(f)
<1>1. n \in Nat /\ mailer[u].marked \subseteq 1..n
  <2>1. mailer[u] \in Mailers
    BY DEF Types
  <2> QED
    BY <2>1 DEF Mailers
<1>2. UpdatedBox(u) = after[n]
  BY DEF UpdatedBox, Present
<1> HIDE DEF n
<1>3. Present \in States /\ Box(Present.mb, u) = Box(mb, u) /\ Present.remain = remain
  BY DEF Types, Present, States
<1>4. F \in [1..n -> [States -> States]]
  BY SettledTyped
<1>5. \E f : Is(f)
  <2>1. \A j \in 1..n, s \in States : F[j][s] = Settled(s, u, n + 1 - j)
    OBVIOUS
  <2> HIDE DEF F
  <2>2. PICK f \in [0..n -> States] : StepByStep(f, n, Present, F)
    BY <1>1, <1>3, <1>4, Defined
  <2>3. f = [j \in 0..n |-> IF j = 0 THEN Present ELSE F[j][f[j - 1]]]
    BY <2>2 DEF StepByStep
  <2>4. \A j \in 1..n : F[j][f[j - 1]] = Settled(f[j - 1], u, n + 1 - j)
    <3>1. \A j \in 1..n : j - 1 \in 0..n
      BY <1>1
    <3>2. \A j \in 1..n : f[j - 1] \in States
      BY <2>2, <3>1
    <3> QED
      BY <2>1, <3>2
  <2>5. \A j \in 0..n : f[j] = IF j = 0 THEN Present ELSE Settled(f[j - 1], u, n + 1 - j)
    <3>1. \A j \in 0..n : f[j] = IF j = 0 THEN Present ELSE F[j][f[j - 1]]
      BY <2>3
    <3>2. \A j \in 0..n : j # 0 => j \in 1..n
      BY <1>1
    <3> QED
      BY <2>4, <3>1, <3>2
  <2>6. Is(f)
    BY <2>2, <2>5
  <2> QED
    BY <2>6
<1>6. Is(after)
  <2> HIDE DEF Is
  <2> QED
    BY <1>5
<1> HIDE DEF F, after
<1>7. after[0] = Present /\ \A j \in 1..n : after[j] = Settled(after[j - 1], u, n + 1 - j)
  BY <1>1, <1>6
<1> DEFINE S == {j \in 0..n : Looked(after[j], u, n + 1 - j)}
<1>8. 0 \in S
  <2>1. OthersSame(u, Present, Present) /\ LookedAt(Box(mb, u), Box(mb, u), mailer[u].marked, n + 1 - 0)
    <3>1. Box(mb, u) \in Seq(Ids)
      BY BoxTyped DEF Types
    <3> QED
      BY <3>1 DEF OthersSame, LookedAt
  <2>2. Looked(Present, u, n + 1 - 0)
    BY <1>3, <2>1, LookedIs
  <2> QED
    BY <1>1, <1>7, <2>2
<1>9. ASSUME NEW j \in 0..(n - 1), j \in S PROVE j + 1 \in S
  <2>1. /\ j + 1 \in 1..n /\ j + 1 \in 0..n /\ (j + 1) - 1 = j
        /\ n + 1 - (j + 1) \in Nat \ {0} /\ n + 1 - (j + 1) + 1 = n + 1 - j
    BY <1>1
  <2>2. Looked(Settled(after[j], u, n + 1 - (j + 1)), u, n + 1 - (j + 1))
    <3>1. Looked(after[j], u, n + 1 - (j + 1) + 1)
      BY <1>9, <2>1
    <3> QED
      BY <2>1, <3>1, LookedNext
  <2>3. after[j + 1] = Settled(after[j], u, n + 1 - (j + 1))
    BY <1>7, <2>1
  <2> QED
    BY <2>1, <2>2, <2>3
<1>10. n \in S
  <2>1. \A j \in 0..n : j \in S
    <3> HIDE DEF S
    <3> QED
      BY <1>1, <1>8, <1>9, Counting
  <2> QED
    BY <1>1, <2>1
<1>11. n + 1 - n = 1
  BY <1>1
<1> QED
  BY <1>2, <1>10, <1>11

-----------------------------------------------------------------------------
(* The invariant *)

\* The messages that should be in u's box.
Due(u) == {id \in Holds(u) : ~(u \in Undelivered /\ id = sending.idx)}

\* A message on its way names all whom it has not reached.
Promised == sending # None => \A u \in sending.left : u \in remain[sending.idx]

\* A mailer's copy is the beginning of its owner's box: mail that came since
\* is behind it, and its numbers are still right; unless the box was hurt, or
\* a refused quit has already deleted.
Begins(view, q) == Len(view) <= Len(q) /\ \A i \in 1..Len(view) : q[i] = view[i]
Views ==
    \A u \in Users \ (hurt \cup refused) :
        mailer[u] # None => Begins(mailer[u].view, Box(mb, u))

Inv == Types /\ Promised /\ BoxesMatch /\ Views

\* OnlyMarkedGo, of one step
OnlyMarked ==
    \A u \in Users \ (hurt' \cup refused) :
       \A id \in Range(Box(mb, u)) \ Range(Box(mb', u)) :
          mailer[u] # None /\ \E i \in mailer[u].marked : mailer[u].view[i] = id

\* No box changes but those that are hurt, nor what should be in it.
Calm ==
    /\ hurt \subseteq hurt'
    /\ \A u \in Users \ hurt' : Box(mb', u) = Box(mb, u) /\ Due(u)' = Due(u)
    /\ \A u \in Users \ (hurt' \cup refused') : mailer'[u] # None =>
          \/ mailer[u] # None /\ u \notin refused /\ mailer'[u].view = mailer[u].view
          \/ mailer'[u].view = Box(mb', u)

LEMMA MatchIs == BoxesMatch <=> \A u \in Users \ hurt : IsInjective(Box(mb, u)) /\ Range(Box(mb, u)) = Due(u)
BY DEF BoxesMatch, Due

LEMMA MatchThen ==
    BoxesMatch' <=> \A u \in Users \ hurt' : IsInjective(Box(mb', u)) /\ Range(Box(mb', u)) = Due(u)'
BY DEF BoxesMatch, Due, Box

LEMMA ViewsThen ==
    Views' <=> \A u \in Users \ (hurt' \cup refused') :
                  mailer'[u] # None => Begins(mailer'[u].view, Box(mb', u))
BY DEF Views, Box

LEMMA CalmKeeps ==
    ASSUME Inv, Calm, Types'
    PROVE  BoxesMatch' /\ Views' /\ OnlyMarked
<1>1. BoxesMatch'
  BY MatchIs, MatchThen DEF Inv, Calm
<1>2. ASSUME NEW u \in Users \ (hurt' \cup refused'), mailer'[u] # None
      PROVE  Begins(mailer'[u].view, Box(mb', u))
  <2>1. CASE mailer[u] # None /\ u \notin refused /\ mailer'[u].view = mailer[u].view
    <3>1. u \in Users \ (hurt \cup refused) /\ Box(mb', u) = Box(mb, u)
      BY <1>2, <2>1 DEF Calm
    <3> QED
      BY <2>1, <3>1 DEF Inv, Views
  <2>2. CASE mailer'[u].view = Box(mb', u)
    <3>1. Box(mb', u) \in Seq(Ids)
      BY BoxTyped DEF Types
    <3> QED
      BY <2>2, <3>1 DEF Begins
  <2> QED
    BY <1>2, <2>1, <2>2 DEF Calm
<1>3. OnlyMarked
  BY DEF OnlyMarked, Calm
<1> QED
  BY <1>1, <1>2, <1>3, ViewsThen

\* Nobody is waiting for mail.
LEMMA DueIdle ==
    ASSUME NEW u, Idle
    PROVE  Due(u) = {id \in Ids : u \in remain[id]}
BY DEF Due, Idle, Undelivered, Holds

LEMMA DueIdleThen ==
    ASSUME NEW u, sending' = None
    PROVE  Due(u)' = {id \in Ids : u \in remain'[id]}
BY DEF Due, Undelivered, Holds

-----------------------------------------------------------------------------
(* The steps that leave all boxes as they are *)

LEMMA StartMailStep ==
    ASSUME Inv, NEW u \in Users, StartMail(u)
    PROVE  Types' /\ Promised' /\ Calm
<1> DEFINE m == IF mb.disk[u] = <<>> THEN mb ELSE Opened(mb, u)
<1>1. m \in Daemon /\ \A v \in Users : Box(m, v) = Box(mb, v)
  BY BoxOpened DEF Inv, Types
<1>2. /\ mb' = Flushed(m) /\ mailer' = [mailer EXCEPT ![u] = Reread(u, mb'.disk[u])]
      /\ sending = None /\ UNCHANGED <<remain, sending, spool, asked, refused, hurt>>
  BY DEF StartMail, Idle
<1> HIDE DEF m
<1>3. mb' \in Daemon /\ \A v \in Users : Box(mb', v) = Box(mb, v) /\ mb'.disk[v] = Box(mb', v)
  BY <1>1, <1>2, BoxFlushed
<1>4. mb'.disk[u] \in Seq(Ids)
  BY <1>3 DEF Daemon
<1>5. /\ Reread(u, mb'.disk[u]) \in Mailers /\ Reread(u, mb'.disk[u]).view = Box(mb', u)
  BY <1>3, <1>4 DEF Reread, Mailers
<1>6. Types'
  BY <1>2, <1>3, <1>5 DEF Inv, Types
<1>7. \A v \in Users : IF v = u THEN mailer'[v].view = Box(mb', v) ELSE mailer'[v] = mailer[v]
  BY <1>2, <1>5 DEF Inv, Types
<1>8. Calm
  BY <1>2, <1>3, <1>7 DEF Calm, Due, Holds, Undelivered
<1> QED
  BY <1>2, <1>6, <1>8 DEF Promised

LEMMA MarkStep ==
    ASSUME Inv, NEW u \in Users, Mark(u)
    PROVE  Types' /\ Promised' /\ Calm
<1>1. mailer[u] # None /\ mailer[u] \in Mailers /\ sending = None
  BY DEF Mark, InMailer, Idle, Inv, Types
<1>2. PICK i \in DOMAIN mailer[u].view :
         mailer' = [mailer EXCEPT ![u].marked = IF i \in @ THEN @ \ {i} ELSE @ \cup {i}]
  BY DEF Mark
<1> DEFINE r == [mailer[u] EXCEPT !.marked = IF i \in @ THEN @ \ {i} ELSE @ \cup {i}]
<1>3. r \in Mailers /\ r.view = mailer[u].view
  BY <1>1 DEF Mailers
<1>4. mailer' = [mailer EXCEPT ![u] = r]
  BY <1>2
<1>5. UNCHANGED <<mb, remain, sending, spool, asked, refused, hurt>>
  BY DEF Mark
<1> HIDE DEF r
<1>6. Types'
  BY <1>3, <1>4, <1>5 DEF Inv, Types
<1>7. \A v \in Users : mailer'[v] # None => mailer[v] # None /\ mailer'[v].view = mailer[v].view
  BY <1>1, <1>3, <1>4 DEF Inv, Types
<1>8. Calm
  BY <1>5, <1>7 DEF Calm, Due, Holds, Undelivered, Box
<1> QED
  BY <1>1, <1>5, <1>6, <1>8 DEF Promised

LEMMA QuitUnchangedStep ==
    ASSUME Inv, NEW u \in Users, QuitUnchanged(u)
    PROVE  Types' /\ Promised' /\ Calm
<1>1. /\ mb' = Flushed(mb) /\ mailer' = [mailer EXCEPT ![u] = None]
      /\ refused' = refused \ {u} /\ sending = None
      /\ UNCHANGED <<remain, sending, spool, asked, hurt>>
  BY DEF QuitUnchanged, InMailer, Idle
<1>2. mb' \in Daemon /\ \A v \in Users : Box(mb', v) = Box(mb, v)
  BY <1>1, BoxFlushed DEF Inv, Types
<1>3. Types'
  BY <1>1, <1>2 DEF Inv, Types
<1>4. \A v \in Users : mailer'[v] # None => v # u /\ mailer'[v] = mailer[v]
  BY <1>1 DEF Inv, Types
<1>5. Calm
  BY <1>1, <1>2, <1>4 DEF Calm, Due, Holds, Undelivered
<1> QED
  BY <1>1, <1>3, <1>5 DEF Promised

LEMMA LinkLostStep ==
    ASSUME Inv, NEW u \in Users, LinkLost(u)
    PROVE  Types' /\ Promised' /\ Calm
<1>1. /\ mailer' = [mailer EXCEPT ![u] = None] /\ refused' = refused \ {u}
      /\ asked' = asked \ {u} /\ spool' = IF asked' = {} THEN None ELSE spool
      /\ sending = None /\ UNCHANGED <<mb, remain, sending, hurt>>
  BY DEF LinkLost, Idle
<1>2. Types'
  BY <1>1 DEF Inv, Types
<1>3. \A v \in Users : mailer'[v] # None => v # u /\ mailer'[v] = mailer[v]
  BY <1>1 DEF Inv, Types
<1>4. Calm
  BY <1>1, <1>3 DEF Calm, Due, Holds, Undelivered, Box
<1> QED
  BY <1>1, <1>2, <1>4 DEF Promised

LEMMA MailStatusStep ==
    ASSUME Inv, NEW u \in Users, MailStatus(u)
    PROVE  Types' /\ Promised' /\ Calm
<1>1. /\ mb' = Opened(mb, u) /\ sending = None
      /\ UNCHANGED <<remain, sending, mailer, spool, asked, refused, hurt>>
  BY DEF MailStatus, Idle
<1>2. mb' \in Daemon /\ \A v \in Users : Box(mb', v) = Box(mb, v)
  BY <1>1, BoxOpened DEF Inv, Types
<1>3. Types'
  BY <1>1, <1>2 DEF Inv, Types
<1>4. Calm
  BY <1>1, <1>2 DEF Calm, Due, Holds, Undelivered
<1> QED
  BY <1>1, <1>3, <1>4 DEF Promised

LEMMA DespoolStep ==
    ASSUME Inv, NEW u \in Users, Despool(u)
    PROVE  Types' /\ Promised' /\ Calm
<1>1. /\ asked' = IF mb.disk[u] = <<>> THEN asked ELSE asked \cup {u}
      /\ spool' = IF asked' = {} THEN None ELSE [owner |-> u, mailbox |-> mb.disk[u]]
      /\ sending = None /\ UNCHANGED <<mb, remain, sending, mailer, refused, hurt>>
  BY DEF Despool, Idle
<1>2. [owner |-> u, mailbox |-> mb.disk[u]] \in Spools
  BY DEF Inv, Types, Daemon, Spools
<1>3. Types'
  BY <1>1, <1>2 DEF Inv, Types
<1>4. Calm
  BY <1>1 DEF Calm, Due, Holds, Undelivered, Box
<1> QED
  BY <1>1, <1>3, <1>4 DEF Promised

LEMMA DespoolNoStep ==
    ASSUME Inv, NEW u \in Users, DespoolNo(u)
    PROVE  Types' /\ Promised' /\ Calm
<1>1. /\ asked' = asked \ {u} /\ spool' = IF asked' = {} THEN None ELSE spool
      /\ u \in asked /\ sending = None /\ UNCHANGED <<mb, remain, sending, mailer, refused, hurt>>
  BY DEF DespoolNo, Idle
<1>2. Types'
  BY <1>1 DEF Inv, Types
<1>3. Calm
  BY <1>1 DEF Calm, Due, Holds, Undelivered, Box
<1> QED
  BY <1>1, <1>2, <1>3 DEF Promised

\* The box that is taken is hurt; the messages in it are its owner's affair.
LEMMA DespoolYesStep ==
    ASSUME Inv, NEW u \in Users, DespoolYes(u)
    PROVE  Types' /\ Promised' /\ Calm
<1>1. /\ u \in asked /\ asked' = asked \ {u} /\ sending = None /\ spool \in Spools
      /\ UNCHANGED <<sending, mailer, refused>>
  BY DEF DespoolYes, Idle, Inv, Types
<1>2. CASE spool.owner = None
  <2>1. spool' = (IF asked' = {} THEN None ELSE spool) /\ UNCHANGED <<mb, remain, hurt>>
    BY <1>2 DEF DespoolYes
  <2>2. Types'
    BY <1>1, <2>1 DEF Inv, Types
  <2>3. Calm
    BY <1>1, <2>1 DEF Calm, Due, Holds, Undelivered, Box
  <2> QED
    BY <1>1, <2>2, <2>3 DEF Promised
<1>3. CASE spool.owner # None
  <2> DEFINE o == spool.owner
  <2>1. /\ remain' = Forget(remain, o, Range(spool.mailbox))
        /\ mb' = [mb EXCEPT !.disk[o] = <<>>]
        /\ spool' = IF asked' = {} THEN None ELSE [spool EXCEPT !.owner = None]
        /\ hurt' = hurt \cup {o}
    BY <1>3 DEF DespoolYes
  <2>2. o \in Users
    BY <1>1, <1>3 DEF Spools
  <2>3. mb' \in Daemon /\ \A v \in Users \ {o} : Box(mb', v) = Box(mb, v)
    <3> DEFINE d == [mb.disk EXCEPT ![o] = <<>>]
    <3>1. mb' = [mb EXCEPT !.disk = d]
      BY <2>1
    <3>2. d \in [Users -> Seq(Ids)] /\ \A v \in Users \ {o} : d[v] = mb.disk[v]
      <4>1. <<>> \in Seq(Ids) /\ mb.disk \in [Users -> Seq(Ids)]
        BY DEF Inv, Types, Daemon
      <4> QED
        BY <4>1
    <3> HIDE DEF d
    <3> QED
      BY <3>1, <3>2 DEF Inv, Types, Daemon, Box
  <2>4. /\ remain' \in Readers
        /\ \A id \in Ids, v \in Users \ {o} : v \in remain'[id] <=> v \in remain[id]
    BY <2>1, <2>2, Forgotten DEF Inv, Types
  <2>5. [spool EXCEPT !.owner = None] \in Spools
    BY <1>1 DEF Spools
  <2> HIDE DEF o
  <2>6. Types'
    BY <1>1, <2>1, <2>2, <2>3, <2>4, <2>5 DEF Inv, Types
  <2>7. \A v \in Users \ hurt' : Due(v)' = Due(v)
    <3>1. \A v \in Users \ hurt' : Due(v)' = {id \in Ids : v \in remain'[id]}
                                   /\ Due(v) = {id \in Ids : v \in remain[id]}
      BY <1>1, DueIdle, DueIdleThen DEF Idle
    <3> QED
      BY <2>1, <2>4, <3>1
  <2>8. Calm
    BY <1>1, <2>1, <2>3, <2>7 DEF Calm
  <2> QED
    BY <1>1, <2>6, <2>8 DEF Promised
<1> QED
  BY <1>2, <1>3

LEMMA DaemonUpdatedStep ==
    ASSUME Inv, DaemonUpdated
    PROVE  Types' /\ Promised' /\ Calm
<1>1. /\ MemoryLost /\ hurt' = hurt \cup Unsaved /\ sending = None
      /\ UNCHANGED <<remain, sending, mailer, spool, asked, refused>>
  BY DEF DaemonUpdated, Idle
<1>2. mb' \in Daemon /\ \A v \in Users \ Unsaved : Box(mb', v) = Box(mb, v)
  BY <1>1, BoxLost DEF Inv, Types
<1>3. Types'
  BY <1>1, <1>2 DEF Inv, Types, Unsaved
<1>4. Calm
  BY <1>1, <1>2 DEF Calm, Due, Holds, Undelivered
<1> QED
  BY <1>1, <1>3, <1>4 DEF Promised

\* Whom the mail has not reached is hurt; nothing changes for the others.
LEMMA SendFailsStep ==
    ASSUME Inv, SendFails
    PROVE  Types' /\ Promised' /\ Calm
<1>1. /\ sending' = None /\ hurt' = hurt \cup Undelivered
      /\ UNCHANGED <<mb, remain, mailer, spool, asked, refused>>
  BY DEF SendFails
<1>2. Undelivered \subseteq Users
  BY DEF Undelivered, Inv, Types
<1>3. Types'
  BY <1>1, <1>2 DEF Inv, Types
<1>4. \A u \in Users \ hurt' : Due(u) = Holds(u) /\ Due(u)' = Holds(u)
  <2>1. \A u \in Users \ hurt' : u \notin Undelivered
    BY <1>1
  <2> QED
    BY <1>1, <2>1, DueIdleThen DEF Due, Holds
<1>5. Calm
  BY <1>1, <1>4 DEF Calm, Box
<1> QED
  BY <1>1, <1>3, <1>5 DEF Promised

LEMMA CrashStep ==
    ASSUME Inv, Crash
    PROVE  Types' /\ Promised' /\ Calm
<1>1. /\ MemoryLost /\ sending' = None /\ mailer' = [u \in Users |-> None]
      /\ spool' = None /\ asked' = {} /\ refused' = {}
  BY DEF Crash
<1>2. mb' \in Daemon /\ \A v \in Users \ Unsaved : Box(mb', v) = Box(mb, v)
  BY <1>1, BoxLost DEF Inv, Types
<1>3. Unsaved \subseteq Users /\ Undelivered \subseteq Users
  BY DEF Undelivered, Unsaved, Inv, Types
<1> DEFINE Spared ==
        /\ remain' \in Readers
        /\ hurt \cup Unsaved \cup Undelivered \subseteq hurt' /\ hurt' \subseteq Users
        /\ \A v \in Users \ hurt' : \A id \in Ids : v \in remain'[id] <=> v \in remain[id]
<1>4. Spared
  <2>1. CASE hurt' = hurt \cup Unsaved \cup Undelivered /\ UNCHANGED remain
    BY <1>3, <2>1 DEF Inv, Types
  <2>2. ASSUME NEW u \in Users, InMailer(u), remain' = UpdatedBox(u).remain,
               hurt' = hurt \cup Unsaved \cup {u}
        PROVE  Spared
    <3>1. Looked(UpdatedBox(u), u, 1)
      BY <2>2, UpdatedLooked DEF InMailer, Inv
    <3>2. remain' \in Readers
          /\ \A v \in Users \ {u} : \A id \in Ids : v \in remain'[id] <=> v \in remain[id]
      BY <2>2, <3>1 DEF Looked, OthersSame, Present, States
    <3>3. Undelivered = {}
      BY <2>2 DEF Undelivered, InMailer, Idle
    <3> QED
      BY <1>3, <2>2, <3>2, <3>3 DEF Inv, Types
  <2>3. \/ hurt' = hurt \cup Unsaved \cup Undelivered /\ UNCHANGED remain
        \/ \E u \in Users : /\ InMailer(u) /\ remain' = UpdatedBox(u).remain
                            /\ hurt' = hurt \cup Unsaved \cup {u}
    BY DEF Crash
  <2> HIDE DEF Spared
  <2> QED
    BY <2>1, <2>2, <2>3
<1>5. Types'
  BY <1>1, <1>2, <1>4 DEF Inv, Types
<1>6. \A v \in Users \ hurt' : Due(v)' = Due(v)
  <2> SUFFICES ASSUME NEW v \in Users \ hurt' PROVE Due(v)' = Due(v)
    OBVIOUS
  <2>1. Due(v) = {id \in Ids : v \in remain[id]}
    BY <1>4 DEF Due, Holds
  <2>2. Due(v)' = {id \in Ids : v \in remain'[id]}
    BY <1>1, DueIdleThen
  <2> QED
    BY <1>4, <2>1, <2>2
<1>7. \A v \in Users : mailer'[v] = None
  BY <1>1
<1>8. Calm
  BY <1>2, <1>4, <1>6, <1>7 DEF Calm
<1> QED
  BY <1>1, <1>5, <1>8 DEF Promised

-----------------------------------------------------------------------------
(* Mail is sent *)

\* A new message is nobody's until it is delivered.
LEMMA SendStep ==
    ASSUME Inv, NEW u \in Users, NEW to \in (SUBSET Users) \ {{}}, Send(u, to)
    PROVE  Types' /\ Promised' /\ Calm
<1>1. PICK id \in Ids :
         /\ remain[id] = {}
         /\ remain' = [remain EXCEPT ![id] = to]
         /\ sending' = [idx |-> id, left |-> to, once |-> mailer[u] = None]
  BY DEF Send
<1>2. sending = None /\ UNCHANGED <<mb, mailer, spool, asked, refused, hurt>>
  BY DEF Send, Idle
<1>3. /\ sending' \in [idx : Ids, left : (SUBSET Users) \ {{}}, once : BOOLEAN] /\ sending' # None
      /\ sending'.idx = id /\ sending'.left = to
  <2> DEFINE once == mailer[u] = None
             s == [idx |-> id, left |-> to, once |-> once]
  <2>1. sending' = s
    BY <1>1
  <2>2. once \in BOOLEAN
    OBVIOUS
  <2> HIDE DEF once
  <2>3. s \in [idx : Ids, left : (SUBSET Users) \ {{}}, once : BOOLEAN]
    BY <2>2
  <2>4. s \in [idx : Ids, left : SUBSET Users, once : BOOLEAN]
    BY <2>2
  <2> QED
    BY <2>1, <2>3, <2>4, MailAssumption
<1>4. remain' \in Readers /\ remain'[id] = to /\ \A x \in Ids \ {id} : remain'[x] = remain[x]
  BY <1>1 DEF Inv, Types, Readers
<1>5. Types'
  BY <1>2, <1>3, <1>4 DEF Inv, Types
<1>6. \A v \in Users : Due(v)' = Due(v)
  <2> SUFFICES ASSUME NEW v \in Users PROVE Due(v)' = Due(v)
    OBVIOUS
  <2>1. Due(v) = {x \in Ids : v \in remain[x]}
    BY <1>2, DueIdle DEF Idle
  <2>2. Due(v)' = {x \in {x \in Ids : v \in remain'[x]} : ~(v \in to /\ x = id)}
    BY <1>3 DEF Due, Holds, Undelivered
  <2> QED
    BY <1>1, <1>4, <2>1, <2>2
<1>7. Calm
  BY <1>2, <1>6 DEF Calm, Box
<1>8. Promised'
  BY <1>3, <1>4 DEF Promised
<1> QED
  BY <1>5, <1>7, <1>8

LEMMA OneMore ==
    ASSUME NEW q \in Seq(Ids), NEW id \in Ids
    PROVE  /\ Append(q, id) \in Seq(Ids)
           /\ Range(Append(q, id)) = Range(q) \cup {id}
           /\ IsInjective(q) /\ id \notin Range(q) => IsInjective(Append(q, id))
           /\ \A view : Len(view) \in Nat /\ Begins(view, q) => Begins(view, Append(q, id))
<1> DEFINE r == Append(q, id)
<1>1. /\ r \in Seq(Ids) /\ Len(q) \in Nat /\ DOMAIN q = 1..Len(q)
      /\ Len(r) = Len(q) + 1 /\ DOMAIN r = 1..(Len(q) + 1)
      /\ r[Len(q) + 1] = id /\ \A i \in 1..Len(q) : r[i] = q[i]
  OBVIOUS
<1> HIDE DEF r
<1>2. \A i \in DOMAIN r : i = Len(q) + 1 \/ i \in DOMAIN q
  BY <1>1
<1>3. Len(q) + 1 \in DOMAIN r /\ DOMAIN q \subseteq DOMAIN r /\ \A i \in DOMAIN q : r[i] = q[i]
  BY <1>1
<1>4. Range(r) = Range(q) \cup {id}
  BY <1>1, <1>2, <1>3 DEF Range
<1>5. ASSUME IsInjective(q), id \notin Range(q) PROVE IsInjective(r)
  <2>1. \A i \in DOMAIN q : q[i] # id
    BY <1>5 DEF Range
  <2> QED
    BY <1>1, <1>2, <1>3, <1>5, <2>1 DEF IsInjective
<1>6. ASSUME NEW view, Len(view) \in Nat, Begins(view, q) PROVE Begins(view, r)
  BY <1>1, <1>6 DEF Begins
<1> QED
  BY <1>1, <1>4, <1>5, <1>6 DEF r

LEMMA BoxDelivered ==
    ASSUME NEW m \in Daemon, NEW u \in Users, NEW id \in Ids
    PROVE  /\ Delivered(m, u, id) \in Daemon
           /\ \A v \in Users : Box(Delivered(m, u, id), v) =
                                  IF v = u THEN Append(Box(m, u), id) ELSE Box(m, v)
<1> DEFINE n == Opened(m, u)
           q == Append(Box(m, u), id)
<1>1. /\ n \in Daemon /\ n.file = u /\ n.mailbox = Box(m, u)
      /\ \A v \in Users : Box(n, v) = Box(m, v)
  BY BoxOpened
<1>2. q \in Seq(Ids)
  BY BoxTyped
<1>3. Delivered(m, u, id) = [n EXCEPT !.mailbox = q]
  BY <1>1 DEF Delivered
<1> HIDE DEF n, q
<1>4. /\ [n EXCEPT !.mailbox = q] \in Daemon
      /\ \A v \in Users : Box([n EXCEPT !.mailbox = q], v) = IF v = u THEN q ELSE Box(n, v)
  BY <1>1, <1>2, BoxChanged
<1> QED
  BY <1>1, <1>3, <1>4 DEF q

LEMMA DeliverStep ==
    ASSUME Inv, Deliver
    PROVE  Types' /\ Promised' /\ BoxesMatch' /\ Views' /\ OnlyMarked
<1> DEFINE id == sending.idx
<1>1. /\ sending # None /\ sending \in [idx : Ids, left : (SUBSET Users) \ {{}}, once : BOOLEAN]
      /\ UNCHANGED <<remain, mailer, spool, asked, refused, hurt>>
  BY DEF Deliver, Inv, Types
<1>2. PICK u \in sending.left :
         /\ mb' = IF sending.left \ {u} = {} /\ sending.once THEN Flushed(Delivered(mb, u, id))
                  ELSE Delivered(mb, u, id)
         /\ sending' = IF sending.left \ {u} = {} THEN None
                       ELSE [sending EXCEPT !.left = sending.left \ {u}]
  BY DEF Deliver
<1>3. u \in Users /\ id \in Ids /\ mb \in Daemon
  BY <1>1 DEF Inv, Types
<1>4. /\ mb' \in Daemon
      /\ \A v \in Users : Box(mb', v) = IF v = u THEN Append(Box(mb, u), id) ELSE Box(mb, v)
  <2>1. /\ Delivered(mb, u, id) \in Daemon
        /\ \A v \in Users : Box(Delivered(mb, u, id), v) =
                               IF v = u THEN Append(Box(mb, u), id) ELSE Box(mb, v)
    BY <1>3, BoxDelivered
  <2>2. /\ Flushed(Delivered(mb, u, id)) \in Daemon
        /\ \A v \in Users : Box(Flushed(Delivered(mb, u, id)), v) = Box(Delivered(mb, u, id), v)
    BY <2>1, BoxFlushed
  <2> QED
    BY <1>2, <2>1, <2>2
<1>5. /\ sending' # None => /\ sending' \in [idx : Ids, left : (SUBSET Users) \ {{}}, once : BOOLEAN]
                            /\ sending'.idx = id /\ sending'.left = sending.left \ {u}
      /\ Undelivered' = Undelivered \ {u}
  <2>1. CASE sending.left \ {u} = {}
    BY <1>1, <1>2, <2>1 DEF Undelivered
  <2>2. CASE sending.left \ {u} # {}
    <3>1. sending' = [idx |-> id, left |-> sending.left \ {u}, once |-> sending.once]
      BY <1>1, <1>2, <2>2
    <3>2. sending' \in [idx : Ids, left : (SUBSET Users) \ {{}}, once : BOOLEAN]
      BY <1>1, <2>2, <3>1
    <3>3. sending' # None
      BY <3>2, MailAssumption
    <3> QED
      BY <1>1, <3>1, <3>2, <3>3 DEF Undelivered
  <2> QED
    BY <2>1, <2>2
<1>6. Types'
  BY <1>1, <1>4, <1>5 DEF Inv, Types
<1>7. Promised'
  BY <1>1, <1>5 DEF Inv, Promised
<1>8. Undelivered = sending.left /\ Undelivered' \subseteq Users
  BY <1>1, <1>5 DEF Undelivered
<1>9. \A v \in Users : Due(v)' = IF v = u THEN Due(u) \cup {id} ELSE Due(v)
  <2> SUFFICES ASSUME NEW v \in Users
               PROVE  Due(v)' = IF v = u THEN Due(u) \cup {id} ELSE Due(v)
    OBVIOUS
  <2>1. Due(v)' = {x \in Holds(v) : ~(v \in Undelivered \ {u} /\ x = id)}
    <3>1. CASE sending' = None
      BY <1>1, <1>5, <3>1 DEF Due, Holds, Undelivered
    <3>2. CASE sending' # None
      BY <1>1, <1>5, <3>2 DEF Due, Holds
    <3> QED
      BY <3>1, <3>2
  <2>2. u \in Undelivered /\ id \in Holds(u)
    BY <1>1, <1>3, <1>8 DEF Inv, Promised, Holds
  <2> QED
    BY <2>1, <2>2 DEF Due
<1>10. id \notin Due(u)
  BY <1>8 DEF Due
<1> HIDE DEF id
<1>11. Box(mb, u) \in Seq(Ids)
  BY <1>3, BoxTyped
<1>12. \A v \in Users \ hurt : IsInjective(Box(mb, v)) /\ Range(Box(mb, v)) = Due(v)
  BY MatchIs DEF Inv
<1>13. \A v \in Users \ hurt' : IsInjective(Box(mb', v)) /\ Range(Box(mb', v)) = Due(v)'
  <2>1. \A v \in Users \ hurt' : v # u => Box(mb', v) = Box(mb, v) /\ Due(v)' = Due(v)
    BY <1>4, <1>9
  <2>2. u \notin hurt => IsInjective(Box(mb', u)) /\ Range(Box(mb', u)) = Due(u)'
    <3>1. Box(mb', u) = Append(Box(mb, u), id) /\ Due(u)' = Due(u) \cup {id}
      BY <1>3, <1>4, <1>9
    <3> QED
      BY <1>3, <1>10, <1>11, <1>12, <3>1, OneMore
  <2> QED
    BY <1>1, <1>12, <2>1, <2>2
<1>14. ASSUME NEW v \in Users \ (hurt' \cup refused'), mailer'[v] # None
       PROVE  Begins(mailer'[v].view, Box(mb', v))
  <2>1. Begins(mailer[v].view, Box(mb, v)) /\ mailer[v] \in Mailers
    BY <1>1, <1>14 DEF Inv, Views, Types
  <2>2. Len(mailer[v].view) \in Nat
    BY <2>1 DEF Mailers
  <2>3. CASE v = u
    <3>1. Begins(mailer[v].view, Append(Box(mb, u), id))
      BY <1>3, <1>11, <2>1, <2>2, <2>3, OneMore
    <3> QED
      BY <1>1, <1>3, <1>4, <2>3, <3>1
  <2>4. CASE v # u
    BY <1>1, <1>4, <2>1, <2>4
  <2> QED
    BY <2>3, <2>4
<1>15. OnlyMarked
  <2>1. \A v \in Users : Range(Box(mb, v)) \subseteq Range(Box(mb', v))
    BY <1>3, <1>4, <1>11, OneMore
  <2> QED
    BY <2>1 DEF OnlyMarked
<1> QED
  BY <1>6, <1>7, <1>13, <1>14, <1>15, MatchThen, ViewsThen

-----------------------------------------------------------------------------
(* A box is put in order *)

LEMMA InOrder ==
    ASSUME Inv, NEW u \in Users, InMailer(u),
           mb' = UpdatedBox(u).mb \/ mb' = Flushed(UpdatedBox(u).mb),
           remain' = UpdatedBox(u).remain, sending' = sending, hurt' = hurt
    PROVE  /\ mb' \in Daemon /\ remain' \in Readers
           /\ \A v \in Users \ {u} : Box(mb', v) = Box(mb, v)
           /\ mailer[u].marked = {} => Box(mb', u) = Box(mb, u)
           /\ BoxesMatch' /\ OnlyMarked
<1> DEFINE s == UpdatedBox(u)
           q == Box(mb, u)
<1>1. Looked(s, u, 1) /\ sending = None /\ mailer[u] # None
  BY UpdatedLooked DEF InMailer, Idle, Inv
<1> HIDE DEF s
<1>2. /\ s.mb \in Daemon /\ s.remain \in Readers
      /\ \A v \in Users \ {u} : /\ Box(s.mb, v) = Box(mb, v)
                                /\ \A id \in Ids : v \in s.remain[id] <=> v \in remain[id]
  BY <1>1 DEF Looked, OthersSame, Present, States
<1>3. /\ mailer[u].marked = {} => Box(s.mb, u) = q
      /\ \A id \in Range(q) \ Range(Box(s.mb, u)) :
            \E i \in mailer[u].marked : 1 <= i /\ i <= Len(q) /\ q[i] = id
      /\ Matches(q, remain, u) => Matches(Box(s.mb, u), s.remain, u)
  BY <1>1 DEF Looked
<1> HIDE DEF q
<1>4. mb' \in Daemon /\ \A v \in Users : Box(mb', v) = Box(s.mb, v)
  BY <1>2, BoxFlushed DEF s
<1>5. remain' = s.remain
  BY DEF s
<1>6. \A v \in Users \ hurt : Matches(Box(mb, v), remain, v)
  <2>1. \A v \in Users : Due(v) = {id \in Ids : v \in remain[id]}
    BY <1>1, DueIdle DEF Idle
  <2> QED
    BY <2>1, MatchIs DEF Inv, Matches
<1>7. ASSUME NEW v \in Users \ hurt PROVE Matches(Box(mb', v), remain', v)
  <2>1. CASE v = u
    BY <1>3, <1>4, <1>5, <1>6, <2>1 DEF q
  <2>2. CASE v # u
    BY <1>2, <1>4, <1>5, <1>6, <2>2 DEF Matches
  <2> QED
    BY <2>1, <2>2
<1>8. BoxesMatch'
  <2>1. \A v \in Users : Due(v)' = {id \in Ids : v \in remain'[id]}
    BY <1>1, DueIdleThen
  <2> QED
    BY <1>7, <2>1, MatchThen DEF Matches
<1>9. ASSUME NEW v \in Users \ (hurt' \cup refused),
             NEW id \in Range(Box(mb, v)) \ Range(Box(mb', v))
      PROVE  mailer[v] # None /\ \E i \in mailer[v].marked : mailer[v].view[i] = id
  <2>1. v = u
    BY <1>2, <1>4, <1>9
  <2>2. PICK i \in mailer[u].marked : 1 <= i /\ i <= Len(q) /\ q[i] = id
    BY <1>3, <1>4, <1>9, <2>1 DEF q
  <2>3. Begins(mailer[u].view, q)
    BY <1>1, <1>9, <2>1 DEF Inv, Views, q
  <2>4. i \in 1..Len(mailer[u].view)
    <3>1. mailer[u] \in Mailers
      BY <1>1 DEF Inv, Types
    <3> QED
      BY <3>1 DEF Mailers
  <2>5. mailer[u].view[i] = id
    BY <2>2, <2>3, <2>4 DEF Begins
  <2> QED
    BY <1>1, <2>1, <2>5
<1>10. OnlyMarked
  BY <1>9 DEF OnlyMarked
<1> QED
  BY <1>2, <1>3, <1>4, <1>5, <1>8, <1>10 DEF q

\* What others' mailers show is still right.
LEMMA ViewsOfOthers ==
    ASSUME Inv, NEW u \in Users, hurt' = hurt, refused \ {u} \subseteq refused',
           \A v \in Users \ {u} : Box(mb', v) = Box(mb, v) /\ mailer'[v] = mailer[v],
           u \notin hurt' \cup refused' /\ mailer'[u] # None =>
              Begins(mailer'[u].view, Box(mb', u))
    PROVE  Views'
<1> SUFFICES ASSUME NEW v \in Users \ (hurt' \cup refused'), mailer'[v] # None
             PROVE  Begins(mailer'[v].view, Box(mb', v))
  BY ViewsThen
<1>1. CASE v = u
  BY <1>1
<1>2. CASE v # u
  <2>1. v \in Users \ (hurt \cup refused) /\ mailer[v] # None
    BY <1>2
  <2> QED
    BY <1>2, <2>1 DEF Inv, Views
<1> QED
  BY <1>1, <1>2

LEMMA ResyncStep ==
    ASSUME Inv, NEW u \in Users, Resync(u)
    PROVE  Types' /\ Promised' /\ BoxesMatch' /\ Views' /\ OnlyMarked
<1>1. /\ InMailer(u) /\ remain' = UpdatedBox(u).remain /\ mb' = Flushed(UpdatedBox(u).mb)
      /\ refused' = refused \ {u} /\ mailer' = [mailer EXCEPT ![u] = Reread(u, mb'.disk[u])]
      /\ UNCHANGED <<sending, spool, asked, hurt>>
  BY DEF Resync
<1>2. /\ mb' \in Daemon /\ remain' \in Readers /\ BoxesMatch' /\ OnlyMarked
      /\ \A v \in Users \ {u} : Box(mb', v) = Box(mb, v)
  BY <1>1, InOrder
<1>3. mb'.disk[u] = Box(mb', u)
  <2>1. UpdatedBox(u).mb \in Daemon
    BY <1>1, UpdatedLooked DEF Inv, InMailer, Looked, States
  <2> QED
    BY <1>1, <2>1, BoxFlushed
<1>4. mb'.disk[u] \in Seq(Ids)
  BY <1>2 DEF Daemon
<1>5. Reread(u, mb'.disk[u]) \in Mailers /\ Reread(u, mb'.disk[u]).view = Box(mb', u)
  BY <1>3, <1>4 DEF Reread, Mailers
<1>6. Types'
  BY <1>1, <1>2, <1>5 DEF Inv, Types
<1>7. mailer'[u].view = Box(mb', u) /\ \A v \in Users \ {u} : mailer'[v] = mailer[v]
  BY <1>1, <1>5 DEF Inv, Types
<1>8. Begins(mailer'[u].view, Box(mb', u))
  BY <1>3, <1>4, <1>7 DEF Begins
<1>9. Views'
  BY <1>1, <1>2, <1>7, <1>8, ViewsOfOthers
<1>10. Promised'
  BY <1>1 DEF InMailer, Idle, Promised
<1> QED
  BY <1>2, <1>6, <1>9, <1>10

LEMMA QuitStep ==
    ASSUME Inv, NEW u \in Users, Quit(u)
    PROVE  Types' /\ Promised' /\ BoxesMatch' /\ Views' /\ OnlyMarked
<1>1. /\ InMailer(u) /\ remain' = UpdatedBox(u).remain
      /\ UNCHANGED <<sending, spool, asked, hurt>>
      /\ \/ /\ mb' = UpdatedBox(u).mb /\ UNCHANGED mailer
            /\ refused' = IF mailer[u].marked = {} THEN refused ELSE refused \cup {u}
         \/ /\ mb' = Flushed(UpdatedBox(u).mb) /\ refused' = refused \ {u}
            /\ mailer' = [mailer EXCEPT ![u] = None]
  BY DEF Quit
<1>2. /\ mb' \in Daemon /\ remain' \in Readers /\ BoxesMatch' /\ OnlyMarked
      /\ \A v \in Users \ {u} : Box(mb', v) = Box(mb, v)
      /\ mailer[u].marked = {} => Box(mb', u) = Box(mb, u)
  BY <1>1, InOrder
<1>3. Types'
  <2>1. mailer' \in [Users -> Mailers \cup {None}] /\ refused' \subseteq Users
    BY <1>1 DEF Inv, Types
  <2> QED
    BY <1>1, <1>2, <2>1 DEF Inv, Types
<1>4. /\ refused \ {u} \subseteq refused'
      /\ \A v \in Users \ {u} : mailer'[v] = mailer[v]
      /\ mailer'[u] # None => mailer'[u] = mailer[u] /\ mailer[u] # None
                              /\ (u \notin refused' => u \notin refused /\ mailer[u].marked = {})
  BY <1>1 DEF Inv, Types
<1>5. u \notin hurt' \cup refused' /\ mailer'[u] # None => Begins(mailer'[u].view, Box(mb', u))
  BY <1>1, <1>2, <1>4 DEF Inv, Views
<1>6. Views'
  BY <1>1, <1>2, <1>4, <1>5, ViewsOfOthers
<1>7. Promised'
  BY <1>1 DEF InMailer, Idle, Promised
<1> QED
  BY <1>2, <1>3, <1>6, <1>7

-----------------------------------------------------------------------------
(* The theorems *)

LEMMA MailInit == Init => Inv
<1> SUFFICES ASSUME Init PROVE Inv
  OBVIOUS
<1>1. mb = [file |-> None, mailbox |-> <<>>, disk |-> [u \in Users |-> <<>>]]
      /\ <<>> \in Seq(Ids)
  BY DEF Init
<1>2. mb \in Daemon
  BY <1>1 DEF Daemon
<1>3. Types
  BY <1>2 DEF Init, Types, Readers
<1>4. Promised /\ Views
  BY DEF Init, Promised, Views
<1>5. ASSUME NEW u \in Users PROVE IsInjective(Box(mb, u)) /\ Range(Box(mb, u)) = Due(u)
  <2>1. Box(mb, u) = <<>>
    BY <1>1, MailAssumption DEF Box
  <2>2. Due(u) = {}
    BY DEF Init, Due, Holds
  <2> QED
    BY <2>1, <2>2 DEF IsInjective, Range
<1> QED
  BY <1>3, <1>4, <1>5, MatchIs DEF Inv

LEMMA CalmStep ==
    ASSUME Inv, Types' /\ Promised' /\ Calm
    PROVE  Inv' /\ OnlyMarked
BY CalmKeeps DEF Inv

LEMMA MailStep ==
    ASSUME Inv, Step
    PROVE  Inv' /\ OnlyMarked
<1>1. ASSUME NEW u \in Users, \/ StartMail(u) \/ Mark(u) \/ QuitUnchanged(u) \/ LinkLost(u)
                              \/ MailStatus(u) \/ Despool(u) \/ DespoolYes(u) \/ DespoolNo(u)
      PROVE  Inv' /\ OnlyMarked
  BY <1>1, CalmStep, StartMailStep, MarkStep, QuitUnchangedStep, LinkLostStep, MailStatusStep,
     DespoolStep, DespoolYesStep, DespoolNoStep
<1>2. ASSUME NEW u \in Users, NEW to \in (SUBSET Users) \ {{}}, Send(u, to)
      PROVE  Inv' /\ OnlyMarked
  BY <1>2, CalmStep, SendStep
<1>3. CASE SendFails \/ DaemonUpdated \/ Crash
  BY <1>3, CalmStep, SendFailsStep, DaemonUpdatedStep, CrashStep
<1>4. ASSUME NEW u \in Users, Quit(u) \/ Resync(u) PROVE Inv' /\ OnlyMarked
  BY <1>4, QuitStep, ResyncStep DEF Inv
<1>5. CASE Deliver
  BY <1>5, DeliverStep DEF Inv
<1> QED
  BY <1>1, <1>2, <1>3, <1>4, <1>5 DEF Step

LEMMA MailStutter ==
    ASSUME Inv, UNCHANGED vars
    PROVE  Inv'
BY DEF Inv, vars, Types, Promised, BoxesMatch, Views, Box, Holds, Undelivered

\* The mail commands, despool, deliveries, crashes and updates of the daemon
\* keep boxes, messages and the mailers' copies in step.
THEOREM MailInvariant == Spec => []Inv
<1>1. Inv /\ [Next]_vars => Inv'
  BY MailStep, MailStutter DEF Next
<1> QED
  BY <1>1, MailInit, PTL DEF Spec

\* The boxes, the messages and the mailers have their types.
THEOREM MailTypes == Spec => []TypeOK
<1>1. Inv => TypeOK
  BY TypesTyped DEF Inv
<1> QED
  BY <1>1, MailInvariant, PTL

\* A player's mailbox and the messages that name him agree, for any players
\* and messages, unless the box was hurt.
THEOREM MailboxesMatch == Spec => []BoxesMatch
<1>1. Inv => BoxesMatch
  BY DEF Inv
<1> QED
  BY <1>1, MailInvariant, PTL

\* Numbers go to the messages they were given to, in the mailer and in the
\* box, however much mail comes in between, and though one removal moves the
\* numbers behind it: removals go from the last number to the first.
THEOREM MarkedGo == Spec => OnlyMarkedGo
<1>1. Inv /\ [Next]_vars => [OnlyMarked]_vars
  BY MailStep DEF Next
<1> QED
  BY <1>1, MailInvariant, PTL DEF Spec, OnlyMarkedGo, OnlyMarked
=============================================================================
