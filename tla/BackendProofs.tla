--------------------------- MODULE BackendProofs ---------------------------
(***************************************************************************)
(* For any objects and periods, and whatever LPC code removes and adds     *)
(* meanwhile: the loop of call_heart_beat() stays within the array, and    *)
(* the array with its moving index implements rounds; and for any calls,   *)
(* delays and size of the wheel, the wheel implements the agenda of Timers *)
(* and find_call_out() finds what is in it.                                *)
(***************************************************************************)
EXTENDS Backend, PlacesProofs

Beat == [ob : Objs, ticks : 1..MaxPeriod, period : 1..MaxPeriod]

InRound == phase \in {"beats", "beating"}

\* HeartListSound is inductive once it is said that there is nothing to do
\* out of a round and how far back the index is ever moved.
HeartInv ==
    /\ hb \in Seq(Beat) /\ alive \subseteq Objs
    /\ phase \in {"io", "calls", "called", "beats", "beating"}
    /\ index \in Int /\ index >= -1 /\ todo \in Nat
    /\ ~InRound => todo = 0
    /\ HeartListSound

\* The objects at the places from a to b.
Between(s, a, b) == {s[j].ob : j \in a..b}

-----------------------------------------------------------------------------
(* An entry is taken out of the list.                                      *)

\* The place of an object, and the list without it.
LEMMA WithoutBeat ==
    ASSUME HeartInv, NEW o, Beats(o)
    PROVE  LET i == Place(o)
               r == RemoveAt(hb, i + 1)
           IN  /\ i \in 0 .. Len(hb) - 1 /\ hb[i + 1].ob = o /\ Len(hb) \in Nat
               /\ r \in Seq(Beat) /\ Len(r) = Len(hb) - 1
               /\ \A j \in 1 .. Len(hb) - 1 :
                     r[j] = IF j < i + 1 THEN hb[j] ELSE hb[j + 1]
               /\ \A j \in 1 .. Len(hb) : hb[j].ob = o => j = i + 1
<1> DEFINE i == Place(o)
<1>1. hb \in Seq(Beat) /\ Len(hb) \in Nat /\ DOMAIN hb = 1 .. Len(hb)
  BY DEF HeartInv
<1>2. PICK j \in 1 .. Len(hb) : hb[j].ob = o
  BY <1>1 DEF Beats
<1>3. j - 1 \in 0 .. Len(hb) - 1 /\ hb[(j - 1) + 1].ob = o
  BY <1>1, <1>2
<1>4. i \in 0 .. Len(hb) - 1 /\ hb[i + 1].ob = o
  BY <1>3 DEF Place
<1> HIDE DEF i
<1>5. i + 1 \in 1 .. Len(hb)
  BY <1>1, <1>4
<1>6. \A k \in 1 .. Len(hb) : hb[k].ob = o => k = i + 1
  BY <1>1, <1>4, <1>5 DEF HeartInv, HeartListSound, BeatsOnce
<1>7. /\ RemoveAt(hb, i + 1) \in Seq(Beat)
      /\ Len(RemoveAt(hb, i + 1)) = Len(hb) - 1
      /\ \A k \in 1 .. Len(hb) - 1 :
            RemoveAt(hb, i + 1)[k] = IF k < i + 1 THEN hb[k] ELSE hb[k + 1]
  BY <1>1, <1>5, Removed
<1> QED
  BY <1>1, <1>4, <1>6, <1>7 DEF i

\* What is between two places of the list, when an object is taken out: the
\* bounds move with the entries behind it.
LEMMA BetweenWithout ==
    ASSUME HeartInv, NEW o, Beats(o),
           NEW a \in Nat \ {0}, NEW b \in 0 .. Len(hb)
    PROVE  Between(RemoveAt(hb, Place(o) + 1),
                   IF Place(o) + 1 < a THEN a - 1 ELSE a,
                   IF Place(o) < b THEN b - 1 ELSE b)
              = Between(hb, a, b) \ {o}
<1> DEFINE i == Place(o)
           r == RemoveAt(hb, i + 1)
           c == IF i + 1 < a THEN a - 1 ELSE a
           d == IF i < b THEN b - 1 ELSE b
<1>1. /\ i \in 0 .. Len(hb) - 1 /\ hb[i + 1].ob = o /\ Len(hb) \in Nat
      /\ r \in Seq(Beat) /\ Len(r) = Len(hb) - 1
      /\ \A j \in 1 .. Len(hb) - 1 :
            r[j] = IF j < i + 1 THEN hb[j] ELSE hb[j + 1]
      /\ \A j \in 1 .. Len(hb) : hb[j].ob = o => j = i + 1
  BY WithoutBeat
<1> HIDE DEF i, r
<1>2. ASSUME NEW j \in c .. d
      PROVE  r[j].ob \in Between(hb, a, b) \ {o}
  <2> DEFINE k == IF j < i + 1 THEN j ELSE j + 1
  <2>1. /\ j \in 1 .. Len(hb) - 1 /\ k \in a .. b
        /\ k \in 1 .. Len(hb) /\ k # i + 1
    BY <1>1
  <2>2. r[j] = hb[k]
    BY <2>1, <1>1
  <2> HIDE DEF k
  <2> QED
    BY <2>1, <2>2, <1>1 DEF Between
<1>3. ASSUME NEW k \in a .. b, hb[k].ob # o
      PROVE  hb[k].ob \in Between(r, c, d)
  <2> DEFINE j == IF k < i + 1 THEN k ELSE k - 1
  <2>1. k # i + 1 /\ k \in 1 .. Len(hb)
    BY <1>1, <1>3
  <2>2. j \in c .. d /\ j \in 1 .. Len(hb) - 1
        /\ k = (IF j < i + 1 THEN j ELSE j + 1)
    BY <2>1, <1>1
  <2>3. r[j] = hb[k]
    BY <2>2, <1>1
  <2> HIDE DEF j
  <2> QED
    BY <2>2, <2>3 DEF Between
<1> HIDE DEF c, d
<1>4. ASSUME NEW x \in Between(r, c, d)
      PROVE  x \in Between(hb, a, b) \ {o}
  <2>1. PICK j \in c .. d : x = r[j].ob
    BY DEF Between
  <2> QED
    BY <2>1, <1>2
<1>5. ASSUME NEW x \in Between(hb, a, b) \ {o}
      PROVE  x \in Between(r, c, d)
  <2>1. PICK k \in a .. b : x = hb[k].ob
    BY DEF Between
  <2> QED
    BY <2>1, <1>3
<1>6. Between(r, c, d) = Between(hb, a, b) \ {o}
  BY <1>4, <1>5
<1> QED
  BY <1>6, Zenon DEF i, r, c, d

-----------------------------------------------------------------------------
(* The steps of a round keep the invariant.                                *)

\* What set_heart_beat(o, 0) makes of the index and of the end of the round.
IndexWithout(o) == IF todo # 0 /\ Place(o) <= index THEN index - 1 ELSE index
TodoWithout(o) == IF todo # 0 /\ Place(o) < todo THEN todo - 1 ELSE todo

\* In LPC code, a heart beat may be taken away from any object: the round
\* stays within the array, and those who still wait for their turn are the
\* same but for that object.
LEMMA StoppedSound ==
    ASSUME HeartInv, NEW o, Beats(o), phase # "beats"
    PROVE  LET r == RemoveAt(hb, Place(o) + 1)
               x == IndexWithout(o)
               n == TodoWithout(o)
           IN  /\ r \in Seq(Beat) /\ x \in Int /\ x >= -1 /\ n \in Nat
               /\ n <= Len(r) /\ (todo = 0 => n = 0)
               /\ phase = "beating" => x < n \/ (x = -1 /\ n = 0)
               /\ \A i, j \in DOMAIN r : r[i].ob = r[j].ob => i = j
               /\ \A i \in DOMAIN r : r[i].ob \in alive \ {o}
               /\ phase = "beating" =>
                     Between(r, x + 2, n) = Between(hb, index + 2, todo) \ {o}
<1> DEFINE i == Place(o)
           r == RemoveAt(hb, i + 1)
           x == IndexWithout(o)
           n == TodoWithout(o)
<1>1. /\ i \in 0 .. Len(hb) - 1 /\ hb[i + 1].ob = o /\ Len(hb) \in Nat
      /\ r \in Seq(Beat) /\ Len(r) = Len(hb) - 1
      /\ \A j \in 1 .. Len(hb) - 1 :
            r[j] = IF j < i + 1 THEN hb[j] ELSE hb[j + 1]
      /\ \A j \in 1 .. Len(hb) : hb[j].ob = o => j = i + 1
  BY WithoutBeat
<1>2. /\ index \in Int /\ index >= -1 /\ todo \in Nat /\ todo <= Len(hb)
      /\ phase = "beating" => index < todo \/ (index = -1 /\ todo = 0)
  BY DEF HeartInv, HeartListSound, RoundInArray
<1>3. /\ DOMAIN hb = 1 .. Len(hb)
      /\ \A k, m \in 1 .. Len(hb) : hb[k].ob = hb[m].ob => k = m
      /\ \A k \in 1 .. Len(hb) : hb[k].ob \in alive
  BY DEF HeartInv, HeartListSound, BeatsOnce
<1>4. /\ x = IF todo # 0 /\ i <= index THEN index - 1 ELSE index
      /\ n = IF todo # 0 /\ i < todo THEN todo - 1 ELSE todo
  BY DEF IndexWithout, TodoWithout
<1>5. /\ phase = "beating" /\ todo # 0 =>
            Between(r, IF i + 1 < index + 2 THEN index + 1 ELSE index + 2,
                    IF i < todo THEN todo - 1 ELSE todo)
               = Between(hb, index + 2, todo) \ {o}
  <2>1. index + 2 \in Nat \ {0} /\ todo \in 0 .. Len(hb)
        /\ (index + 2) - 1 = index + 1
    BY <1>1, <1>2
  <2>2. Between(RemoveAt(hb, Place(o) + 1),
                IF Place(o) + 1 < index + 2 THEN (index + 2) - 1 ELSE index + 2,
                IF Place(o) < todo THEN todo - 1 ELSE todo)
          = Between(hb, index + 2, todo) \ {o}
    BY <2>1, BetweenWithout
  <2> QED
    BY <2>1, <2>2
<1> HIDE DEF i, r, x, n
<1>6. /\ x \in Int /\ x >= -1 /\ n \in Nat
      /\ n <= Len(r) /\ (todo = 0 => n = 0)
      /\ phase = "beating" => x < n \/ (x = -1 /\ n = 0)
  BY <1>1, <1>2, <1>4
<1>7. DOMAIN r = 1 .. Len(hb) - 1
  BY <1>1
<1>8. ASSUME NEW k \in DOMAIN r, NEW m \in DOMAIN r, r[k].ob = r[m].ob
      PROVE  k = m
  <2>1. /\ k \in 1 .. Len(hb) - 1 /\ m \in 1 .. Len(hb) - 1
        /\ k \in 1 .. Len(hb) /\ k + 1 \in 1 .. Len(hb)
        /\ m \in 1 .. Len(hb) /\ m + 1 \in 1 .. Len(hb)
    BY <1>1, <1>7
  <2>2. (IF k < i + 1 THEN k ELSE k + 1) = (IF m < i + 1 THEN m ELSE m + 1)
    BY <1>1, <1>3, <1>8, <2>1
  <2> QED
    BY <1>1, <2>1, <2>2
<1>9. ASSUME NEW k \in DOMAIN r
      PROVE  r[k].ob \in alive \ {o}
  <2>1. /\ k \in 1 .. Len(hb) - 1
        /\ k \in 1 .. Len(hb) /\ k + 1 \in 1 .. Len(hb)
    BY <1>1, <1>7
  <2> QED
    BY <1>1, <1>3, <2>1
<1>10. ASSUME phase = "beating"
       PROVE  Between(r, x + 2, n) = Between(hb, index + 2, todo) \ {o}
  <2>1. CASE todo = 0
    <3>1. x + 2 = index + 2 /\ n = 0 /\ index + 2 > 0 /\ index + 2 \in Int
      BY <2>1, <1>2, <1>4
    <3>2. (index + 2) .. todo = {} /\ (x + 2) .. n = {}
      BY <2>1, <3>1
    <3> QED
      BY <3>2 DEF Between
  <2>2. CASE todo # 0
    <3>1. /\ x + 2 = IF i + 1 < index + 2 THEN index + 1 ELSE index + 2
          /\ n = IF i < todo THEN todo - 1 ELSE todo
      BY <2>2, <1>1, <1>2, <1>4
    <3> QED
      BY <1>10, <2>2, <1>5, <3>1
  <2> QED
    BY <2>1, <2>2
<1> QED
  BY <1>1, <1>6, <1>8, <1>9, <1>10 DEF i, r, x, n

\* The end of a turn.
LEMMA TurnedSound ==
    ASSUME NEW i \in Int, NEW n \in Nat, i >= -1,
           i < n \/ (i = -1 /\ n = 0), Turned(i, n)
    PROVE  /\ phase' \in {"calls", "beats"}
           /\ index' \in Int /\ index' >= -1 /\ todo' \in Nat /\ todo' <= n
           /\ phase' = "calls" => todo' = 0 /\ i + 1 = n
           /\ phase' = "beats" => index' \in 0 .. todo' - 1
           /\ phase' = "beats" => index' = i + 1 /\ todo' = n
BY DEF Turned

LEMMA HeartInit == Init => HeartInv
<1> SUFFICES ASSUME Init PROVE HeartInv
  OBVIOUS
<1>1. hb = <<>> /\ index = 0 /\ todo = 0 /\ phase = "io" /\ alive = Objs
  BY DEF Init
<1>2. Len(hb) = 0 /\ DOMAIN hb = {} /\ hb \in Seq(Beat)
  BY <1>1
<1> QED
  BY <1>1, <1>2 DEF HeartInv, HeartListSound, RoundInArray, BeatsOnce, InRound

\* Out of a round, what leaves the list alone keeps the invariant.
LEMMA HeartQuiet ==
    ASSUME HeartInv, ~InRound, UNCHANGED <<hb, index, todo, alive>>,
           phase' \in {"io", "calls", "called"}
    PROVE  HeartInv'
BY DEF HeartInv, HeartListSound, RoundInArray, BeatsOnce, InRound

\* A round begins, or the clock goes on without one.
LEMMA HeartAdvance == HeartInv /\ Advance => HeartInv'
<1> SUFFICES ASSUME HeartInv, Advance PROVE HeartInv'
  OBVIOUS
<1>1. phase = "calls" /\ ~InRound /\ UNCHANGED <<hb, alive>>
  BY DEF Advance, InRound
<1>2. CASE hb # <<>> /\ phase' = "beats" /\ index' = 0 /\ todo' = Len(hb)
  <2>1. Len(hb) \in Nat /\ Len(hb) > 0
    BY <1>2 DEF HeartInv
  <2> QED
    BY <1>1, <1>2, <2>1
    DEF HeartInv, HeartListSound, RoundInArray, BeatsOnce, InRound
<1>3. CASE UNCHANGED <<phase, index, todo>>
  BY <1>1, <1>3, HeartQuiet DEF HeartInv
<1> QED
  BY <1>2, <1>3 DEF Advance

\* An entry is set anew, or added behind the round.
LEMMA HeartHeartOn ==
    ASSUME HeartInv, NEW o \in Objs, NEW n \in 1 .. MaxPeriod, HeartOn(o, n)
    PROVE  HeartInv'
<1> DEFINE e == [ob |-> o, ticks |-> n, period |-> n]
<1>1. /\ o \in alive /\ phase # "beats" /\ e \in Beat
      /\ UNCHANGED <<phase, index, todo, alive>>
  BY DEF HeartOn, InLPC, Beat
<1>2. hb \in Seq(Beat) /\ Len(hb) \in Nat /\ DOMAIN hb = 1 .. Len(hb)
  BY DEF HeartInv
<1>3. CASE Beats(o)
  <2>1. /\ Place(o) \in 0 .. Len(hb) - 1 /\ hb[Place(o) + 1].ob = o
    BY <1>3, WithoutBeat
  <2>2. hb' = [hb EXCEPT ![Place(o) + 1] = e]
    BY <1>3 DEF HeartOn
  <2>3. /\ Place(o) + 1 \in 1 .. Len(hb)
        /\ hb' \in Seq(Beat) /\ Len(hb') = Len(hb) /\ DOMAIN hb' = DOMAIN hb
    BY <1>1, <1>2, <2>1, <2>2
  <2>4. \A j \in DOMAIN hb : hb'[j].ob = hb[j].ob
    BY <1>2, <2>1, <2>2
  <2> QED
    BY <1>1, <1>2, <2>3, <2>4
    DEF HeartInv, HeartListSound, RoundInArray, BeatsOnce, InRound
<1>4. CASE ~Beats(o)
  <2>1. hb' = Append(hb, e)
    BY <1>4 DEF HeartOn
  <2>2. /\ hb' \in Seq(Beat) /\ Len(hb') = Len(hb) + 1
        /\ DOMAIN hb' = 1 .. Len(hb) + 1
        /\ \A j \in 1 .. Len(hb) : hb'[j] = hb[j]
        /\ hb'[Len(hb) + 1] = e
    BY <1>1, <1>2, <2>1
  <2>3. \A j \in 1 .. Len(hb) : hb[j].ob # o
    BY <1>2, <1>4 DEF Beats
  <2>4. BeatsOnce'
    <3>1. ASSUME NEW j \in 1 .. Len(hb) + 1, NEW k \in 1 .. Len(hb) + 1,
                 hb'[j].ob = hb'[k].ob
          PROVE  j = k
      <4>1. /\ j \in 1 .. Len(hb) \/ j = Len(hb) + 1
            /\ k \in 1 .. Len(hb) \/ k = Len(hb) + 1
        BY <1>2
      <4> QED
        BY <4>1, <3>1, <1>2, <2>2, <2>3
        DEF HeartInv, HeartListSound, BeatsOnce
    <3>2. ASSUME NEW j \in 1 .. Len(hb) + 1
          PROVE  hb'[j].ob \in alive
      <4>1. j \in 1 .. Len(hb) \/ j = Len(hb) + 1
        BY <1>2
      <4> QED
        BY <4>1, <1>1, <1>2, <2>2 DEF HeartInv, HeartListSound, BeatsOnce
    <3> QED
      BY <3>1, <3>2, <2>2, <1>1 DEF BeatsOnce
  <2> QED
    BY <1>1, <1>2, <2>2, <2>4
    DEF HeartInv, HeartListSound, RoundInArray, InRound
<1> QED
  BY <1>3, <1>4

\* An entry is taken out in LPC code, its object perhaps destructed.
LEMMA HeartStopped ==
    ASSUME HeartInv, NEW o, Beats(o), InLPC, Stopped(o), UNCHANGED phase,
           alive' \in {alive, alive \ {o}}
    PROVE  HeartInv'
<1> DEFINE r == RemoveAt(hb, Place(o) + 1)
<1>1. phase # "beats"
  BY DEF InLPC
<1>2. /\ hb' = r /\ index' = IndexWithout(o) /\ todo' = TodoWithout(o)
  BY DEF Stopped, IndexWithout, TodoWithout
<1>3. /\ r \in Seq(Beat) /\ IndexWithout(o) \in Int /\ IndexWithout(o) >= -1
      /\ TodoWithout(o) \in Nat /\ TodoWithout(o) <= Len(r)
      /\ todo = 0 => TodoWithout(o) = 0
      /\ phase = "beating" =>
            \/ IndexWithout(o) < TodoWithout(o)
            \/ IndexWithout(o) = -1 /\ TodoWithout(o) = 0
      /\ \A i, j \in DOMAIN r : r[i].ob = r[j].ob => i = j
      /\ \A i \in DOMAIN r : r[i].ob \in alive \ {o}
  BY <1>1, StoppedSound
<1> HIDE DEF r
<1>4. BeatsOnce'
  BY <1>2, <1>3 DEF BeatsOnce
<1>5. RoundInArray'
  BY <1>1, <1>2, <1>3 DEF RoundInArray
<1>6. ~InRound' => todo' = 0
  BY <1>2, <1>3 DEF HeartInv, InRound
<1>7. /\ hb' \in Seq(Beat) /\ alive' \subseteq Objs
      /\ phase' \in {"io", "calls", "called", "beats", "beating"}
      /\ index' \in Int /\ index' >= -1 /\ todo' \in Nat
  BY <1>2, <1>3 DEF HeartInv
<1> QED
  BY <1>4, <1>5, <1>6, <1>7 DEF HeartInv, HeartListSound

\* An object has its turn.
LEMMA HeartTurn == HeartInv /\ Turn => HeartInv'
<1> SUFFICES ASSUME HeartInv, Turn PROVE HeartInv'
  OBVIOUS
<1>1. phase = "beats" /\ UNCHANGED alive
  BY DEF Turn
<1>2. /\ hb \in Seq(Beat) /\ Len(hb) \in Nat /\ DOMAIN hb = 1 .. Len(hb)
      /\ todo \in Nat /\ todo <= Len(hb) /\ index \in 0 .. todo - 1
      /\ index + 1 \in 1 .. Len(hb) /\ hb[index + 1] \in Beat
  BY <1>1 DEF HeartInv, HeartListSound, RoundInArray
<1>3. /\ hb' \in Seq(Beat) /\ Len(hb') = Len(hb) /\ DOMAIN hb' = DOMAIN hb
      /\ \A j \in DOMAIN hb : hb'[j].ob = hb[j].ob
  <2> DEFINE e == hb[index + 1]
  <2>1. e.ticks \in 1 .. MaxPeriod /\ e.period \in 1 .. MaxPeriod /\ e.ob \in Objs
    BY <1>2 DEF Beat
  <2>2. PICK t \in 1 .. MaxPeriod : hb' = [hb EXCEPT ![index + 1].ticks = t]
    <3>1. CASE e.ticks > 1
      <4>1. e.ticks - 1 \in 1 .. MaxPeriod
        BY <2>1, <3>1, BackendAssumption
      <4>2. hb' = [hb EXCEPT ![index + 1].ticks = e.ticks - 1]
        BY <3>1 DEF Turn
      <4> QED
        BY <4>1, <4>2
    <3>2. CASE ~(e.ticks > 1)
      BY <2>1, <3>2 DEF Turn
    <3> QED
      BY <3>1, <3>2
  <2>3. [hb[index + 1] EXCEPT !.ticks = t] \in Beat
    BY <1>2, <2>2 DEF Beat
  <2>4. /\ hb' = [hb EXCEPT ![index + 1] = [hb[index + 1] EXCEPT !.ticks = t]]
        /\ [hb[index + 1] EXCEPT !.ticks = t].ob = hb[index + 1].ob
    BY <1>2, <2>2 DEF Beat
  <2> QED
    BY <1>2, <2>3, <2>4
<1>4. BeatsOnce'
  BY <1>1, <1>3 DEF HeartInv, HeartListSound, BeatsOnce
<1>5. CASE Turned(index, todo)
  BY <1>1, <1>2, <1>3, <1>4, <1>5, TurnedSound
  DEF HeartInv, HeartListSound, RoundInArray, InRound
<1>6. CASE phase' = "beating" /\ UNCHANGED <<index, todo>>
  BY <1>1, <1>2, <1>3, <1>4, <1>6
  DEF HeartInv, HeartListSound, RoundInArray, InRound
<1> QED
  BY <1>5, <1>6 DEF Turn

\* A heart beat returns.
LEMMA HeartReturns == HeartInv /\ BeatReturns => HeartInv'
<1> SUFFICES ASSUME HeartInv, BeatReturns PROVE HeartInv'
  OBVIOUS
<1>1. phase = "beating" /\ Turned(index, todo) /\ UNCHANGED <<hb, alive>>
  BY DEF BeatReturns
<1>2. /\ index \in Int /\ todo \in Nat /\ index >= -1
      /\ index < todo \/ (index = -1 /\ todo = 0)
      /\ todo <= Len(hb)
      /\ Len(hb) \in Nat
  BY <1>1 DEF HeartInv, HeartListSound, RoundInArray
<1> QED
  BY <1>1, <1>2, TurnedSound
  DEF HeartInv, HeartListSound, RoundInArray, BeatsOnce, InRound

\* An error ends a heart beat, and takes it away.
LEMMA HeartFails == HeartInv /\ BeatFails => HeartInv'
<1> SUFFICES ASSUME HeartInv, BeatFails PROVE HeartInv'
  OBVIOUS
<1>1. phase = "beating" /\ UNCHANGED alive
  BY DEF BeatFails
<1>2. CASE current \in alive /\ Beats(current)
  <2> DEFINE r == RemoveAt(hb, Place(current) + 1)
             x == IndexWithout(current)
             n == TodoWithout(current)
  <2>1. hb' = r /\ Turned(x, n)
    BY <1>2 DEF BeatFails, IndexWithout, TodoWithout
  <2>2. /\ r \in Seq(Beat) /\ x \in Int /\ x >= -1 /\ n \in Nat
        /\ n <= Len(r) /\ (x < n \/ (x = -1 /\ n = 0))
        /\ \A i, j \in DOMAIN r : r[i].ob = r[j].ob => i = j
        /\ \A i \in DOMAIN r : r[i].ob \in alive \ {current}
    BY <1>1, <1>2, StoppedSound
  <2>3. Len(r) \in Nat
    BY <2>2
  <2> HIDE DEF r, x, n
  <2>4. BeatsOnce'
    BY <1>1, <2>1, <2>2 DEF BeatsOnce
  <2> QED
    BY <1>1, <2>1, <2>2, <2>3, <2>4, TurnedSound
    DEF HeartInv, HeartListSound, RoundInArray, InRound
<1>3. CASE ~(current \in alive /\ Beats(current))
  <2>1. UNCHANGED hb /\ Turned(index, todo)
    BY <1>3 DEF BeatFails
  <2>2. /\ index \in Int /\ todo \in Nat /\ index >= -1
        /\ index < todo \/ (index = -1 /\ todo = 0)
        /\ todo <= Len(hb)
        /\ Len(hb) \in Nat
    BY <1>1 DEF HeartInv, HeartListSound, RoundInArray
  <2> QED
    BY <1>1, <2>1, <2>2, TurnedSound
    DEF HeartInv, HeartListSound, RoundInArray, BeatsOnce, InRound
<1> QED
  BY <1>2, <1>3

\* The others leave the list alone, and are made out of a round.
LEMMA HeartNext == HeartInv /\ [Next]_vars => HeartInv'
<1> SUFFICES ASSUME HeartInv, [Next]_vars PROVE HeartInv'
  OBVIOUS
<1>1. CASE \E n \in 0 .. MaxLag : Begin(n)
  BY <1>1, HeartQuiet DEF Begin, InRound
<1>2. CASE Call
  BY <1>2, HeartQuiet DEF Call, InRound
<1>3. CASE CallReturns
  BY <1>3, HeartQuiet DEF CallReturns, InRound
<1>4. CASE CallTooLong
  BY <1>4, HeartQuiet DEF CallTooLong, InRound
<1>5. CASE Advance
  BY <1>5, HeartAdvance
<1>6. CASE End
  BY <1>6, HeartQuiet DEF End, InRound
<1>7. CASE Turn
  BY <1>7, HeartTurn
<1>8. CASE BeatReturns
  BY <1>8, HeartReturns
<1>9. CASE BeatFails
  BY <1>9, HeartFails
<1>10. ASSUME NEW o \in Objs, NEW f \in Funs, RemoveCallOut(o, f)
       PROVE  HeartInv'
  BY <1>10 DEF RemoveCallOut, HeartInv, HeartListSound, RoundInArray,
               BeatsOnce, InRound
<1>11. ASSUME NEW o \in Objs, NEW f \in Funs, NEW d \in 0 .. MaxDelay,
              CallOut(o, f, d)
       PROVE  HeartInv'
  BY <1>11 DEF CallOut, HeartInv, HeartListSound, RoundInArray,
               BeatsOnce, InRound
<1>12. ASSUME NEW o \in Objs, RemoveAllCallOut(o)
       PROVE  HeartInv'
  BY <1>12 DEF RemoveAllCallOut, HeartInv, HeartListSound, RoundInArray,
               BeatsOnce, InRound
<1>13. ASSUME NEW o \in Objs, Destruct(o)
       PROVE  HeartInv'
  <2>1. InLPC /\ alive' = alive \ {o} /\ UNCHANGED phase
    BY <1>13 DEF Destruct
  <2>2. CASE Beats(o)
    BY <1>13, <2>1, <2>2, HeartStopped DEF Destruct
  <2>3. CASE ~Beats(o)
    BY <1>13, <2>1, <2>3
    DEF Destruct, NotStopped, Beats, HeartInv, HeartListSound, RoundInArray,
        BeatsOnce, InRound
  <2> QED
    BY <2>2, <2>3
<1>14. ASSUME NEW o \in Objs, HeartOff(o)
       PROVE  HeartInv'
  BY <1>14, HeartStopped DEF HeartOff
<1>15. ASSUME NEW o \in Objs, NEW n \in 1 .. MaxPeriod, HeartOn(o, n)
       PROVE  HeartInv'
  BY <1>15, HeartHeartOn
<1>16. CASE UNCHANGED vars
  BY <1>16 DEF vars, HeartInv, HeartListSound, RoundInArray, BeatsOnce, InRound
<1> QED
  BY <1>1, <1>2, <1>3, <1>4, <1>5, <1>6, <1>7, <1>8, <1>9, <1>10, <1>11,
     <1>12, <1>13, <1>14, <1>15, <1>16 DEF Next

\* HeartInv holds in every state (backend.c: call_heart_beat, set_heart_beat).
THEOREM HeartBeatInvariant == Spec => []HeartInv
<1> QED
  BY HeartInit, HeartNext, PTL DEF Spec

\* Whatever heart beats, calls and commands remove and add, the loop of
\* call_heart_beat() stays within its round and within the array, and no
\* object is in the list twice or after its destruction.
THEOREM HeartBeatsAreSound == Spec => []HeartListSound
<1>1. HeartInv => HeartListSound
  BY DEF HeartInv
<1> QED
  BY <1>1, HeartBeatInvariant, PTL

-----------------------------------------------------------------------------
(* The array implements the rounds of Beats.                               *)

\* A step that changes neither who has a heart beat nor who still waits.
RoundStep == Rounds!Next \/ UNCHANGED Rounds!vars

\* Out of a round nobody waits.
LEMMA NobodyWaits == ~InRound => Waiting = {}
BY DEF Waiting, InRound

LEMMA WaitingWhere ==
    /\ phase = "beats" => Waiting = Between(hb, index + 1, todo)
    /\ phase = "beating" => Waiting = Between(hb, index + 2, todo)
BY DEF Waiting, Between

LEMMA WaitingNext ==
    /\ phase' = "beats" => Waiting' = Between(hb', index' + 1, todo')
    /\ phase' = "beating" => Waiting' = Between(hb', index' + 2, todo')
    /\ phase' \notin {"beats", "beating"} => Waiting' = {}
BY DEF Waiting, Between

\* When a turn ends, those behind it are left.
LEMMA TurnedWaiting ==
    ASSUME NEW i \in Int, NEW n \in Nat, i >= -1,
           i < n \/ (i = -1 /\ n = 0), Turned(i, n)
    PROVE  Waiting' = Between(hb', i + 2, n)
<1>1. CASE i + 1 = n
  <2>1. phase' = "calls" /\ (i + 2) .. n = {}
    BY <1>1 DEF Turned
  <2> QED
    BY <2>1, WaitingNext DEF Between
<1>2. CASE i + 1 # n
  <2>1. phase' = "beats" /\ index' + 1 = i + 2 /\ todo' = n
    BY <1>2 DEF Turned
  <2> QED
    BY <2>1, WaitingNext
<1> QED
  BY <1>1, <1>2

\* The objects that have a heart beat.
Having == {hb[i].ob : i \in DOMAIN hb}

LEMMA QuietRound ==
    Having' = Having /\ Waiting' = Waiting => RoundStep
BY DEF RoundStep, Rounds!vars, Having

LEMMA OffRound ==
    ASSUME NEW o \in Objs, Having' = Having \ {o}, Waiting' = Waiting \ {o}
    PROVE  RoundStep
BY DEF RoundStep, Rounds!Next, Rounds!Off, Having

\* Without one entry the list has one object less.
LEMMA HavingWithout ==
    ASSUME HeartInv, NEW o, Beats(o), hb' = RemoveAt(hb, Place(o) + 1)
    PROVE  Having' = Having \ {o}
<1>1. /\ Place(o) \in 0 .. Len(hb) - 1 /\ Len(hb) \in Nat
      /\ hb' \in Seq(Beat) /\ Len(hb') = Len(hb) - 1 /\ hb \in Seq(Beat)
  BY WithoutBeat DEF HeartInv
<1>2. DOMAIN hb = 1 .. Len(hb) /\ DOMAIN hb' = 1 .. Len(hb) - 1
  BY <1>1
<1>3. 1 \in Nat \ {0} /\ Len(hb) \in 0 .. Len(hb)
  BY <1>1
<1>4. /\ (IF Place(o) + 1 < 1 THEN 1 - 1 ELSE 1) = 1
      /\ (IF Place(o) < Len(hb) THEN Len(hb) - 1 ELSE Len(hb)) = Len(hb) - 1
  BY <1>1
<1>5. Between(RemoveAt(hb, Place(o) + 1),
              IF Place(o) + 1 < 1 THEN 1 - 1 ELSE 1,
              IF Place(o) < Len(hb) THEN Len(hb) - 1 ELSE Len(hb))
         = Between(hb, 1, Len(hb)) \ {o}
  BY <1>3, BetweenWithout
<1>6. Between(hb', 1, Len(hb) - 1) = Between(hb, 1, Len(hb)) \ {o}
  BY <1>4, <1>5
<1> QED
  BY <1>2, <1>6 DEF Having, Between

LEMMA RoundAdvance == HeartInv /\ Advance => RoundStep
<1> SUFFICES ASSUME HeartInv, Advance PROVE RoundStep
  OBVIOUS
<1>1. phase = "calls" /\ UNCHANGED hb /\ Waiting = {}
  BY NobodyWaits DEF Advance, InRound
<1>2. CASE phase' = "beats" /\ index' = 0 /\ todo' = Len(hb)
  <2>1. /\ DOMAIN hb = 1 .. Len(hb) /\ index' + 1 = 1
    BY <1>2 DEF HeartInv
  <2>2. Waiting' = Having
    BY <1>1, <1>2, <2>1, WaitingNext DEF Having, Between
  <2> QED
    BY <1>1, <2>2 DEF RoundStep, Rounds!Next, Rounds!Round, Having
<1>3. CASE UNCHANGED phase
  <2>1. Waiting' = {} /\ Having' = Having
    BY <1>1, <1>3, WaitingNext DEF Having
  <2> QED
    BY <1>1, <2>1, QuietRound
<1> QED
  BY <1>2, <1>3 DEF Advance

LEMMA RoundHeartOn ==
    ASSUME HeartInv, NEW o \in Objs, NEW n \in 1 .. MaxPeriod, HeartOn(o, n)
    PROVE  RoundStep
<1> DEFINE e == [ob |-> o, ticks |-> n, period |-> n]
<1>1. phase # "beats" /\ UNCHANGED <<phase, index, todo>>
  BY DEF HeartOn, InLPC
<1>2. /\ hb \in Seq(Beat) /\ Len(hb) \in Nat /\ DOMAIN hb = 1 .. Len(hb)
      /\ todo \in Nat /\ todo <= Len(hb) /\ index \in Int /\ index >= -1
  BY DEF HeartInv, HeartListSound, RoundInArray
<1>3. /\ DOMAIN hb \subseteq DOMAIN hb'
      /\ \A j \in DOMAIN hb : hb'[j].ob = hb[j].ob
      /\ Having' = Having \cup {o}
  <2>1. CASE Beats(o)
    <3>1. /\ Place(o) \in 0 .. Len(hb) - 1 /\ hb[Place(o) + 1].ob = o
      BY <2>1, WithoutBeat
    <3>2. hb' = [hb EXCEPT ![Place(o) + 1] = e] /\ e.ob = o
      BY <2>1 DEF HeartOn
    <3>3. /\ DOMAIN hb' = DOMAIN hb /\ Place(o) + 1 \in DOMAIN hb
          /\ \A j \in DOMAIN hb : hb'[j].ob = hb[j].ob
      BY <1>2, <3>1, <3>2
    <3> QED
      BY <3>1, <3>3 DEF Having
  <2>2. CASE ~Beats(o)
    <3>1. hb' = Append(hb, e) /\ e.ob = o
      BY <2>2 DEF HeartOn
    <3>2. /\ DOMAIN hb' = 1 .. Len(hb) + 1
          /\ \A j \in 1 .. Len(hb) : hb'[j] = hb[j]
          /\ hb'[Len(hb) + 1] = e
      BY <1>2, <3>1
    <3>3. DOMAIN hb' = DOMAIN hb \cup {Len(hb) + 1}
      BY <1>2, <3>2
    <3> HIDE DEF e
    <3> QED
      BY <1>2, <3>1, <3>2, <3>3 DEF Having
  <2> QED
    BY <2>1, <2>2
<1>4. Waiting' = Waiting
  <2>1. CASE phase = "beating"
    <3>1. /\ Waiting = Between(hb, index + 2, todo)
          /\ Waiting' = Between(hb', index + 2, todo)
      BY <1>1, <2>1, WaitingWhere, WaitingNext
    <3>2. (index + 2) .. todo \subseteq DOMAIN hb
      BY <1>2
    <3> QED
      BY <1>3, <3>1, <3>2 DEF Between
  <2>2. CASE phase # "beating"
    BY <1>1, <2>2, NobodyWaits, WaitingNext DEF InRound
  <2> QED
    BY <2>1, <2>2
<1> QED
  BY <1>3, <1>4 DEF RoundStep, Rounds!Next, Rounds!On, Having

LEMMA RoundStopped ==
    ASSUME HeartInv, NEW o \in Objs, Beats(o), InLPC, Stopped(o),
           UNCHANGED phase
    PROVE  RoundStep
<1>1. /\ phase # "beats" /\ hb' = RemoveAt(hb, Place(o) + 1)
      /\ index' = IndexWithout(o) /\ todo' = TodoWithout(o)
  BY DEF InLPC, Stopped, IndexWithout, TodoWithout
<1>2. Having' = Having \ {o}
  BY <1>1, HavingWithout
<1>3. CASE phase = "beating"
  <2>1. Between(RemoveAt(hb, Place(o) + 1), IndexWithout(o) + 2, TodoWithout(o))
           = Between(hb, index + 2, todo) \ {o}
    BY <1>1, <1>3, StoppedSound
  <2>2. Waiting' = Waiting \ {o}
    BY <1>1, <1>3, <2>1, WaitingWhere, WaitingNext
  <2> QED
    BY <1>2, <2>2, OffRound
<1>4. CASE phase # "beating"
  <2>1. Waiting = {} /\ Waiting' = {}
    BY <1>1, <1>4, NobodyWaits, WaitingNext DEF InRound
  <2> QED
    BY <1>2, <2>1, OffRound
<1> QED
  BY <1>3, <1>4

LEMMA RoundTurn == HeartInv /\ Turn => RoundStep
<1> SUFFICES ASSUME HeartInv, Turn PROVE RoundStep
  OBVIOUS
<1> DEFINE o == hb[index + 1].ob
<1>1. /\ phase = "beats"
      /\ hb \in Seq(Beat) /\ Len(hb) \in Nat /\ DOMAIN hb = 1 .. Len(hb)
      /\ todo \in Nat /\ todo <= Len(hb) /\ index \in 0 .. todo - 1
      /\ index + 1 \in 1 .. Len(hb) /\ hb[index + 1] \in Beat /\ o \in Objs
  <2>1. phase = "beats"
    BY DEF Turn
  <2>2. /\ hb \in Seq(Beat) /\ Len(hb) \in Nat /\ DOMAIN hb = 1 .. Len(hb)
        /\ todo \in Nat /\ todo <= Len(hb) /\ index \in 0 .. todo - 1
        /\ index + 1 \in 1 .. Len(hb) /\ hb[index + 1] \in Beat
    BY <2>1 DEF HeartInv, HeartListSound, RoundInArray
  <2> QED
    BY <2>1, <2>2 DEF Beat
<1>2. /\ DOMAIN hb' = DOMAIN hb
      /\ \A j \in DOMAIN hb : hb'[j].ob = hb[j].ob
  BY <1>1 DEF Turn, Beat
<1>3. Having' = Having
  BY <1>2 DEF Having
<1>4. Waiting' = Between(hb', index + 2, todo)
  BY <1>1, TurnedWaiting, WaitingNext DEF Turn
<1>5. /\ Waiting = Between(hb, index + 1, todo)
      /\ index + 1 \in (index + 1) .. todo
      /\ (index + 2) .. todo = ((index + 1) .. todo) \ {index + 1}
      /\ (index + 1) .. todo \subseteq DOMAIN hb
  BY <1>1, WaitingWhere
<1>6. \A j \in DOMAIN hb : hb[j].ob = o => j = index + 1
  BY <1>1 DEF HeartInv, HeartListSound, BeatsOnce
<1>7. o \in Waiting
  BY <1>5 DEF Between
<1> HIDE DEF o
<1>8. ASSUME NEW x PROVE x \in Waiting' <=> x \in Waiting \ {o}
  <2>1. ASSUME x \in Waiting' PROVE x \in Waiting \ {o}
    <3>1. PICK j \in (index + 2) .. todo : x = hb'[j].ob
      BY <2>1, <1>4 DEF Between
    <3>2. j \in (index + 1) .. todo /\ j \in DOMAIN hb /\ j # index + 1
      BY <1>5, <3>1
    <3> QED
      BY <1>2, <1>5, <1>6, <3>1, <3>2 DEF Between
  <2>2. ASSUME x \in Waiting \ {o} PROVE x \in Waiting'
    <3>1. PICK j \in (index + 1) .. todo : x = hb[j].ob
      BY <2>2, <1>5 DEF Between
    <3>2. j # index + 1
      BY <2>2, <3>1 DEF o
    <3>3. j \in (index + 2) .. todo /\ j \in DOMAIN hb
      BY <1>5, <3>1, <3>2
    <3> QED
      BY <1>2, <1>4, <3>1, <3>3 DEF Between
  <2> QED
    BY <2>1, <2>2
<1>9. Waiting' = Waiting \ {o}
  BY <1>8
<1> QED
  BY <1>1, <1>3, <1>7, <1>9 DEF RoundStep, Rounds!Next, Rounds!Turn, Having

LEMMA RoundReturns == HeartInv /\ BeatReturns => RoundStep
<1> SUFFICES ASSUME HeartInv, BeatReturns PROVE RoundStep
  OBVIOUS
<1>1. phase = "beating" /\ Turned(index, todo) /\ UNCHANGED hb
  BY DEF BeatReturns
<1>2. /\ index \in Int /\ todo \in Nat /\ index >= -1
      /\ index < todo \/ (index = -1 /\ todo = 0)
  BY <1>1 DEF HeartInv, HeartListSound, RoundInArray
<1>3. Waiting' = Waiting
  BY <1>1, <1>2, TurnedWaiting, WaitingWhere
<1> QED
  BY <1>1, <1>3, QuietRound DEF Having

LEMMA RoundFails == HeartInv /\ BeatFails => RoundStep
<1> SUFFICES ASSUME HeartInv, BeatFails PROVE RoundStep
  OBVIOUS
<1>1. phase = "beating"
  BY DEF BeatFails
<1>2. CASE current \in alive /\ Beats(current)
  <2>1. /\ hb' = RemoveAt(hb, Place(current) + 1)
        /\ Turned(IndexWithout(current), TodoWithout(current))
    BY <1>2 DEF BeatFails, IndexWithout, TodoWithout
  <2>2. /\ IndexWithout(current) \in Int /\ IndexWithout(current) >= -1
        /\ TodoWithout(current) \in Nat
        /\ \/ IndexWithout(current) < TodoWithout(current)
           \/ IndexWithout(current) = -1 /\ TodoWithout(current) = 0
        /\ Between(RemoveAt(hb, Place(current) + 1),
                   IndexWithout(current) + 2, TodoWithout(current))
              = Between(hb, index + 2, todo) \ {current}
    BY <1>1, <1>2, StoppedSound
  <2>3. Waiting' = Waiting \ {current}
    BY <1>1, <2>1, <2>2, TurnedWaiting, WaitingWhere
  <2>4. Having' = Having \ {current} /\ current \in Objs
    BY <1>2, <2>1, HavingWithout DEF HeartInv
  <2> QED
    BY <2>3, <2>4, OffRound
<1>3. CASE ~(current \in alive /\ Beats(current))
  <2>1. UNCHANGED hb /\ Turned(index, todo)
    BY <1>3 DEF BeatFails
  <2>2. /\ index \in Int /\ todo \in Nat /\ index >= -1
        /\ index < todo \/ (index = -1 /\ todo = 0)
    BY <1>1 DEF HeartInv, HeartListSound, RoundInArray
  <2>3. Waiting' = Waiting
    BY <1>1, <2>1, <2>2, TurnedWaiting, WaitingWhere
  <2> QED
    BY <2>1, <2>3, QuietRound DEF Having
<1> QED
  BY <1>2, <1>3

\* Steps that leave the list alone, out of a round or within the same turn.
LEMMA RoundQuiet ==
    ASSUME UNCHANGED hb,
           \/ phase \notin {"beats", "beating"} /\ phase' \notin {"beats", "beating"}
           \/ UNCHANGED <<phase, index, todo>>
    PROVE  RoundStep
<1>1. Having' = Having
  BY DEF Having
<1>2. Waiting' = Waiting
  BY NobodyWaits, WaitingNext, WaitingWhere DEF InRound
<1> QED
  BY <1>1, <1>2, QuietRound

LEMMA RoundNext == HeartInv /\ [Next]_vars => RoundStep
<1> SUFFICES ASSUME HeartInv, [Next]_vars PROVE RoundStep
  OBVIOUS
<1>1. CASE \E n \in 0 .. MaxLag : Begin(n)
  BY <1>1, RoundQuiet DEF Begin
<1>2. CASE Call \/ CallReturns \/ CallTooLong \/ End
  BY <1>2, RoundQuiet DEF Call, CallReturns, CallTooLong, End
<1>3. CASE Advance
  BY <1>3, RoundAdvance
<1>4. CASE Turn
  BY <1>4, RoundTurn
<1>5. CASE BeatReturns
  BY <1>5, RoundReturns
<1>6. CASE BeatFails
  BY <1>6, RoundFails
<1>7. ASSUME NEW o \in Objs, NEW f \in Funs, RemoveCallOut(o, f)
      PROVE  RoundStep
  BY <1>7, RoundQuiet DEF RemoveCallOut
<1>8. ASSUME NEW o \in Objs, NEW f \in Funs, NEW d \in 0 .. MaxDelay,
             CallOut(o, f, d)
      PROVE  RoundStep
  BY <1>8, RoundQuiet DEF CallOut
<1>9. ASSUME NEW o \in Objs, RemoveAllCallOut(o)
      PROVE  RoundStep
  BY <1>9, RoundQuiet DEF RemoveAllCallOut
<1>10. ASSUME NEW o \in Objs, Destruct(o)
       PROVE  RoundStep
  <2>1. InLPC /\ UNCHANGED phase
    BY <1>10 DEF Destruct
  <2>2. CASE Beats(o)
    BY <1>10, <2>1, <2>2, RoundStopped DEF Destruct
  <2>3. CASE ~Beats(o)
    BY <1>10, <2>1, <2>3, RoundQuiet DEF Destruct, NotStopped
  <2> QED
    BY <2>2, <2>3
<1>11. ASSUME NEW o \in Objs, HeartOff(o)
       PROVE  RoundStep
  BY <1>11, RoundStopped DEF HeartOff
<1>12. ASSUME NEW o \in Objs, NEW n \in 1 .. MaxPeriod, HeartOn(o, n)
       PROVE  RoundStep
  BY <1>12, RoundHeartOn
<1>13. CASE UNCHANGED vars
  BY <1>13, RoundQuiet DEF vars
<1> QED
  BY <1>1, <1>2, <1>3, <1>4, <1>5, <1>6, <1>7, <1>8, <1>9, <1>10, <1>11,
     <1>12, <1>13 DEF Next

\* The loop of call_heart_beat() with set_heart_beat() and the error handler
\* behind it implements the rounds of Beats: nobody who keeps his heart beat
\* is left out of a round, nobody has two turns in one.
THEOREM HeartBeatsImplementRounds == Spec => ImplementsBeats
<1>1. Init => Rounds!Init
  <2> SUFFICES ASSUME Init PROVE Rounds!Init
    OBVIOUS
  <2>1. hb = <<>> /\ phase = "io"
    BY DEF Init
  <2>2. DOMAIN hb = {}
    BY <2>1
  <2> QED
    BY <2>1, <2>2 DEF Rounds!Init, Waiting
<1>2. HeartInv /\ [Next]_vars => [Rounds!Next]_(Rounds!vars)
  BY RoundNext DEF RoundStep
<1> QED
  BY <1>1, <1>2, HeartBeatInvariant, PTL DEF Spec, ImplementsBeats, Rounds!Spec

-----------------------------------------------------------------------------
(* The wheel of call_outs.                                                 *)

Entry == [ob : Objs, fun : Funs, delta : Nat]

-----------------------------------------------------------------------------
(* The slots of the wheel.                                                 *)

\* The sum of the deltas up to each entry.
LEMMA SumsAre ==
    ASSUME NEW s \in Seq(Entry)
    PROVE  /\ Sums(s) \in [0..Len(s) -> Nat] /\ Sums(s)[0] = 0
           /\ \A i \in 1..Len(s) : Sums(s)[i] = Sums(s)[i - 1] + s[i].delta
<1> DEFINE n == Len(s)
           F == [i \in 1..n |-> [x \in Nat |-> x + s[i].delta]]
           g == Sums(s)
<1>1. n \in Nat /\ \A i \in 1..n : s[i].delta \in Nat
  <2>1. \A i \in 1..n : s[i] \in Entry
    OBVIOUS
  <2> QED
    BY <2>1 DEF Entry
<1> HIDE DEF n
<1>2. F \in [1..n -> [Nat -> Nat]] /\ \A i \in 1..n : \A x \in Nat : F[i][x] = x + s[i].delta
  BY <1>1
<1> HIDE DEF F
<1>3. PICK f \in [0..n -> Nat] : StepByStep(f, n, 0, F)
  <2>1. n \in Nat /\ 0 \in Nat /\ F \in [1..n -> [Nat -> Nat]]
    BY <1>1, <1>2
  <2> QED
    BY ONLY <2>1, Defined
<1>4. f = [j \in 0..n |-> IF j = 0 THEN 0 ELSE f[j - 1] + s[j].delta]
  <2>1. ASSUME NEW j \in 0..n, j # 0 PROVE F[j][f[j - 1]] = f[j - 1] + s[j].delta
    <3>1. j \in 1..n /\ j - 1 \in 0..n
      BY <1>1, <2>1
    <3>2. f[j - 1] \in Nat
      BY <3>1
    <3> QED
      BY <1>2, <3>1, <3>2
  <2>2. \A j \in 0..n : (IF j = 0 THEN 0 ELSE F[j][f[j - 1]])
                          = IF j = 0 THEN 0 ELSE f[j - 1] + s[j].delta
    BY <2>1
  <2> QED
    BY <1>3, <2>2 DEF StepByStep
<1>5. g = CHOOSE sum : sum = [j \in 0..n |-> IF j = 0 THEN 0 ELSE sum[j - 1] + s[j].delta]
  BY DEF Sums, n
<1> HIDE DEF g
<1>6. g = [j \in 0..n |-> IF j = 0 THEN 0 ELSE g[j - 1] + s[j].delta]
  BY <1>4, <1>5
<1>7. g[0] = 0 /\ \A i \in 1..n : g[i] = g[i - 1] + s[i].delta
  BY <1>1, <1>6
<1> DEFINE S == {i \in 0..n : g[i] \in Nat}
<1>8. 0 \in S
  BY <1>1, <1>7
<1>9. ASSUME NEW i \in 0..(n - 1), i \in S PROVE i + 1 \in S
  <2>1. i + 1 \in 1..n /\ (i + 1) - 1 = i
    BY <1>1
  <2>2. g[i] \in Nat /\ g[i + 1] = g[i] + s[i + 1].delta /\ s[i + 1].delta \in Nat
    BY <1>1, <1>7, <1>9, <2>1
  <2>3. g[i + 1] \in Nat /\ i + 1 \in 0..n
    BY <1>1, <2>1, <2>2
  <2> QED
    BY <2>3
<1>10. \A i \in 0..n : i \in S
  <2> HIDE DEF S
  <2> QED
    BY <1>1, <1>8, <1>9, Counting
<1> QED
  BY <1>6, <1>7, <1>10 DEF g, n

LEMMA SumsUnique ==
    ASSUME NEW s \in Seq(Entry), NEW f, f[0] = 0,
           \A i \in 1..Len(s) : f[i] = f[i - 1] + s[i].delta
    PROVE  \A i \in 0..Len(s) : f[i] = Sums(s)[i]
<1> DEFINE n == Len(s)
           g == Sums(s)
           S == {i \in 0..n : f[i] = g[i]}
<1>1. /\ n \in Nat /\ g[0] = 0
      /\ \A i \in 1..n : g[i] = g[i - 1] + s[i].delta
  BY SumsAre
<1> HIDE DEF g, n
<1>2. 0 \in S
  BY <1>1
<1>3. ASSUME NEW i \in 0..(n - 1), i \in S PROVE i + 1 \in S
  <2>1. i + 1 \in 1..n /\ (i + 1) - 1 = i /\ i + 1 \in 0..n
    BY <1>1
  <2>2. f[i + 1] = f[(i + 1) - 1] + s[i + 1].delta
    BY <2>1 DEF n
  <2> QED
    BY <1>1, <1>3, <2>1, <2>2
<1>4. \A i \in 0..n : i \in S
  <2> HIDE DEF S
  <2> QED
    BY <1>1, <1>2, <1>3, Counting
<1> QED
  BY <1>4 DEF g, n

\* The calls of a slot, each with the cycles until it is due.
TimedCall == [ob : Objs, fun : Funs, after : Nat]
Timed(s) == [i \in DOMAIN s |-> [ob |-> s[i].ob, fun |-> s[i].fun, after |-> Sums(s)[i]]]
After(t, i) == IF i = 0 THEN 0 ELSE t[i].after

LEMMA TimedIs ==
    ASSUME NEW s \in Seq(Entry)
    PROVE  /\ Timed(s) \in Seq(TimedCall) /\ Len(Timed(s)) = Len(s)
           /\ \A i \in 1..Len(s) :
                 /\ Timed(s)[i].ob = s[i].ob /\ Timed(s)[i].fun = s[i].fun
                 /\ Timed(s)[i].after = Sums(s)[i]
                 /\ After(Timed(s), i) = After(Timed(s), i - 1) + s[i].delta
                 /\ After(Timed(s), i - 1) \in Nat /\ After(Timed(s), i) \in Nat
           /\ \A i \in 0..Len(s) : Cycles(s, i) = After(Timed(s), i)
<1> DEFINE n == Len(s)
           g == Sums(s)
           t == Timed(s)
<1>1. /\ n \in Nat /\ g \in [0..n -> Nat] /\ g[0] = 0
      /\ \A i \in 1..n : g[i] = g[i - 1] + s[i].delta
  BY SumsAre
<1>2. DOMAIN s = 1..n /\ \A i \in 1..n : s[i] \in Entry
  OBVIOUS
<1>3. t = [i \in 1..n |-> [ob |-> s[i].ob, fun |-> s[i].fun, after |-> g[i]]]
  BY <1>2 DEF Timed
<1>4. \A i \in 0..n : Cycles(s, i) = g[i]
  BY DEF Cycles
<1> HIDE DEF t, g, n
<1>5. ASSUME NEW i \in 1..n PROVE [ob |-> s[i].ob, fun |-> s[i].fun, after |-> g[i]] \in TimedCall
  BY <1>1, <1>2 DEF TimedCall, Entry
<1>6. t \in [1..n -> TimedCall]
  BY <1>3, <1>5
<1>7. t \in Seq(TimedCall) /\ Len(t) = n
  BY <1>1, <1>6
<1>8. \A i \in 1..n : t[i].ob = s[i].ob /\ t[i].fun = s[i].fun /\ t[i].after = g[i]
  BY <1>3
<1>9. \A i \in 0..n : After(t, i) = g[i]
  <2>1. ASSUME NEW i \in 0..n, i # 0 PROVE i \in 1..n
    BY <1>1, <2>1
  <2> QED
    BY <1>1, <1>8, <2>1 DEF After
<1>10. \A i \in 1..n : i \in 0..n /\ i - 1 \in 0..n
  BY <1>1
<1>11. \A i \in 1..n : After(t, i) = After(t, i - 1) + s[i].delta
                        /\ After(t, i - 1) \in Nat /\ After(t, i) \in Nat
  BY <1>1, <1>9, <1>10
<1> QED
  BY <1>4, <1>7, <1>8, <1>9, <1>11 DEF t, g, n

\* A list is the timed one of a slot when the differences are its deltas.
LEMMA TimedBy ==
    ASSUME NEW s \in Seq(Entry), NEW t \in Seq(TimedCall), Len(t) = Len(s),
           \A i \in 1..Len(s) : /\ t[i].ob = s[i].ob /\ t[i].fun = s[i].fun
                                /\ After(t, i) = After(t, i - 1) + s[i].delta
    PROVE  Timed(s) = t
<1> DEFINE n == Len(s)
           f == [i \in 0..n |-> After(t, i)]
           u == Timed(s)
<1>1. n \in Nat /\ f[0] = 0 /\ \A i \in 1..n : f[i] = After(t, i) /\ f[i - 1] = After(t, i - 1)
  <2>1. n \in Nat
    OBVIOUS
  <2>2. 0 \in 0..n /\ \A i \in 1..n : i \in 0..n /\ i - 1 \in 0..n
    BY <2>1
  <2> QED
    BY <2>1, <2>2 DEF After
<1>2. \A i \in 1..n : f[i] = f[i - 1] + s[i].delta
  BY <1>1
<1> HIDE DEF f
<1>3. \A i \in 0..Len(s) : f[i] = Sums(s)[i]
  BY <1>1, <1>2, SumsUnique
<1>4. \A i \in 1..n : i \in 0..n /\ t[i].after = Sums(s)[i]
  <2>1. \A i \in 1..n : i \in 0..n /\ i # 0
    BY <1>1
  <2> QED
    BY <1>1, <1>3, <2>1 DEF After
<1>5. /\ u \in Seq(TimedCall) /\ Len(u) = n
      /\ \A i \in 1..n : u[i].ob = s[i].ob /\ u[i].fun = s[i].fun /\ u[i].after = Sums(s)[i]
  BY TimedIs
<1> HIDE DEF u, n
<1>6. Len(t) = n
  BY DEF n
<1>8. \A i \in 1..n : t[i].ob = s[i].ob /\ t[i].fun = s[i].fun
  BY DEF n
<1>7. ASSUME NEW i \in 1..n PROVE u[i] = t[i]
  <2>1. u[i] \in TimedCall /\ t[i] \in TimedCall
    BY <1>5, <1>6
  <2>2. u[i].ob = t[i].ob /\ u[i].fun = t[i].fun /\ u[i].after = t[i].after
    BY <1>4, <1>5, <1>8
  <2>3. \A x \in TimedCall : x = [ob |-> x.ob, fun |-> x.fun, after |-> x.after]
    BY DEF TimedCall
  <2>4. u[i] = [ob |-> u[i].ob, fun |-> u[i].fun, after |-> u[i].after]
    BY <2>1, <2>3
  <2>5. t[i] = [ob |-> t[i].ob, fun |-> t[i].fun, after |-> t[i].after]
    BY <2>1, <2>3
  <2> QED
    BY <2>2, <2>4, <2>5
<1> QED
  BY <1>5, <1>6, <1>7 DEF u

\* The cycles do not get less along a slot.
LEMMA TimedRises ==
    ASSUME NEW s \in Seq(Entry)
    PROVE  \A i, j \in 1..Len(s) : i <= j => Timed(s)[i].after <= Timed(s)[j].after
<1> DEFINE n == Len(s)
           t == Timed(s)
<1>1. /\ n \in Nat /\ \A i \in 1..n : s[i].delta \in Nat
      /\ t \in Seq(TimedCall) /\ Len(t) = n
      /\ \A i \in 1..n : t[i].after \in Nat /\ After(t, i) = After(t, i - 1) + s[i].delta
  <2>1. \A i \in 1..n : s[i].delta \in Nat
    <3>1. \A i \in 1..n : s[i] \in Entry
      OBVIOUS
    <3> QED
      BY <3>1 DEF Entry
  <2>2. /\ t \in Seq(TimedCall) /\ Len(t) = n
        /\ \A i \in 1..n : After(t, i) = After(t, i - 1) + s[i].delta
    BY TimedIs
  <2>3. \A i \in 1..n : t[i].after \in Nat
    <3>1. \A i \in 1..n : t[i] \in TimedCall
      BY <2>2
    <3> QED
      BY <3>1 DEF TimedCall
  <2> QED
    BY <2>1, <2>2, <2>3
<1> HIDE DEF n, t
<1>2. ASSUME NEW i \in 1..n PROVE \A j \in 1..n : i <= j => t[i].after <= t[j].after
  <2> DEFINE S == {j \in 0..n : i <= j => t[i].after <= t[j].after}
  <2>1. 0 \in S
    BY <1>1
  <2>2. ASSUME NEW j \in 0..(n - 1), j \in S PROVE j + 1 \in S
    <3>0. j + 1 \in 0..n /\ j + 1 \in 1..n
      BY <1>1
    <3>1. CASE i = j + 1
      BY <1>1, <3>0, <3>1
    <3>2. CASE j + 1 < i
      BY <3>0, <3>2
    <3>3. CASE i <= j
      <4>1. j \in 1..n /\ t[i].after <= t[j].after /\ j # 0 /\ (j + 1) - 1 = j /\ j + 1 # 0
        BY <1>1, <2>2, <3>3
      <4>2. After(t, j + 1) = After(t, j) + s[j + 1].delta /\ s[j + 1].delta \in Nat
        BY <1>1, <3>0, <4>1
      <4>3. t[j + 1].after = t[j].after + s[j + 1].delta
        BY <4>1, <4>2 DEF After
      <4>5. t[i].after \in Nat /\ t[j].after \in Nat
        BY <1>1, <4>1
      <4>4. t[i].after <= t[j + 1].after
        BY <4>1, <4>2, <4>3, <4>5
      <4> QED
        BY <3>0, <4>4
    <3>4. i \in Nat /\ j \in Nat
      BY <1>1
    <3> QED
      BY <3>1, <3>2, <3>3, <3>4
  <2>3. \A j \in 0..n : j \in S
    <3> HIDE DEF S
    <3> QED
      BY <1>1, <2>1, <2>2, Counting
  <2> QED
    BY <1>1, <2>3
<1> QED
  BY <1>2 DEF n, t

\* What the functions of call_out.c make of a slot, told by its timed list.

\* A call is taken out: the others keep their time, as its delta is not lost.
LEMMA TimedUnlinked ==
    ASSUME NEW s \in Seq(Entry), NEW p \in 1..Len(s)
    PROVE  /\ Unlinked(s, p) \in Seq(Entry)
           /\ Timed(Unlinked(s, p)) = RemoveAt(Timed(s), p)
<1> DEFINE n == Len(s)
           t == Timed(s)
           u == [j \in DOMAIN s |-> IF j = p + 1 THEN [s[j] EXCEPT !.delta = @ + s[p].delta]
                                    ELSE s[j]]
           r == RemoveAt(u, p)
           v == RemoveAt(t, p)
<1>1. /\ n \in Nat /\ DOMAIN s = 1..n /\ p \in 1..n
      /\ \A i \in 1..n : s[i] \in Entry /\ s[i].delta \in Nat
  <2>1. n \in Nat /\ DOMAIN s = 1..n /\ \A i \in 1..n : s[i] \in Entry
    OBVIOUS
  <2> QED
    BY <2>1 DEF Entry
<1>2. /\ t \in Seq(TimedCall) /\ Len(t) = n
      /\ \A i \in 1..n : /\ t[i].ob = s[i].ob /\ t[i].fun = s[i].fun
                         /\ After(t, i) = After(t, i - 1) + s[i].delta
                         /\ After(t, i - 1) \in Nat /\ After(t, i) \in Nat
  BY TimedIs
<1> HIDE DEF n, t
<1>3. \A i \in 1..n :
         /\ i # p + 1 => u[i] = s[i]
         /\ i = p + 1 => u[i] = [s[i] EXCEPT !.delta = s[i].delta + s[p].delta]
  BY <1>1
<1>4. \A i \in 1..n : /\ u[i] \in Entry /\ u[i].ob = s[i].ob /\ u[i].fun = s[i].fun
                      /\ u[i].delta = IF i = p + 1 THEN s[i].delta + s[p].delta ELSE s[i].delta
  <2> TAKE i \in 1..n
  <2>1. s[i] \in Entry /\ s[i].delta \in Nat /\ s[p].delta \in Nat
    BY <1>1
  <2>2. \A x \in Entry, d \in Nat :
           LET y == [x EXCEPT !.delta = d]
           IN y \in Entry /\ y.ob = x.ob /\ y.fun = x.fun /\ y.delta = d
    BY DEF Entry
  <2>3. s[i].delta + s[p].delta \in Nat
    BY <2>1
  <2>4. CASE i = p + 1
    <3> HIDE DEF u
    <3>1. u[i] = [s[i] EXCEPT !.delta = s[i].delta + s[p].delta]
      BY <1>3, <2>4
    <3> QED
      BY <2>1, <2>2, <2>3, <2>4, <3>1
  <2>5. CASE i # p + 1
    <3> HIDE DEF u
    <3>1. u[i] = s[i]
      BY <1>3, <2>5
    <3> QED
      BY <2>1, <2>5, <3>1
  <2> QED
    BY <2>4, <2>5
<1>5. u \in Seq(Entry) /\ Len(u) = n
  <2>1. u \in [1..n -> Entry]
    <3>1. DOMAIN u = 1..n /\ u = [i \in 1..n |-> u[i]]
      BY <1>1
    <3> HIDE DEF u
    <3> QED
      BY <1>4, <3>1
  <2> HIDE DEF u
  <2> QED
    BY <1>1, <2>1
<1> HIDE DEF u
<1>6. /\ r \in Seq(Entry) /\ Len(r) = n - 1
      /\ \A j \in 1..n - 1 : r[j] = IF j < p THEN u[j] ELSE u[j + 1]
  BY <1>1, <1>5, Removed
<1>7. /\ v \in Seq(TimedCall) /\ Len(v) = n - 1
      /\ \A j \in 1..n - 1 : v[j] = IF j < p THEN t[j] ELSE t[j + 1]
  BY <1>1, <1>2, Removed
<1> HIDE DEF r, v
<1>8. ASSUME NEW i \in 1..n - 1
      PROVE  v[i].ob = r[i].ob /\ v[i].fun = r[i].fun /\ After(v, i) = After(v, i - 1) + r[i].delta
  <2>0. i \in 1..n /\ i + 1 \in 1..n /\ i \in Nat /\ p \in Nat
    BY <1>1
  <2>1. CASE i < p
    <3>1. v[i] = t[i] /\ r[i] = u[i] /\ i # p + 1
      BY <1>6, <1>7, <2>1, <2>0
    <3>2. After(v, i) = After(t, i) /\ After(v, i - 1) = After(t, i - 1)
      <4>1. CASE i = 1
        BY <3>1, <4>1 DEF After
      <4>2. CASE i # 1
        <5>1. i - 1 \in 1..n - 1 /\ i - 1 < p
          BY <1>1, <2>0, <2>1, <4>2
        <5> QED
          BY <1>7, <3>1, <5>1 DEF After
      <4> QED
        BY <4>1, <4>2
    <3> QED
      BY <1>2, <1>4, <2>0, <3>1, <3>2
  <2>2. CASE i = p
    <3>1. v[i] = t[i + 1] /\ r[i] = u[i + 1]
      BY <1>6, <1>7, <2>2, <2>0
    <3>2. After(v, i) = After(t, i + 1) /\ After(v, i - 1) = After(t, i - 1)
      <4>1. CASE i = 1
        BY <3>1, <4>1 DEF After
      <4>2. CASE i # 1
        <5>1. i - 1 \in 1..n - 1 /\ i - 1 < p /\ i # 0 /\ i + 1 # 0
          BY <1>1, <2>0, <2>2, <4>2
        <5> QED
          BY <1>7, <3>1, <5>1 DEF After
      <4> QED
        BY <4>1, <4>2
    <3>3. /\ After(t, i + 1) = After(t, i) + s[i + 1].delta
          /\ After(t, i) = After(t, i - 1) + s[i].delta
          /\ (i + 1) - 1 = i /\ u[i + 1].delta = s[i + 1].delta + s[i].delta
      <4>1. (i + 1) - 1 = i
        BY <2>0
      <4> QED
        BY <1>2, <1>4, <2>0, <2>2, <4>1
    <3>4. /\ After(t, i - 1) \in Nat /\ s[i].delta \in Nat /\ s[i + 1].delta \in Nat
      BY <1>1, <1>2, <2>0
    <3>5. /\ v[i].ob = s[i + 1].ob /\ v[i].fun = s[i + 1].fun
          /\ r[i].ob = s[i + 1].ob /\ r[i].fun = s[i + 1].fun
      BY <1>2, <1>4, <2>0, <3>1
    <3>6. After(v, i) = After(v, i - 1) + r[i].delta
      BY <3>1, <3>2, <3>3, <3>4
    <3> QED
      BY <3>5, <3>6
  <2>3. CASE i > p
    <3>1. v[i] = t[i + 1] /\ r[i] = u[i + 1] /\ i + 1 # p + 1
      BY <1>6, <1>7, <2>3, <2>0
    <3>2. i - 1 \in 1..n - 1 /\ ~(i - 1 < p) /\ i # 0 /\ i + 1 # 0 /\ i - 1 # 0 /\ (i - 1) + 1 = i
          /\ (i + 1) - 1 = i
      BY <1>1, <2>0, <2>3
    <3>3. After(v, i) = After(t, i + 1) /\ After(v, i - 1) = After(t, i)
      BY <1>7, <3>1, <3>2 DEF After
    <3>4. After(t, i + 1) = After(t, i) + s[i + 1].delta
      BY <1>2, <2>0, <3>2
    <3>5. /\ v[i].ob = s[i + 1].ob /\ v[i].fun = s[i + 1].fun
          /\ r[i].ob = s[i + 1].ob /\ r[i].fun = s[i + 1].fun
          /\ r[i].delta = s[i + 1].delta
      BY <1>2, <1>4, <2>0, <3>1
    <3> QED
      BY <3>3, <3>4, <3>5
  <2> QED
    BY <2>0, <2>1, <2>2, <2>3
<1>9. Timed(r) = v
  BY <1>6, <1>7, <1>8, TimedBy
<1>10. Unlinked(s, p) = r
  BY DEF Unlinked, r, u
<1> QED
  BY <1>6, <1>9, <1>10 DEF v, t

\* The first call is made: it is due, so the others have nothing to wait for
\* in front of them.
LEMMA TimedTail ==
    ASSUME NEW s \in Seq(Entry), s # <<>>, s[1].delta = 0
    PROVE  Tail(s) \in Seq(Entry) /\ Timed(Tail(s)) = Tail(Timed(s))
<1> DEFINE n == Len(s)
           t == Timed(s)
           r == Tail(s)
           v == Tail(t)
<1>1. /\ n \in Nat /\ n >= 1 /\ r \in Seq(Entry) /\ Len(r) = n - 1
      /\ \A i \in 1..n - 1 : r[i] = s[i + 1]
  OBVIOUS
<1>2. /\ t \in Seq(TimedCall) /\ Len(t) = n
      /\ \A i \in 1..n : /\ t[i].ob = s[i].ob /\ t[i].fun = s[i].fun
                         /\ After(t, i) = After(t, i - 1) + s[i].delta
                         /\ After(t, i) \in Nat
  BY TimedIs
<1> HIDE DEF t
<1>3. v \in Seq(TimedCall) /\ Len(v) = n - 1 /\ \A i \in 1..n - 1 : v[i] = t[i + 1]
  BY <1>1, <1>2
<1> HIDE DEF n, r, v
<1>4. After(t, 1) = 0
  <2>1. 1 \in 1..n /\ 1 - 1 = 0
    BY <1>1
  <2>2. After(t, 1) = After(t, 0) + s[1].delta
    BY <1>2, <2>1
  <2>3. After(t, 0) = 0
    BY DEF After
  <2> QED
    BY <2>2, <2>3
<1>5. ASSUME NEW i \in 1..n - 1
      PROVE  v[i].ob = r[i].ob /\ v[i].fun = r[i].fun /\ After(v, i) = After(v, i - 1) + r[i].delta
  <2>1. i + 1 \in 1..n /\ (i + 1) - 1 = i /\ i # 0 /\ i + 1 # 0
    BY <1>1
  <2>2. v[i].ob = r[i].ob /\ v[i].fun = r[i].fun
    BY <1>1, <1>2, <1>3, <2>1
  <2>3. After(v, i) = After(t, i + 1)
    BY <1>3, <2>1 DEF After
  <2>4. After(v, i - 1) = After(t, i)
    <3>1. CASE i = 1
      BY <1>4, <3>1 DEF After
    <3>2. CASE i # 1
      <4>1. i - 1 \in 1..n - 1 /\ i - 1 # 0 /\ (i - 1) + 1 = i
        BY <1>1, <3>2
      <4> QED
        BY <1>3, <2>1, <4>1 DEF After
    <3> QED
      BY <3>1, <3>2
  <2>5. After(t, i + 1) = After(t, i) + s[i + 1].delta
    BY <1>2, <2>1
  <2> QED
    BY <1>1, <2>2, <2>3, <2>4, <2>5
<1>6. Timed(r) = v
  BY <1>1, <1>3, <1>5, TimedBy
<1> QED
  BY <1>1, <1>6 DEF r, v, t

\* A second passes, and no call is due.
LEMMA TimedAged ==
    ASSUME NEW s \in Seq(Entry), s # <<>> => s[1].delta # 0
    PROVE  /\ Aged(s) \in Seq(Entry) /\ Len(Aged(s)) = Len(s)
           /\ \A i \in 1..Len(s) : /\ Timed(Aged(s))[i].ob = Timed(s)[i].ob
                                   /\ Timed(Aged(s))[i].fun = Timed(s)[i].fun
                                   /\ Timed(Aged(s))[i].after = Timed(s)[i].after - 1
<1>1. CASE s = <<>>
  <2>1. Len(s) = 0 /\ Aged(s) = s /\ 1..0 = {}
    BY <1>1 DEF Aged
  <2> QED
    BY <2>1
<1>2. CASE s # <<>>
  <2> DEFINE n == Len(s)
             r == [s EXCEPT ![1].delta = s[1].delta - 1]
             f == [i \in 0..n |-> IF i = 0 THEN 0 ELSE Sums(s)[i] - 1]
  <2>1. /\ n \in Nat /\ n >= 1 /\ 1 \in 1..n /\ \A i \in 1..n : s[i] \in Entry
    BY <1>2
  <2>2. s[1].delta - 1 \in Nat /\ [s[1] EXCEPT !.delta = s[1].delta - 1] \in Entry
    <3>1. s[1] \in Entry /\ s[1].delta \in Nat /\ s[1].delta # 0
      BY <1>2, <2>1 DEF Entry
    <3>2. s[1].delta - 1 \in Nat
      BY <3>1
    <3> QED
      BY <3>1, <3>2 DEF Entry
  <2>3. r = [s EXCEPT ![1] = [s[1] EXCEPT !.delta = s[1].delta - 1]]
    BY <2>1
  <2>4. /\ r \in Seq(Entry) /\ Len(r) = n
        /\ r[1] = [s[1] EXCEPT !.delta = s[1].delta - 1]
        /\ \A i \in 2..n : r[i] = s[i]
    <3> DEFINE e == [s[1] EXCEPT !.delta = s[1].delta - 1]
    <3>1. e \in Entry /\ r = [s EXCEPT ![1] = e]
      BY <2>2, <2>3
    <3> HIDE DEF e, r
    <3> QED
      BY <2>1, <3>1 DEF e
  <2>5. /\ r[1].ob = s[1].ob /\ r[1].fun = s[1].fun /\ r[1].delta = s[1].delta - 1
    <3>1. s[1] \in Entry
      BY <2>1
    <3> HIDE DEF r
    <3> QED
      BY <2>2, <2>4, <3>1 DEF Entry
  <2>6. Aged(s) = r
    BY <1>2 DEF Aged
  <2> HIDE DEF r
  <2>7. /\ Sums(s)[0] = 0 /\ \A i \in 1..n : Sums(s)[i] = Sums(s)[i - 1] + s[i].delta
        /\ \A i \in 0..n : Sums(s)[i] \in Nat
    BY SumsAre
  <2>8. /\ f[0] = 0 /\ \A i \in 1..n : f[i] = Sums(s)[i] - 1
    <3>1. 0 \in 0..n /\ \A i \in 1..n : i \in 0..n /\ i # 0
      BY <2>1
    <3> QED
      BY <3>1
  <2> HIDE DEF f, n
  <2>9. ASSUME NEW i \in 1..n PROVE f[i] = f[i - 1] + r[i].delta
    <3>1. CASE i = 1
      <4>1. Sums(s)[1] = 0 + s[1].delta /\ s[1].delta \in Nat /\ 1 - 1 = 0
        BY <2>1, <2>7 DEF Entry
      <4>2. f[1] = Sums(s)[1] - 1
        BY <2>1, <2>8
      <4> QED
        BY <2>5, <2>8, <3>1, <4>1, <4>2
    <3>2. CASE i # 1
      <4>1. i \in 2..n /\ i - 1 \in 1..n
        BY <2>1, <3>2
      <4>2. r[i] = s[i] /\ f[i] = Sums(s)[i] - 1 /\ f[i - 1] = Sums(s)[i - 1] - 1
        BY <2>4, <2>8, <4>1
      <4>3. Sums(s)[i] = Sums(s)[i - 1] + s[i].delta /\ Sums(s)[i - 1] \in Nat /\ s[i].delta \in Nat
        <5>1. i - 1 \in 0..n /\ s[i] \in Entry
          BY <2>1, <4>1
        <5> QED
          BY <2>7, <5>1 DEF Entry
      <4> QED
        BY <4>2, <4>3
    <3> QED
      BY <3>1, <3>2
  <2>10. \A i \in 0..n : f[i] = Sums(r)[i]
    <3>1. Len(r) = n
      BY <2>4
    <3> QED
      BY <2>4, <2>8, <2>9, <3>1, SumsUnique
  <2>11. ASSUME NEW i \in 1..n
         PROVE  /\ Timed(r)[i].ob = Timed(s)[i].ob /\ Timed(r)[i].fun = Timed(s)[i].fun
                /\ Timed(r)[i].after = Timed(s)[i].after - 1
    <3>1. r[i].ob = s[i].ob /\ r[i].fun = s[i].fun
      <4>1. i = 1 \/ i \in 2..n
        BY <2>1
      <4> QED
        BY <2>4, <2>5, <4>1
    <3>2. /\ Timed(r)[i].ob = r[i].ob /\ Timed(r)[i].fun = r[i].fun /\ Timed(r)[i].after = Sums(r)[i]
      BY <2>4, TimedIs
    <3>3. /\ Timed(s)[i].ob = s[i].ob /\ Timed(s)[i].fun = s[i].fun /\ Timed(s)[i].after = Sums(s)[i]
      BY TimedIs DEF n
    <3>4. Sums(r)[i] = Sums(s)[i] - 1
      <4>1. i \in 0..n
        BY <2>1
      <4> QED
        BY <2>8, <2>10, <4>1
    <3> QED
      BY <3>1, <3>2, <3>3, <3>4
  <2> QED
    BY <2>4, <2>6, <2>11 DEF n
<1> QED
  BY <1>1, <1>2

\* A call is put in: it comes behind those that are due as early or earlier,
\* and the others keep their time, as the next delta is less by its own.
LEMMA TimedInserted ==
    ASSUME NEW s \in Seq(Entry), NEW c \in [ob : Objs, fun : Funs], NEW cycles \in Nat
    PROVE  LET r == Inserted(s, c, cycles)
               e == [ob |-> c.ob, fun |-> c.fun, after |-> cycles]
           IN  /\ r \in Seq(Entry)
               /\ \E p \in 1..Len(s) + 1 :
                     /\ Timed(r) = InsertAt(Timed(s), p, e)
                     /\ \A i \in 1..p - 1 : Timed(s)[i].after <= cycles
                     /\ \A i \in p..Len(s) : Timed(s)[i].after > cycles
<1> DEFINE n == Len(s)
           t == Timed(s)
           e == [ob |-> c.ob, fun |-> c.fun, after |-> cycles]
           Left(i) == cycles - Cycles(s, i - 1)
           P == {i \in 1..(n + 1) : i <= n => s[i].delta > Left(i)}
           p == Min(P)
           u == [j \in DOMAIN s |-> IF j = p THEN [s[j] EXCEPT !.delta = @ - Left(p)]
                                    ELSE s[j]]
           new == [ob |-> c.ob, fun |-> c.fun, delta |-> Left(p)]
           r == InsertAt(u, p, new)
           v == InsertAt(t, p, e)
<1>1. /\ n \in Nat /\ DOMAIN s = 1..n
      /\ \A i \in 1..n : s[i] \in Entry /\ s[i].delta \in Nat
  <2>1. n \in Nat /\ DOMAIN s = 1..n /\ \A i \in 1..n : s[i] \in Entry
    OBVIOUS
  <2> QED
    BY <2>1 DEF Entry
<1>2. /\ t \in Seq(TimedCall) /\ Len(t) = n
      /\ \A i \in 1..n : /\ t[i].ob = s[i].ob /\ t[i].fun = s[i].fun
                         /\ After(t, i) = After(t, i - 1) + s[i].delta
                         /\ After(t, i - 1) \in Nat /\ After(t, i) \in Nat
                         /\ t[i].after = After(t, i)
      /\ \A i \in 0..n : Cycles(s, i) = After(t, i)
  <2>1. \A i \in 1..n : i # 0
    BY <1>1
  <2> QED
    BY <2>1, TimedIs DEF After
<1>0. \A i, j \in 1..n : i <= j => t[i].after <= t[j].after
  BY TimedRises
<1>3. Inserted(s, c, cycles) = r
  BY DEF Inserted
<1> HIDE DEF t, n
<1>4. \A i \in 1..(n + 1) : Left(i) = cycles - After(t, i - 1) /\ After(t, i - 1) \in Nat
  <2> TAKE i \in 1..(n + 1)
  <2>1. i - 1 \in 0..n
    BY <1>1
  <2>2. Cycles(s, i - 1) = After(t, i - 1)
    BY <1>2, <2>1
  <2>3. After(t, i - 1) \in Nat
    <3>1. CASE i = 1
      BY <3>1 DEF After
    <3>2. CASE i # 1
      <4>1. i - 1 \in 1..n
        BY <1>1, <3>2
      <4> QED
        BY <1>2, <4>1
    <3> QED
      BY <3>1, <3>2
  <2> QED
    BY <2>2, <2>3
<1> HIDE DEF Left
<1>5. p \in P /\ \A y \in P : p <= y
  <2>1. n + 1 \in P
    BY <1>1
  <2>2. P \in SUBSET Nat /\ P # {}
    BY <2>1
  <2> HIDE DEF P
  <2> QED
    BY <2>2, LeastPlace
<1> HIDE DEF p
<1>6. p \in 1..(n + 1) /\ (p <= n => s[p].delta > Left(p))
  BY <1>5
<1>7. Left(p) \in Nat
  <2>1. CASE p = 1
    <3>1. Left(1) = cycles - After(t, 0) /\ After(t, 0) = 0
      BY <1>1, <1>4 DEF After
    <3> QED
      BY <2>1, <3>1
  <2>2. CASE p # 1
    <3>1. p - 1 \in 1..(n + 1) /\ p - 1 \in 1..n /\ p - 1 \notin P
      <4>1. p - 1 \in 1..(n + 1) /\ p - 1 \in 1..n /\ ~(p <= p - 1)
        BY <1>1, <1>6, <2>2
      <4> QED
        BY <1>5, <4>1
    <3>2. ~(s[p - 1].delta > Left(p - 1))
      BY <3>1
    <3>3. Left(p - 1) = cycles - After(t, p - 2) /\ Left(p) = cycles - After(t, p - 1)
      <4>1. (p - 1) - 1 = p - 2
        BY <1>6
      <4> QED
        BY <1>4, <1>6, <3>1, <4>1
    <3>4. /\ After(t, p - 1) = After(t, p - 2) + s[p - 1].delta
          /\ After(t, p - 2) \in Nat /\ s[p - 1].delta \in Nat
      <4>1. (p - 1) - 1 = p - 2
        BY <1>6
      <4> QED
        BY <1>1, <1>2, <3>1, <4>1
    <3> QED
      BY <3>2, <3>3, <3>4
  <2> QED
    BY <2>1, <2>2
<1> HIDE DEF P
<1>8. \A j \in 1..n : /\ j # p => u[j] = s[j]
                      /\ j = p => u[j] = [s[j] EXCEPT !.delta = s[j].delta - Left(p)]
  BY <1>1
<1>9. DOMAIN u = 1..n /\ u = [j \in 1..n |-> u[j]]
  BY <1>1
<1> HIDE DEF u
<1>10. \A j \in 1..n : /\ u[j] \in Entry /\ u[j].ob = s[j].ob /\ u[j].fun = s[j].fun
                       /\ u[j].delta = IF j = p THEN s[j].delta - Left(p) ELSE s[j].delta
  <2> TAKE j \in 1..n
  <2>1. \A x \in Entry, d \in Nat :
           LET y == [x EXCEPT !.delta = d]
           IN y \in Entry /\ y.ob = x.ob /\ y.fun = x.fun /\ y.delta = d
    BY DEF Entry
  <2>2. CASE j = p
    <3>1. s[j].delta > Left(p) /\ s[j].delta \in Nat /\ s[j] \in Entry
      BY <1>1, <1>6, <2>2
    <3>2. s[j].delta - Left(p) \in Nat
      BY <1>7, <3>1
    <3>3. u[j] = [s[j] EXCEPT !.delta = s[j].delta - Left(p)]
      BY <1>8, <2>2
    <3> QED
      BY <2>1, <2>2, <3>1, <3>2, <3>3
  <2>3. CASE j # p
    BY <1>1, <1>8, <2>3
  <2> QED
    BY <2>2, <2>3
<1>11. u \in Seq(Entry) /\ Len(u) = n
  <2>1. u \in [1..n -> Entry]
    BY <1>9, <1>10
  <2> QED
    BY <1>1, <2>1
<1>12. /\ new \in Entry /\ e \in TimedCall
       /\ new.ob = e.ob /\ new.fun = e.fun /\ new.delta = Left(p) /\ e.after = cycles
  BY <1>7 DEF Entry, TimedCall
<1> HIDE DEF new, e
<1>13. /\ r \in Seq(Entry) /\ Len(r) = n + 1
       /\ \A j \in 1 .. p - 1 : r[j] = u[j]
       /\ r[p] = new
       /\ \A j \in p + 1 .. n + 1 : r[j] = u[j - 1]
  <2>1. p \in 1..Len(u) + 1
    BY <1>1, <1>6, <1>11
  <2> QED
    <3>1. u \in Seq(Entry) /\ new \in Entry /\ Len(u) = n
      BY <1>11, <1>12
    <3>2. r \in Seq(Entry) /\ HasInserted(r, u, p, new)
      BY <2>1, <3>1, InsertedAt
    <3> HIDE DEF r
    <3> QED
      BY <3>1, <3>2 DEF HasInserted
<1>14. /\ v \in Seq(TimedCall) /\ Len(v) = n + 1
       /\ \A j \in 1 .. p - 1 : v[j] = t[j]
       /\ v[p] = e
       /\ \A j \in p + 1 .. n + 1 : v[j] = t[j - 1]
  <2>1. p \in 1..Len(t) + 1
    BY <1>1, <1>2, <1>6
  <2> QED
    <3>1. t \in Seq(TimedCall) /\ e \in TimedCall /\ Len(t) = n
      BY <1>2, <1>12
    <3>2. v \in Seq(TimedCall) /\ HasInserted(v, t, p, e)
      BY <2>1, <3>1, InsertedAt
    <3> HIDE DEF v
    <3> QED
      BY <3>1, <3>2 DEF HasInserted
<1> HIDE DEF r, v
<1>15. ASSUME NEW i \in 1..n + 1
       PROVE  v[i].ob = r[i].ob /\ v[i].fun = r[i].fun /\ After(v, i) = After(v, i - 1) + r[i].delta
  <2>0. i \in Nat /\ p \in Nat /\ i # 0 /\ p # 0
    BY <1>1, <1>6
  <2>1. ASSUME i <= p PROVE After(v, i - 1) = After(t, i - 1)
    <3>1. CASE i = 1
      BY <3>1 DEF After
    <3>2. CASE i # 1
      <4>1. i - 1 \in 1..p - 1
        BY <2>0, <2>1, <3>2
      <4> QED
        BY <1>14, <4>1 DEF After
    <3> QED
      BY <3>1, <3>2
  <2>2. CASE i < p
    <3>1. i \in 1..p - 1 /\ i \in 1..n /\ i # p
      BY <1>1, <1>6, <2>0, <2>2
    <3>2. v[i] = t[i] /\ r[i] = u[i]
      BY <1>13, <1>14, <3>1
    <3>3. After(v, i) = After(t, i) /\ After(v, i - 1) = After(t, i - 1)
      BY <2>0, <2>1, <2>2, <3>2 DEF After
    <3> QED
      BY <1>2, <1>10, <3>1, <3>2, <3>3
  <2>3. CASE i = p
    <3>1. v[i] = e /\ r[i] = new
      BY <1>13, <1>14, <2>3
    <3>2. After(v, i) = cycles
      BY <1>12, <2>0, <3>1 DEF After
    <3>3. After(v, i - 1) = After(t, i - 1) /\ Left(p) = cycles - After(t, i - 1)
          /\ After(t, i - 1) \in Nat
      BY <1>4, <1>6, <2>0, <2>1, <2>3
    <3> QED
      BY <1>12, <3>1, <3>2, <3>3
  <2>4. CASE i = p + 1
    <3>1. /\ v[i] = t[p] /\ r[i] = u[p] /\ p \in 1..n /\ i - 1 = p /\ v[p] = e
      <4>1. i \in p + 1 .. n + 1 /\ i - 1 = p /\ p \in 1..n
        BY <1>1, <1>6, <2>0, <2>4
      <4> QED
        BY <1>13, <1>14, <4>1
    <3>2. After(v, i) = After(t, p) /\ After(v, i - 1) = cycles
      BY <1>12, <2>0, <3>1 DEF After
    <3>3. /\ r[i].delta = s[p].delta - Left(p) /\ Left(p) = cycles - After(t, p - 1)
          /\ After(t, p) = After(t, p - 1) + s[p].delta
          /\ After(t, p - 1) \in Nat /\ s[p].delta \in Nat
      BY <1>1, <1>2, <1>4, <1>6, <1>10, <3>1
    <3>4. After(v, i) = After(v, i - 1) + r[i].delta
      BY <3>2, <3>3
    <3>5. v[i].ob = s[p].ob /\ v[i].fun = s[p].fun
      BY <1>2, <3>1
    <3>6. r[i].ob = s[p].ob /\ r[i].fun = s[p].fun
      BY <1>10, <3>1
    <3> QED
      BY <3>4, <3>5, <3>6
  <2>5. CASE i > p + 1
    <3>1. /\ i \in p + 1 .. n + 1 /\ i - 1 \in p + 1 .. n + 1 /\ i - 1 \in 1..n /\ i - 1 # p
          /\ i - 1 # 0 /\ (i - 1) - 1 # 0
      BY <1>1, <1>6, <2>0, <2>5
    <3>2. v[i] = t[i - 1] /\ r[i] = u[i - 1] /\ v[i - 1] = t[(i - 1) - 1]
      BY <1>13, <1>14, <3>1
    <3>3. After(v, i) = After(t, i - 1) /\ After(v, i - 1) = After(t, (i - 1) - 1)
      BY <2>0, <3>1, <3>2 DEF After
    <3>4. /\ After(t, i - 1) = After(t, (i - 1) - 1) + s[i - 1].delta
          /\ r[i].delta = s[i - 1].delta
      BY <1>2, <1>10, <3>1, <3>2
    <3>5. v[i].ob = r[i].ob /\ v[i].fun = r[i].fun
      BY <1>2, <1>10, <3>1, <3>2
    <3> QED
      BY <3>3, <3>4, <3>5
  <2> QED
    BY <2>0, <2>2, <2>3, <2>4, <2>5
<1>16. Timed(r) = v
  BY <1>13, <1>14, <1>15, TimedBy
<1>17. ASSUME NEW i \in 1..p - 1 PROVE t[i].after <= cycles
  <2>1. i \in 1..n /\ p - 1 \in 1..n /\ i <= p - 1
    BY <1>1, <1>6
  <2>2. t[i].after <= t[p - 1].after /\ t[p - 1].after = After(t, p - 1) /\ t[i].after = After(t, i)
    BY <1>0, <1>2, <2>1
  <2>3. Left(p) = cycles - After(t, p - 1) /\ After(t, p - 1) \in Nat /\ After(t, i) \in Nat
    BY <1>2, <1>4, <1>6, <2>1
  <2> QED
    BY <1>7, <2>2, <2>3
<1>18. ASSUME NEW i \in p..n PROVE t[i].after > cycles
  <2>1. i \in 1..n /\ p \in 1..n /\ p <= i
    BY <1>1, <1>6
  <2>2. t[p].after <= t[i].after /\ t[p].after = After(t, p) /\ t[i].after = After(t, i)
    BY <1>0, <1>2, <2>1
  <2>3. /\ Left(p) = cycles - After(t, p - 1) /\ s[p].delta > Left(p)
        /\ After(t, p) = After(t, p - 1) + s[p].delta
        /\ After(t, p - 1) \in Nat /\ s[p].delta \in Nat /\ After(t, i) \in Nat
    BY <1>1, <1>2, <1>4, <1>6, <2>1
  <2> QED
    BY <2>2, <2>3
<1> QED
  BY <1>3, <1>6, <1>13, <1>16, <1>17, <1>18 DEF v, e, t, n

\* The walk of remove_all_call_out(), here from the last entry to the first:
\* those before i are not looked at yet.
Looked(s, o, i, x) ==
    /\ x \in Seq(Entry)
    /\ Timed(x) = At(Timed(s), {j \in 1..Len(s) : j < i \/ s[j].ob \in alive \ {o}})

LEMMA LookedNext ==
    ASSUME NEW s \in Seq(Entry), NEW o, NEW i \in 1..Len(s), NEW x, Looked(s, o, i + 1, x)
    PROVE  /\ i \in 1..Len(x)
           /\ Looked(s, o, i, IF s[i].ob \notin alive \ {o} THEN Unlinked(x, i) ELSE x)
<1> DEFINE n == Len(s)
           K == {j \in 1..n : j < i + 1 \/ s[j].ob \in alive \ {o}}
           L == {j \in 1..n : j < i \/ s[j].ob \in alive \ {o}}
           t == Timed(s)
<1>1. n \in Nat /\ K \in SUBSET (1..n) /\ i \in K /\ i \in 1..n
  OBVIOUS
<1>2. x \in Seq(Entry) /\ Timed(x) = At(t, K)
  BY DEF Looked
<1>3. {k \in K : k <= i} = 1..i
  BY <1>1
<1>4. L = IF s[i].ob \notin alive \ {o} THEN K \ {i} ELSE K
  <2>1. \A j \in 1..n : (j < i + 1) <=> (j < i \/ j = i)
    BY <1>1
  <2> QED
    BY <1>1, <2>1
<1> HIDE DEF K, t
<1>5. Rank(K, i) = i
  <2>1. Cardinality(1..i) = i
    <3>1. 1 \in Int /\ i \in Int /\ (IF 1 > i THEN 0 ELSE i - 1 + 1) = i
      BY <1>1
    <3> QED
      BY <3>1, FS_Interval
  <2> QED
    BY <1>3, <2>1 DEF Rank
<1>6. i \in 1..Len(x)
  <2>1. Rank(K, i) \in 1..Cardinality(K) /\ Len(At(t, K)) = Cardinality(K)
    BY <1>1, AtValues
  <2>2. Len(Timed(x)) = Len(x)
    BY <1>2, TimedIs
  <2> QED
    BY <1>2, <1>5, <2>1, <2>2
<1> DEFINE y == IF s[i].ob \notin alive \ {o} THEN Unlinked(x, i) ELSE x
<1>7. y \in Seq(Entry) /\ Timed(y) = At(t, L)
  <2>1. CASE s[i].ob \notin alive \ {o}
    <3>1. Unlinked(x, i) \in Seq(Entry) /\ Timed(Unlinked(x, i)) = RemoveAt(Timed(x), i)
      BY <1>2, <1>6, TimedUnlinked
    <3>2. RemoveAt(At(t, K), Rank(K, i)) = At(t, K \ {i})
      BY <1>1, AtRemove
    <3>3. y = Unlinked(x, i) /\ L = K \ {i}
      BY <1>4, <2>1
    <3> QED
      BY <1>2, <1>5, <3>1, <3>2, <3>3
  <2>2. CASE s[i].ob \in alive \ {o}
    <3>1. y = x /\ L = K
      BY <1>4, <2>2
    <3> QED
      BY <1>2, <3>1
  <2> QED
    BY <2>1, <2>2
<1> QED
  BY <1>6, <1>7 DEF Looked, t

\* All calls of o and of destructed objects are taken out; the others keep
\* their time and their order.
LEMMA TimedCleared ==
    ASSUME NEW s \in Seq(Entry), NEW o
    PROVE  /\ Cleared(s, o) \in Seq(Entry)
           /\ Timed(Cleared(s, o)) = At(Timed(s), {j \in 1..Len(s) : s[j].ob \in alive \ {o}})
<1> DEFINE n == Len(s)
           V == Seq(Entry)
           Gone(i) == s[i].ob \notin alive \ {o}
           F == [k \in 1..n |-> [x \in V |->
                   IF Gone(n + 1 - k) /\ n + 1 - k \in 1..Len(x) THEN Unlinked(x, n + 1 - k)
                   ELSE x]]
<1>1. n \in Nat /\ s \in V
  OBVIOUS
<1>2. Looked(s, o, n + 1, s)
  <2>1. {j \in 1..n : j < n + 1 \/ s[j].ob \in alive \ {o}} = 1..n
    BY <1>1
  <2>2. Timed(s) \in Seq(TimedCall) /\ Len(Timed(s)) = n
    BY TimedIs
  <2>3. At(Timed(s), 1..n) = Timed(s)
    BY <2>2, AtAll
  <2> QED
    BY <2>1, <2>3 DEF Looked
<1> HIDE DEF n
<1>3. /\ F \in [1..n -> [V -> V]]
      /\ \A k \in 1..n : \A x \in V :
            F[k][x] = IF Gone(n + 1 - k) /\ n + 1 - k \in 1..Len(x) THEN Unlinked(x, n + 1 - k)
                      ELSE x
  <2>1. ASSUME NEW k \in 1..n, NEW x \in V
        PROVE  (IF Gone(n + 1 - k) /\ n + 1 - k \in 1..Len(x) THEN Unlinked(x, n + 1 - k)
                ELSE x) \in V
    BY TimedUnlinked
  <2> QED
    BY <2>1
<1> HIDE DEF F
<1>4. PICK f \in [0..n -> V] : StepByStep(f, n, s, F)
  BY <1>1, <1>3, Defined
<1>5. f[0] = s /\ \A k \in 1..n : f[k] = F[k][f[k - 1]]
  BY <1>1, <1>4 DEF StepByStep
<1>6. \A k \in 1..n : /\ f[k] = IF Gone(n + 1 - k) THEN Unlinked(f[k - 1], n + 1 - k) ELSE f[k - 1]
                      /\ Looked(s, o, n + 1 - k, f[k])
  <2> DEFINE S == {k \in 0..n : Looked(s, o, n + 1 - k, f[k])}
  <2>1. 0 \in S
    <3>1. n + 1 - 0 = n + 1
      BY <1>1
    <3> QED
      BY <1>1, <1>2, <1>5, <3>1
  <2>2. ASSUME NEW k \in 0..(n - 1), k \in S
        PROVE  /\ k + 1 \in S
               /\ f[k + 1] = IF Gone(n - k) THEN Unlinked(f[k], n - k) ELSE f[k]
    <3>1. /\ k + 1 \in 1..n /\ (k + 1) - 1 = k /\ n + 1 - (k + 1) = n - k /\ k + 1 \in 0..n
          /\ n - k \in 1..n /\ (n - k) + 1 = n + 1 - k /\ k \in 0..n
      BY <1>1
    <3>2. Looked(s, o, (n - k) + 1, f[k]) /\ f[k] \in V
      BY <2>2, <3>1
    <3>3. /\ n - k \in 1..Len(f[k])
          /\ Looked(s, o, n - k, IF Gone(n - k) THEN Unlinked(f[k], n - k) ELSE f[k])
      BY <3>1, <3>2, LookedNext DEF n
    <3>4. f[k + 1] = F[k + 1][f[k]]
      BY <1>5, <3>1
    <3>5. F[k + 1][f[k]] = IF Gone(n - k) /\ n - k \in 1..Len(f[k]) THEN Unlinked(f[k], n - k)
                           ELSE f[k]
      BY <1>3, <3>1, <3>2
    <3>6. f[k + 1] = IF Gone(n - k) THEN Unlinked(f[k], n - k) ELSE f[k]
      BY <3>3, <3>4, <3>5
    <3> HIDE DEF Gone
    <3> QED
      BY <3>1, <3>3, <3>6
  <2>3. \A k \in 0..n : k \in S
    <3> HIDE DEF S
    <3> QED
      BY <1>1, <2>1, <2>2, Counting
  <2> HIDE DEF Gone
  <2>4. ASSUME NEW k \in 1..n
        PROVE  /\ f[k] = IF Gone(n + 1 - k) THEN Unlinked(f[k - 1], n + 1 - k) ELSE f[k - 1]
               /\ Looked(s, o, n + 1 - k, f[k])
    <3>1. k - 1 \in 0..(n - 1) /\ (k - 1) + 1 = k /\ n - (k - 1) = n + 1 - k /\ k - 1 \in 0..n
          /\ k \in 0..n
      BY <1>1
    <3>2. k - 1 \in S /\ k \in S
      BY <2>3, <3>1
    <3>3. f[(k - 1) + 1] = IF Gone(n - (k - 1)) THEN Unlinked(f[k - 1], n - (k - 1)) ELSE f[k - 1]
      BY <2>2, <3>1, <3>2
    <3> QED
      BY <3>1, <3>2, <3>3
  <2> QED
    BY <2>4
<1> DEFINE Is(rest) == rest = [i \in 1..(n + 1) |->
                                 IF i = n + 1 THEN s
                                 ELSE IF Gone(i) THEN Unlinked(rest[i + 1], i)
                                 ELSE rest[i + 1]]
<1>7. \E rest : Is(rest)
  <2> DEFINE g == [i \in 1..(n + 1) |-> f[n + 1 - i]]
  <2>1. g = [i \in 1..(n + 1) |-> IF i = n + 1 THEN s
                                  ELSE IF Gone(i) THEN Unlinked(g[i + 1], i)
                                  ELSE g[i + 1]]
    <3>1. ASSUME NEW i \in 1..(n + 1)
          PROVE  f[n + 1 - i] = IF i = n + 1 THEN s
                                ELSE IF Gone(i) THEN Unlinked(g[i + 1], i)
                                ELSE g[i + 1]
      <4>1. CASE i = n + 1
        <5>1. n + 1 - i = 0
          BY <1>1, <4>1
        <5> QED
          BY <1>5, <4>1, <5>1
      <4>2. CASE i # n + 1
        <5>1. /\ n + 1 - i \in 1..n /\ n + 1 - (n + 1 - i) = i /\ i + 1 \in 1..(n + 1)
              /\ (n + 1 - i) - 1 = n + 1 - (i + 1)
          BY <1>1, <4>2
        <5>2. g[i + 1] = f[(n + 1 - i) - 1]
          BY <5>1
        <5> HIDE DEF g, Gone
        <5> QED
          BY <1>6, <4>2, <5>1, <5>2
      <4> QED
        BY <4>1, <4>2
    <3> QED
      BY <3>1
  <2> HIDE DEF g
  <2> QED
    BY <2>1
<1> DEFINE rest == CHOOSE rest : Is(rest)
<1>8. Is(rest)
  <2> HIDE DEF Is
  <2> QED
    BY <1>7
<1>9. Cleared(s, o) = rest[1]
  BY DEF Cleared, n
<1> HIDE DEF rest
<1>10. /\ rest[n + 1] = s
       /\ \A i \in 1..n : rest[i] = IF Gone(i) THEN Unlinked(rest[i + 1], i) ELSE rest[i + 1]
  <2> HIDE DEF Gone
  <2>1. n + 1 \in 1..(n + 1) /\ \A i \in 1..n : i \in 1..(n + 1) /\ i # n + 1
    BY <1>1
  <2> QED
    BY <1>8, <2>1
<1> HIDE DEF Is
<1> DEFINE S == {i \in 0..n : Looked(s, o, i + 1, rest[i + 1])}
<1>11. n \in S
  BY <1>1, <1>2, <1>10
<1>12. ASSUME NEW i \in 0..(n - 1), i + 1 \in S PROVE i \in S
  <2>1. i + 1 \in 1..n /\ i \in 0..n
    BY <1>1
  <2>2. Looked(s, o, (i + 1) + 1, rest[(i + 1) + 1])
    BY <1>12
  <2>3. Looked(s, o, i + 1, IF Gone(i + 1) THEN Unlinked(rest[(i + 1) + 1], i + 1)
                            ELSE rest[(i + 1) + 1])
    BY <2>1, <2>2, LookedNext DEF n
  <2>4. rest[i + 1] = IF Gone(i + 1) THEN Unlinked(rest[(i + 1) + 1], i + 1)
                      ELSE rest[(i + 1) + 1]
    BY <1>10, <2>1
  <2> HIDE DEF Gone
  <2> QED
    BY <2>1, <2>3, <2>4
<1>13. 0 \in S
  <2> HIDE DEF S
  <2>1. \A i \in 0..n : i \in S
    BY <1>1, <1>11, <1>12, CountingDown
  <2> QED
    BY <1>1, <2>1
<1>14. Looked(s, o, 1, rest[1])
  <2>1. 0 + 1 = 1
    OBVIOUS
  <2> QED
    BY <1>13, <2>1
<1>15. {j \in 1..n : j < 1 \/ s[j].ob \in alive \ {o}} = {j \in 1..n : s[j].ob \in alive \ {o}}
  BY <1>1
<1> QED
  BY <1>9, <1>14, <1>15 DEF Looked, n

-----------------------------------------------------------------------------
(* The calls of a slot that are due in a cycle.                            *)

CallOf(e) == [ob |-> e.ob, fun |-> e.fun]
Calls(t) == [i \in DOMAIN t |-> CallOf(t[i])]
InCycle(t, q) == {i \in DOMAIN t : t[i].after = q}
DueIn(t, q) == At(Calls(t), InCycle(t, q))

AnyCall == [ob : Objs, fun : Funs]

LEMMA CallsIs ==
    ASSUME NEW t \in Seq(TimedCall)
    PROVE  /\ Len(t) \in Nat /\ DOMAIN t = 1..Len(t)
           /\ Calls(t) \in Seq(AnyCall) /\ Len(Calls(t)) = Len(t)
           /\ \A i \in 1..Len(t) : /\ Calls(t)[i] = CallOf(t[i]) /\ t[i] \in TimedCall
                                   /\ t[i].after \in Nat
<1>1. Len(t) \in Nat /\ DOMAIN t = 1..Len(t) /\ \A i \in 1..Len(t) : t[i] \in TimedCall
  OBVIOUS
<1>2. \A i \in 1..Len(t) : CallOf(t[i]) \in AnyCall /\ t[i].after \in Nat
  BY <1>1 DEF TimedCall, AnyCall, CallOf
<1>3. Calls(t) \in [1..Len(t) -> AnyCall]
  BY <1>1, <1>2 DEF Calls
<1>4. Calls(t) \in Seq(AnyCall) /\ Len(Calls(t)) = Len(t)
  BY <1>1, <1>3
<1>5. \A i \in 1..Len(t) : Calls(t)[i] = CallOf(t[i])
  BY <1>1 DEF Calls
<1> QED
  BY <1>1, <1>2, <1>4, <1>5

\* What Agenda looks up.
LEMMA SlotDue ==
    ASSUME NEW s \in Seq(Entry), NEW q \in Nat
    PROVE  SubSeq(Asked(s), Before(s, q) + 1, Before(s, q + 1)) = DueIn(Timed(s), q)
<1> DEFINE n == Len(s)
           t == Timed(s)
           P(x) == {i \in DOMAIN s : Cycles(s, i) < x}
<1>1. /\ n \in Nat /\ DOMAIN s = 1..n
      /\ t \in Seq(TimedCall) /\ Len(t) = n
      /\ \A i \in 1..n : t[i].ob = s[i].ob /\ t[i].fun = s[i].fun
      /\ \A i \in 0..n : Cycles(s, i) = After(t, i)
  BY TimedIs
<1>2. \A i, j \in 1..n : i <= j => t[i].after <= t[j].after
  BY TimedRises
<1> HIDE DEF t, n
<1>3. DOMAIN t = 1..n /\ \A i \in 1..n : t[i] \in TimedCall /\ t[i].after \in Nat
  BY <1>1, CallsIs
<1>4. Asked(s) = Calls(t)
  <2>1. \A i \in 1..n : [ob |-> s[i].ob, fun |-> s[i].fun] = CallOf(t[i])
    BY <1>1 DEF CallOf
  <2> QED
    BY <1>1, <1>3, <2>1 DEF Asked, Calls
<1>5. ASSUME NEW x \in Nat
      PROVE  /\ P(x) = {i \in 1..n : t[i].after < x}
             /\ Before(s, x) = Cardinality(P(x)) /\ Before(s, x) \in 0..n
             /\ P(x) = 1..Before(s, x)
  <2>1. P(x) = {i \in 1..n : t[i].after < x}
    <3>1. \A i \in 1..n : Cycles(s, i) = t[i].after
      <4>1. \A i \in 1..n : i \in 0..n /\ i # 0
        BY <1>1
      <4> QED
        BY <1>1, <4>1 DEF After
    <3> QED
      BY <1>1, <3>1
  <2>2. Before(s, x) = Cardinality(P(x))
    BY DEF Before
  <2> HIDE DEF P
  <2>3. \A i \in P(x) : \A j \in 1..i : j \in P(x)
    <3> SUFFICES ASSUME NEW i \in P(x), NEW j \in 1..i PROVE j \in P(x)
      OBVIOUS
    <3>1. i \in 1..n /\ t[i].after < x /\ j \in 1..n /\ j <= i
      BY <1>1, <2>1
    <3>2. t[j].after <= t[i].after /\ t[j].after \in Nat /\ t[i].after \in Nat
      BY <1>2, <1>3, <3>1
    <3>3. t[j].after < x
      BY <3>1, <3>2
    <3> QED
      BY <2>1, <3>1, <3>3
  <2>4. P(x) \in SUBSET (1..n)
    BY <2>1
  <2>5. Cardinality(P(x)) \in 0..n /\ P(x) = 1..Cardinality(P(x))
    BY <1>1, <2>3, <2>4, Prefix
  <2> QED
    BY <2>1, <2>2, <2>5
<1> DEFINE a == Before(s, q)
           b == Before(s, q + 1)
<1>6. q + 1 \in Nat
  OBVIOUS
<1>7. /\ a \in 0..n /\ b \in 0..n
      /\ \A i \in 1..n : (i \in 1..a <=> t[i].after < q) /\ (i \in 1..b <=> t[i].after < q + 1)
  <2>1. a \in 0..n /\ P(q) = 1..a /\ P(q) = {i \in 1..n : t[i].after < q}
    BY <1>5
  <2>2. b \in 0..n /\ P(q + 1) = 1..b /\ P(q + 1) = {i \in 1..n : t[i].after < q + 1}
    BY <1>5, <1>6
  <2> HIDE DEF P, a, b
  <2> QED
    BY <2>1, <2>2
<1> HIDE DEF a, b, P
<1>8. a <= b
  <2>1. CASE a = 0
    BY <1>1, <1>7, <2>1
  <2>2. CASE a # 0
    <3>1. a \in 1..n /\ a \in 1..a
      BY <1>1, <1>7, <2>2
    <3>2. t[a].after < q /\ t[a].after \in Nat
      BY <1>3, <1>7, <3>1
    <3>3. t[a].after < q + 1
      BY <3>2
    <3>4. a \in 1..b
      BY <1>7, <3>1, <3>3
    <3> QED
      BY <1>1, <1>7, <3>4
  <2> QED
    BY <2>1, <2>2
<1>9. InCycle(t, q) = (a + 1)..b
  <2>1. ASSUME NEW i \in 1..n PROVE t[i].after = q <=> i \in (a + 1)..b
    <3>1. t[i].after \in Nat
      BY <1>3
    <3>2. t[i].after = q <=> (t[i].after < q + 1 /\ ~(t[i].after < q))
      BY <3>1
    <3>3. (i \in 1..b /\ i \notin 1..a) <=> i \in (a + 1)..b
      BY <1>1, <1>7
    <3> QED
      BY <1>7, <3>2, <3>3
  <2>2. \A i \in (a + 1)..b : i \in 1..n
    BY <1>1, <1>7
  <2> QED
    BY <1>3, <2>1, <2>2 DEF InCycle
<1>10. At(Calls(t), (a + 1)..b) = SubSeq(Calls(t), a + 1, b)
  <2>1. n \in Nat /\ a + 1 \in 1..(n + 1) /\ b \in 0..n /\ a + 1 <= b + 1
    BY <1>1, <1>7, <1>8
  <2> QED
    BY <2>1, AtInterval
<1> QED
  BY <1>4, <1>9, <1>10 DEF DueIn, a, b, t

\* What is due of a part of a list.
LEMMA DueAt ==
    ASSUME NEW t \in Seq(TimedCall), NEW K \in SUBSET (1..Len(t)), NEW q
    PROVE  /\ At(t, K) \in Seq(TimedCall)
           /\ DueIn(At(t, K), q) = At(Calls(t), {i \in K : t[i].after = q})
<1> DEFINE n == Len(t)
           c == Cardinality(K)
           u == At(t, K)
           L == InCycle(u, q)
<1>1. n \in Nat /\ \A i \in 1..n : Calls(t)[i] = CallOf(t[i]) /\ t[i] \in TimedCall
  BY CallsIs
<1>2. PICK g : Rises(g, K)
  BY <1>1, AtRises
<1>3. /\ g \in [1..c -> K] /\ u = [j \in 1..c |-> t[g[j]]]
      /\ At(Calls(t), K) = [j \in 1..c |-> Calls(t)[g[j]]]
      /\ \A i \in K : g[Rank(K, i)] = i
  BY <1>2 DEF Rises
<1>4. c \in Nat /\ \A i \in K : Rank(K, i) \in 1..c
  BY <1>1, AtRises
<1>5. u \in Seq(TimedCall)
  BY <1>1, AtValues
<1> HIDE DEF u, c
<1>6. Calls(u) = At(Calls(t), K)
  <2>1. DOMAIN u = 1..c /\ \A j \in 1..c : u[j] = t[g[j]]
    BY <1>3
  <2>2. \A j \in 1..c : CallOf(u[j]) = Calls(t)[g[j]]
    BY <1>1, <1>3, <2>1
  <2>3. Calls(u) = [j \in 1..c |-> CallOf(u[j])]
    BY <2>1 DEF Calls
  <2> QED
    BY <1>3, <2>2, <2>3
<1>7. L = {j \in 1..c : t[g[j]].after = q}
  BY <1>3 DEF InCycle
<1>8. Within(K, L) = {i \in K : t[i].after = q}
  BY <1>3, <1>4, <1>7 DEF Within
<1>9. L \in SUBSET (1..Cardinality(K))
  BY <1>7 DEF c
<1> HIDE DEF L
<1>10. At(At(Calls(t), K), L) = At(Calls(t), Within(K, L))
  <2>1. n \in Nat /\ K \in SUBSET (1..n) /\ L \in SUBSET (1..Cardinality(K))
    BY <1>1, <1>9
  <2> HIDE DEF n
  <2> QED
    BY ONLY <2>1, AtAt
<1> QED
  BY <1>5, <1>6, <1>8, <1>10 DEF DueIn, L, u

LEMMA DueRemoved ==
    ASSUME NEW t \in Seq(TimedCall), NEW p \in 1..Len(t), NEW q
    PROVE  DueIn(RemoveAt(t, p), q) =
              IF t[p].after = q THEN RemoveAt(DueIn(t, q), Rank(InCycle(t, q), p))
              ELSE DueIn(t, q)
<1> DEFINE n == Len(t)
           K == (1..n) \ {p}
           C == InCycle(t, q)
<1>1. n \in Nat /\ DOMAIN t = 1..n /\ p \in 1..n /\ C = {i \in 1..n : t[i].after = q}
  BY CallsIs DEF InCycle
<1>2. RemoveAt(t, p) = At(t, K)
  BY AtWithout
<1>3. DueIn(At(t, K), q) = At(Calls(t), {i \in K : t[i].after = q})
  BY DueAt
<1> HIDE DEF n, C
<1>4. {i \in K : t[i].after = q} = C \ {p}
  BY <1>1
<1>5. CASE t[p].after = q
  <2>1. p \in C /\ C \in SUBSET (1..n)
    BY <1>1, <1>5
  <2>2. RemoveAt(At(Calls(t), C), Rank(C, p)) = At(Calls(t), C \ {p})
    BY <1>1, <2>1, AtRemove
  <2> QED
    BY <1>2, <1>3, <1>4, <1>5, <2>2 DEF DueIn, C
<1>6. CASE t[p].after # q
  <2>1. C \ {p} = C
    BY <1>1, <1>6
  <2> QED
    BY <1>2, <1>3, <1>4, <1>6, <2>1 DEF DueIn, C
<1> QED
  BY <1>5, <1>6

LEMMA DueInserted ==
    ASSUME NEW t \in Seq(TimedCall), NEW p \in 1..Len(t) + 1, NEW e \in TimedCall, NEW q \in Nat,
           \A i \in 1..p - 1 : t[i].after <= e.after,
           \A i \in p..Len(t) : t[i].after > e.after
    PROVE  DueIn(InsertAt(t, p, e), q) =
              IF e.after = q THEN Append(DueIn(t, q), CallOf(e)) ELSE DueIn(t, q)
<1> DEFINE n == Len(t)
           u == InsertAt(t, p, e)
           K == (1..n + 1) \ {p}
           C == InCycle(u, q)
<1>1. n \in Nat /\ n + 1 \in Nat /\ p \in 1..n + 1
  OBVIOUS
<1>2. /\ u \in Seq(TimedCall) /\ Len(u) = n + 1
      /\ \A j \in 1 .. p - 1 : u[j] = t[j]
      /\ u[p] = e
      /\ \A j \in p + 1 .. n + 1 : u[j] = t[j - 1]
  <2>1. u \in Seq(TimedCall) /\ HasInserted(u, t, p, e)
    BY InsertedAt
  <2> HIDE DEF u
  <2> QED
    BY <2>1 DEF HasInserted
<1> HIDE DEF u
<1>3. RemoveAt(u, p) = t
  <2>1. p \in 1..Len(u)
    BY <1>1, <1>2
  <2>3. Len(u) = n + 1 /\ Len(u) - 1 = n
    BY <1>1, <1>2
  <2>2. /\ RemoveAt(u, p) \in Seq(TimedCall) /\ Len(RemoveAt(u, p)) = Len(u) - 1
        /\ \A j \in 1 .. Len(u) - 1 : RemoveAt(u, p)[j] = IF j < p THEN u[j] ELSE u[j + 1]
    BY <1>2, <2>1, Removed
  <2>4. ASSUME NEW j \in 1..n PROVE RemoveAt(u, p)[j] = t[j]
    <3>1. CASE j < p
      <4>1. j \in 1..p - 1
        BY <1>1, <3>1
      <4> QED
        BY <1>2, <2>2, <2>3, <3>1, <4>1
    <3>2. CASE ~(j < p)
      <4>1. j + 1 \in p + 1 .. n + 1 /\ (j + 1) - 1 = j
        BY <1>1, <3>2
      <4>2. u[j + 1] = t[j]
        BY <1>2, <4>1
      <4> QED
        BY <2>2, <2>3, <3>2, <4>2
    <3> QED
      BY <3>1, <3>2
  <2> QED
    BY <2>2, <2>3, <2>4
<1>4. DueIn(t, q) = At(Calls(u), {i \in K : u[i].after = q})
  <2>1. p \in 1..Len(u) /\ K = (1..Len(u)) \ {p} /\ K \in SUBSET (1..Len(u))
    BY <1>1, <1>2
  <2>2. t = At(u, K)
    BY <1>2, <1>3, <2>1, AtWithout
  <2> QED
    BY <1>2, <2>1, <2>2, DueAt
<1>5. C = {i \in 1..n + 1 : u[i].after = q} /\ DueIn(u, q) = At(Calls(u), C)
  BY <1>1, <1>2 DEF InCycle, DueIn
<1> HIDE DEF n, C
<1>6. CASE e.after # q
  <2>1. {i \in K : u[i].after = q} = C
    BY <1>1, <1>2, <1>5, <1>6
  <2> QED
    BY <1>4, <1>5, <1>6, <2>1 DEF u
<1>7. CASE e.after = q
  <2> DEFINE D == {i \in K : u[i].after = q}
  <2>1. C = D \cup {p}
    BY <1>1, <1>2, <1>5, <1>7
  <2>2. ASSUME NEW i \in D PROVE i < p
    <3>1. i \in 1..n + 1 /\ i # p /\ u[i].after = q
      OBVIOUS
    <3>2. ASSUME ~(i < p) PROVE FALSE
      <4>1. i \in p + 1 .. n + 1 /\ i - 1 \in p..n
        BY <1>1, <3>1, <3>2
      <4>2. t[i - 1].after > e.after /\ u[i] = t[i - 1]
        BY <1>2, <4>1 DEF n
      <4>3. q > q
        BY <1>7, <3>1, <4>2
      <4> QED
        BY <4>3
    <3> QED
      BY <3>2
  <2>3. D \in SUBSET (1..n + 1)
    OBVIOUS
  <2> HIDE DEF D, K
  <2>4. At(Calls(u), D \cup {p}) = Append(At(Calls(u), D), Calls(u)[p])
    BY <1>1, <2>2, <2>3, AtLast
  <2>5. Calls(u)[p] = CallOf(e)
    BY <1>1, <1>2, CallsIs
  <2> QED
    BY <1>4, <1>5, <1>7, <2>1, <2>4, <2>5 DEF D, u
<1> QED
  BY <1>6, <1>7

LEMMA DueTail ==
    ASSUME NEW t \in Seq(TimedCall), t # <<>>, t[1].after = 0, NEW q
    PROVE  /\ DueIn(t, 0) # <<>>
           /\ DueIn(Tail(t), q) = IF q = 0 THEN Tail(DueIn(t, q)) ELSE DueIn(t, q)
<1> DEFINE n == Len(t)
           C == InCycle(t, 0)
           x == DueIn(t, 0)
<1>1. /\ n \in Nat /\ 1 \in 1..n /\ C = {i \in 1..n : t[i].after = 0}
  BY CallsIs DEF InCycle
<1>2. Tail(t) = RemoveAt(t, 1)
  <2>1. SubSeq(t, 1, 1 - 1) = <<>> /\ SubSeq(t, 1 + 1, Len(t)) = Tail(t)
    BY <1>1
  <2>2. Tail(t) \in Seq(TimedCall)
    OBVIOUS
  <2> QED
    BY <2>1, <2>2 DEF RemoveAt
<1>3. Rank(C, 1) = 1
  <2>1. {k \in C : k <= 1} = {1}
    BY <1>1
  <2>2. Cardinality({1}) = 1
    BY FS_Singleton
  <2> QED
    BY <2>1, <2>2 DEF Rank
<1>4. x \in Seq(AnyCall) /\ x # <<>>
  <2>1. C \in SUBSET (1..n) /\ 1 \in C /\ \A i \in C : Calls(t)[i] \in AnyCall
    <3>1. Calls(t) \in Seq(AnyCall) /\ Len(Calls(t)) = n
      BY CallsIs
    <3> HIDE DEF n
    <3>2. \A i \in 1..n : Calls(t)[i] \in AnyCall
      BY <3>1
    <3> QED
      BY <1>1, <3>2
  <2> HIDE DEF C, n
  <2>2. At(Calls(t), C) \in Seq(AnyCall) /\ Len(At(Calls(t), C)) = Cardinality(C)
        /\ Rank(C, 1) \in 1..Cardinality(C)
    BY <1>1, <2>1, AtValues
  <2> QED
    BY <1>1, <2>2 DEF DueIn, C
<1>5. RemoveAt(x, 1) = Tail(x)
  <2> HIDE DEF x
  <2>1. SubSeq(x, 1, 1 - 1) = <<>> /\ SubSeq(x, 1 + 1, Len(x)) = Tail(x)
    BY <1>4
  <2>2. Tail(x) \in Seq(AnyCall)
    BY <1>4
  <2> QED
    BY <2>1, <2>2 DEF RemoveAt
<1>6. DueIn(RemoveAt(t, 1), q) =
         IF t[1].after = q THEN RemoveAt(DueIn(t, q), Rank(InCycle(t, q), 1)) ELSE DueIn(t, q)
  BY <1>1, DueRemoved
<1> QED
  BY <1>2, <1>3, <1>4, <1>5, <1>6

LEMMA DueKept ==
    ASSUME NEW t \in Seq(TimedCall), NEW A, NEW q
    PROVE  DueIn(At(t, {i \in 1..Len(t) : t[i].ob \in A}), q)
              = At(DueIn(t, q), {j \in DOMAIN DueIn(t, q) : DueIn(t, q)[j].ob \in A})
<1> DEFINE n == Len(t)
           K == {i \in 1..n : t[i].ob \in A}
           C == InCycle(t, q)
           x == DueIn(t, q)
           L == {j \in DOMAIN x : x[j].ob \in A}
<1>1. /\ n \in Nat /\ C = {i \in 1..n : t[i].after = q}
      /\ \A i \in 1..n : Calls(t)[i] = CallOf(t[i])
  BY CallsIs DEF InCycle
<1>2. DueIn(At(t, K), q) = At(Calls(t), {i \in K : t[i].after = q})
  BY DueAt
<1>3. {i \in K : t[i].after = q} = {i \in C : t[i].ob \in A}
  BY <1>1
<1>4. /\ DOMAIN x = 1..Cardinality(C)
      /\ \A i \in C : Rank(C, i) \in 1..Cardinality(C) /\ x[Rank(C, i)] = CallOf(t[i])
  <2>1. C \in SUBSET (1..n) /\ x = At(Calls(t), C)
    BY <1>1 DEF DueIn
  <2>2. /\ DOMAIN At(Calls(t), C) = 1..Cardinality(C)
        /\ \A i \in C : Rank(C, i) \in 1..Cardinality(C) /\ At(Calls(t), C)[Rank(C, i)] = Calls(t)[i]
    <3>1. n \in Nat /\ C \in SUBSET (1..n)
      BY <1>1, <2>1
    <3> DEFINE y == Calls(t)
    <3> HIDE DEF C, n, y
    <3>2. DOMAIN At(y, C) = 1..Cardinality(C)
      BY <3>1, AtValues
    <3>3. ASSUME NEW i \in C
          PROVE  Rank(C, i) \in 1..Cardinality(C) /\ At(y, C)[Rank(C, i)] = y[i]
      BY <3>1, AtPlace
    <3> QED
      BY <3>2, <3>3 DEF y
  <2> HIDE DEF x, C, n
  <2> QED
    BY <1>1, <2>1, <2>2
<1>5. Within(C, L) = {i \in C : t[i].ob \in A}
  <2>1. \A i \in C : CallOf(t[i]).ob = t[i].ob
    BY DEF CallOf
  <2> HIDE DEF x, C
  <2> QED
    BY <1>4, <2>1 DEF Within
<1>6. At(At(Calls(t), C), L) = At(Calls(t), Within(C, L))
  <2>1. n \in Nat /\ C \in SUBSET (1..n) /\ L \in SUBSET (1..Cardinality(C))
    BY <1>1, <1>4
  <2> HIDE DEF C, L, n
  <2> QED
    BY ONLY <2>1, AtAt
<1>7. x = At(Calls(t), C)
  BY DEF DueIn
<1> QED
  BY <1>2, <1>3, <1>5, <1>6, <1>7

-----------------------------------------------------------------------------
(* Slots and cycles of the time that is left.                              *)

LEMMA Division ==
    ASSUME NEW a \in Nat
    PROVE  /\ a % CycleSize \in Slots /\ a \div CycleSize \in Nat
           /\ a = CycleSize * (a \div CycleSize) + (a % CycleSize)
BY BackendAssumption DEF Slots

LEMMA CyclesRise ==
    ASSUME NEW a \in Nat, NEW b \in Nat, a < b
    PROVE  CycleSize * a + CycleSize <= CycleSize * b
<1>1. b = a + 1 + (b - a - 1) /\ b - a - 1 \in Nat
  OBVIOUS
<1>2. \A k \in Nat : /\ CycleSize * (a + 1 + k) = CycleSize * a + CycleSize + CycleSize * k
                     /\ CycleSize * k >= 0
  BY BackendAssumption
<1>3. CycleSize * a \in Nat
  BY BackendAssumption
<1> QED
  BY <1>1, <1>2, <1>3, BackendAssumption

LEMMA OneDivision ==
    ASSUME NEW q \in Nat, NEW r \in Slots, NEW p \in Nat, NEW s \in Slots,
           CycleSize * q + r = CycleSize * p + s
    PROVE  q = p /\ r = s
<1>1. \A k \in Nat : CycleSize * k \in Nat
  BY BackendAssumption
<1>2. ASSUME q < p PROVE FALSE
  <2>1. CycleSize * q + CycleSize <= CycleSize * p
    BY <1>2, CyclesRise
  <2> QED
    BY <1>1, <2>1, BackendAssumption DEF Slots
<1>3. ASSUME p < q PROVE FALSE
  <2>1. CycleSize * p + CycleSize <= CycleSize * q
    BY <1>3, CyclesRise
  <2> QED
    BY <1>1, <2>1, BackendAssumption DEF Slots
<1> QED
  BY <1>1, <1>2, <1>3, BackendAssumption DEF Slots

\* time_left() for the clock at k.
Wait(k, t, q) == IF t >= k THEN (t - k) + q * CycleSize ELSE (t - k) + (q + 1) * CycleSize

\* A slot and the cycles in it stand for one delay, and new_call_out() puts a
\* call where time_left() will find its delay.
LEMMA WaitIs ==
    ASSUME NEW k \in Slots, NEW t \in Slots, NEW q \in Nat, NEW d \in Nat
    PROVE  /\ Wait(k, t, q) \in Nat
           /\ ((k + d) % CycleSize = t /\ d \div CycleSize = q) <=> d = Wait(k, t, q)
<1> DEFINE r == IF t >= k THEN t - k ELSE t - k + CycleSize
           c == d % CycleSize
           m == CycleSize * q
<1>1. k \in Nat /\ t \in Nat /\ k < CycleSize /\ t < CycleSize /\ CycleSize \in Nat
  BY BackendAssumption DEF Slots
<1>2. r \in Slots
  BY <1>1 DEF Slots
<1>3. m \in Nat /\ q * CycleSize = m /\ (q + 1) * CycleSize = m + CycleSize
      /\ CycleSize * (q + 1) = m + CycleSize
  BY <1>1
<1>4. Wait(k, t, q) = m + r
  BY <1>1, <1>3 DEF Wait
<1>5. c \in Slots /\ d \div CycleSize \in Nat /\ d = CycleSize * (d \div CycleSize) + c
  BY Division
<1>6. /\ (k + d) % CycleSize \in Slots /\ (k + d) \div CycleSize \in Nat
      /\ k + d = CycleSize * ((k + d) \div CycleSize) + ((k + d) % CycleSize)
  <2>1. k + d \in Nat
    BY <1>1
  <2> QED
    BY <2>1, Division
<1> HIDE DEF c, m
<1>7. ASSUME (k + d) % CycleSize = t, d \div CycleSize = q PROVE d = m + r
  <2>1. d = m + c
    BY <1>5, <1>7 DEF m
  <2>2. CASE k + c < CycleSize
    <3>1. k + c \in Slots /\ k + d = CycleSize * q + (k + c)
      BY <1>1, <1>3, <1>5, <2>1, <2>2 DEF Slots, m
    <3>2. k + c = t
      BY <1>6, <1>7, <3>1, OneDivision
    <3> QED
      BY <1>1, <1>3, <1>5, <2>1, <3>2 DEF Slots
  <2>3. CASE ~(k + c < CycleSize)
    <3>1. k + c - CycleSize \in Slots /\ k + d = CycleSize * (q + 1) + (k + c - CycleSize)
          /\ q + 1 \in Nat
      BY <1>1, <1>3, <1>5, <2>1, <2>3 DEF Slots
    <3>2. k + c - CycleSize = t
      BY <1>6, <1>7, <3>1, OneDivision
    <3> QED
      BY <1>1, <1>3, <1>5, <2>1, <3>2 DEF Slots
  <2> QED
    BY <2>2, <2>3
<1>8. ASSUME d = m + r PROVE (k + d) % CycleSize = t /\ d \div CycleSize = q
  <2>1. CycleSize * (d \div CycleSize) + c = CycleSize * q + r
    BY <1>5, <1>8 DEF m
  <2>2. d \div CycleSize = q
    BY <1>2, <1>5, <2>1, OneDivision
  <2>3. CASE t >= k
    <3>1. k + d = CycleSize * q + t
      BY <1>1, <1>3, <1>8, <2>3 DEF m
    <3> QED
      BY <1>6, <2>2, <3>1, OneDivision
  <2>4. CASE ~(t >= k)
    <3>1. k + d = CycleSize * (q + 1) + t /\ q + 1 \in Nat
      BY <1>1, <1>3, <1>8, <2>4
    <3> QED
      BY <1>6, <2>2, <3>1, OneDivision
  <2> QED
    BY <2>3, <2>4
<1>9. m + r \in Nat
  BY <1>2, <1>3 DEF Slots
<1> QED
  BY <1>4, <1>7, <1>8, <1>9

-----------------------------------------------------------------------------
(* The wheel and the agenda.                                               *)

\* No call has longer to wait than can be asked for: that is what keeps the
\* agenda, which ends there, complete when the clock goes on.
Near(k, t, u) == \A i \in 1..Len(u) : Wait(k, t, u[i].after) <= MaxDelay

WheelInv ==
    /\ list \in [Slots -> Seq(Entry)] /\ clock \in Slots /\ alive \subseteq Objs
    /\ \A t \in Slots : Near(clock, t, Timed(list[t]))

AgendaOf(l, k) ==
    [d \in 0..MaxDelay |-> DueIn(Timed(l[(k + d) % CycleSize]), d \div CycleSize)]

LEMMA Delays ==
    ASSUME NEW d \in 0..MaxDelay, NEW k \in Slots
    PROVE  /\ d \in Nat /\ (k + d) % CycleSize \in Slots /\ d \div CycleSize \in Nat
           /\ d = Wait(k, (k + d) % CycleSize, d \div CycleSize)
<1>1. d \in Nat /\ k + d \in Nat
  BY BackendAssumption DEF Slots
<1>2. (k + d) % CycleSize \in Slots /\ d \div CycleSize \in Nat
  BY <1>1, Division
<1> QED
  BY <1>1, <1>2, WaitIs

LEMMA AgendaLooks ==
    ASSUME NEW l \in [Slots -> Seq(Entry)], NEW k \in Slots
    PROVE  [d \in 0..MaxDelay |->
               LET s == l[(k + d) % CycleSize]
                   q == d \div CycleSize
               IN SubSeq(Asked(s), Before(s, q) + 1, Before(s, q + 1))] = AgendaOf(l, k)
<1>1. ASSUME NEW d \in 0..MaxDelay
      PROVE  LET s == l[(k + d) % CycleSize]
                 q == d \div CycleSize
             IN SubSeq(Asked(s), Before(s, q) + 1, Before(s, q + 1)) = DueIn(Timed(s), q)
  <2>1. l[(k + d) % CycleSize] \in Seq(Entry) /\ d \div CycleSize \in Nat
    BY Delays
  <2> QED
    BY <2>1, SlotDue
<1> QED
  BY <1>1 DEF AgendaOf

LEMMA AgendaIs == WheelInv => Agenda = AgendaOf(list, clock)
BY AgendaLooks DEF WheelInv, Agenda

LEMMA AgendaNext == WheelInv' => Agenda' = AgendaOf(list', clock')
BY AgendaLooks DEF WheelInv, Agenda

\* One slot changes, and in it what is due in cycle q, which is x now.
OneSlot(l, m, t, q, x) ==
    /\ m = [l EXCEPT ![t] = m[t]]
    /\ DueIn(Timed(m[t]), q) = x
    /\ \A y \in Nat : y # q => DueIn(Timed(m[t]), y) = DueIn(Timed(l[t]), y)

OneTime(A, B, e, x) == B = [A EXCEPT ![e] = x]

LEMMA OneChanges ==
    ASSUME NEW l \in [Slots -> Seq(Entry)], NEW k \in Slots, NEW e \in 0..MaxDelay,
           NEW m, NEW x, OneSlot(l, m, (k + e) % CycleSize, e \div CycleSize, x)
    PROVE  OneTime(AgendaOf(l, k), AgendaOf(m, k), e, x)
<1> DEFINE t == (k + e) % CycleSize
           s == m[t]
           A == AgendaOf(l, k)
<1>0. /\ m = [l EXCEPT ![t] = m[t]] /\ DueIn(Timed(s), e \div CycleSize) = x
      /\ \A q \in Nat : q # e \div CycleSize => DueIn(Timed(s), q) = DueIn(Timed(l[t]), q)
  BY DEF OneSlot
<1>1. t \in Slots /\ e = Wait(k, t, e \div CycleSize)
  BY Delays
<1> HIDE DEF s, t
<1>2. DOMAIN A = 0..MaxDelay
  BY DEF AgendaOf
<1>6. m[t] = s /\ \A u \in Slots \ {t} : m[u] = l[u]
  BY <1>0, <1>1 DEF s
<1>3. ASSUME NEW d \in 0..MaxDelay
      PROVE  DueIn(Timed(m[(k + d) % CycleSize]), d \div CycleSize) = IF d = e THEN x ELSE A[d]
  <2>1. /\ (k + d) % CycleSize \in Slots /\ d \div CycleSize \in Nat
        /\ d = Wait(k, (k + d) % CycleSize, d \div CycleSize)
    BY Delays
  <2>2. A[d] = DueIn(Timed(l[(k + d) % CycleSize]), d \div CycleSize)
    BY DEF AgendaOf
  <2> HIDE DEF s, A
  <2>3. CASE (k + d) % CycleSize # t
    <3>1. m[(k + d) % CycleSize] = l[(k + d) % CycleSize]
      BY <1>6, <2>1, <2>3
    <3>2. d # e
      BY <2>3 DEF t
    <3> QED
      BY <2>2, <3>1, <3>2
  <2>4. CASE (k + d) % CycleSize = t
    <3>1. m[(k + d) % CycleSize] = s
      BY <1>6, <2>4
    <3>2. CASE d \div CycleSize = e \div CycleSize
      <4>1. d = e
        BY <1>1, <2>1, <2>4, <3>2
      <4> QED
        BY <1>0, <3>1, <4>1
    <3>3. CASE d \div CycleSize # e \div CycleSize
      <4>1. d # e
        BY <3>3
      <4> QED
        BY <1>0, <2>1, <2>2, <2>4, <3>1, <3>3, <4>1
    <3> QED
      BY <3>2, <3>3
  <2> QED
    BY <2>3, <2>4
<1>4. AgendaOf(m, k) = [d \in 0..MaxDelay |-> IF d = e THEN x ELSE A[d]]
  BY <1>3 DEF AgendaOf
<1>5. [A EXCEPT ![e] = x] = [d \in 0..MaxDelay |-> IF d = e THEN x ELSE A[d]]
  <2> HIDE DEF A
  <2> QED
    BY <1>2
<1> QED
  BY <1>4, <1>5 DEF OneTime

LEMMA NearRemoved ==
    ASSUME NEW u \in Seq(TimedCall), NEW p \in 1..Len(u), NEW k, NEW t, Near(k, t, u)
    PROVE  Near(k, t, RemoveAt(u, p))
<1>1. /\ Len(RemoveAt(u, p)) = Len(u) - 1 /\ Len(u) \in Nat
      /\ \A j \in 1..Len(u) - 1 : RemoveAt(u, p)[j] = IF j < p THEN u[j] ELSE u[j + 1]
  BY Removed
<1>2. \A j \in 1..Len(u) - 1 : j \in 1..Len(u) /\ j + 1 \in 1..Len(u)
  BY <1>1
<1> QED
  BY <1>1, <1>2 DEF Near

LEMMA NearKept ==
    ASSUME NEW u \in Seq(TimedCall), NEW K \in SUBSET (1..Len(u)), NEW k, NEW t, Near(k, t, u)
    PROVE  Near(k, t, At(u, K))
<1> DEFINE n == Len(u)
<1>1. n \in Nat /\ K \in SUBSET (1..n)
  OBVIOUS
<1> HIDE DEF n
<1>2. ASSUME NEW j \in 1..Len(At(u, K)) PROVE \E i \in K : At(u, K)[j] = u[i]
  BY ONLY <1>1, AtFrom
<1> QED
  BY <1>1, <1>2 DEF Near, n

TimerStep == Timing!Next \/ UNCHANGED Timing!vars

\* A call is asked for.
LEMMA WheelCallOut ==
    ASSUME WheelInv, NEW o \in Objs, NEW f \in Funs, NEW d \in 0..MaxDelay, CallOut(o, f, d)
    PROVE  WheelInv' /\ TimerStep
<1> DEFINE t == (clock + d) % CycleSize
           q == d \div CycleSize
           c == [ob |-> o, fun |-> f]
           e == [ob |-> o, fun |-> f, after |-> q]
           s == Inserted(list[t], c, q)
           u == Timed(list[t])
<1>1. /\ list \in [Slots -> Seq(Entry)] /\ clock \in Slots /\ alive \subseteq Objs
      /\ \A x \in Slots : Near(clock, x, Timed(list[x]))
  BY DEF WheelInv
<1>2. t \in Slots /\ q \in Nat /\ d = Wait(clock, t, q) /\ d \in Nat
  BY <1>1, Delays
<1>3. list' = [list EXCEPT ![t] = s] /\ UNCHANGED <<clock, alive>> /\ o \in alive
  <2>1. d + clock = clock + d
    BY <1>1, <1>2 DEF Slots
  <2> QED
    BY <1>1, <2>1 DEF CallOut
<1>4. c \in AnyCall /\ e \in TimedCall /\ CallOf(e) = c /\ e.after = q
  BY <1>2 DEF AnyCall, TimedCall, CallOf
<1>5. /\ u \in Seq(TimedCall) /\ Len(u) \in Nat /\ list[t] \in Seq(Entry) /\ Len(u) = Len(list[t])
  BY <1>1, <1>2, TimedIs, CallsIs
<1> HIDE DEF t, q
<1>6. s \in Seq(Entry) /\ \E p \in 1..Len(u) + 1 :
         /\ Timed(s) = InsertAt(u, p, e)
         /\ \A i \in 1..p - 1 : u[i].after <= q
         /\ \A i \in p..Len(u) : u[i].after > q
  <2>1. c.ob = o /\ c.fun = f /\ c \in [ob : Objs, fun : Funs]
    BY <1>4 DEF AnyCall
  <2> HIDE DEF c
  <2> QED
    BY <1>2, <1>5, <2>1, TimedInserted
<1> HIDE DEF c, e, s, u
<1>7. PICK p \in 1..Len(u) + 1 :
         /\ Timed(s) = InsertAt(u, p, e)
         /\ \A i \in 1..p - 1 : u[i].after <= q
         /\ \A i \in p..Len(u) : u[i].after > q
  BY <1>6
<1>8. Near(clock, t, Timed(s))
  <2>1. HasInserted(Timed(s), u, p, e)
    BY <1>4, <1>5, <1>7, InsertedAt
  <2>2. Near(clock, t, u)
    BY <1>1, <1>2 DEF u
  <2>3. ASSUME NEW i \in 1..Len(Timed(s)) PROVE Wait(clock, t, Timed(s)[i].after) <= MaxDelay
    <3>1. i \in 1..Len(u) + 1
      BY <2>1 DEF HasInserted
    <3>2. CASE i < p
      <4>1. i \in 1..p - 1 /\ i \in 1..Len(u)
        BY <1>5, <3>1, <3>2
      <4> QED
        BY <2>1, <2>2, <4>1 DEF HasInserted, Near
    <3>3. CASE i = p
      <4>1. d <= MaxDelay
        BY BackendAssumption
      <4> QED
        BY <1>2, <1>4, <2>1, <3>3, <4>1 DEF HasInserted
    <3>4. CASE i > p
      <4>1. i \in p + 1 .. Len(u) + 1 /\ i - 1 \in 1..Len(u)
        BY <1>5, <3>1, <3>4
      <4> QED
        BY <2>1, <2>2, <4>1 DEF HasInserted, Near
    <3> QED
      BY <1>5, <3>1, <3>2, <3>3, <3>4
  <2> QED
    BY <2>3 DEF Near
<1>9. WheelInv'
  <2>1. list' \in [Slots -> Seq(Entry)]
    BY <1>1, <1>3, <1>6
  <2>2. \A x \in Slots : Near(clock, x, Timed(list'[x]))
    BY <1>1, <1>2, <1>3, <1>8
  <2> QED
    BY <1>1, <1>3, <2>1, <2>2 DEF WheelInv
<1>10. ASSUME NEW y \in Nat
       PROVE  DueIn(Timed(s), y) = IF e.after = y THEN Append(DueIn(u, y), CallOf(e)) ELSE DueIn(u, y)
  <2>1. /\ \A i \in 1..p - 1 : u[i].after <= e.after
        /\ \A i \in p..Len(u) : u[i].after > e.after
    BY <1>4, <1>7
  <2>2. DueIn(InsertAt(u, p, e), y)
           = IF e.after = y THEN Append(DueIn(u, y), CallOf(e)) ELSE DueIn(u, y)
    BY <1>4, <1>5, <2>1, DueInserted
  <2> QED
    BY <1>7, <2>2
<1>11. /\ DueIn(Timed(s), q) = Append(DueIn(u, q), c)
       /\ \A y \in Nat : y # q => DueIn(Timed(s), y) = DueIn(u, y)
  BY <1>2, <1>4, <1>10
<1>12. AgendaOf(list', clock) = [AgendaOf(list, clock) EXCEPT ![d] = Append(DueIn(u, q), c)]
  <2>1. list'[t] = s /\ list' = [list EXCEPT ![t] = list'[t]]
    BY <1>1, <1>2, <1>3
  <2>2. OneSlot(list, list', t, q, Append(DueIn(u, q), c))
    BY <1>11, <2>1 DEF OneSlot, u
  <2>3. OneTime(AgendaOf(list, clock), AgendaOf(list', clock), d, Append(DueIn(u, q), c))
    BY <1>1, <2>2, OneChanges DEF t, q
  <2> QED
    BY <2>3 DEF OneTime
<1>13. AgendaOf(list, clock)[d] = DueIn(u, q)
  BY DEF AgendaOf, u, t, q
<1>14. Agenda' = [Agenda EXCEPT ![d] = Append(Agenda[d], c)]
  BY <1>3, <1>9, <1>12, <1>13, AgendaIs, AgendaNext
<1>15. Timing!Ask(c, d)
  BY <1>3, <1>14 DEF Timing!Ask, c
<1>16. c \in [ob : Objs, fun : Funs]
  BY <1>4 DEF AnyCall
<1> QED
  BY <1>9, <1>15, <1>16 DEF TimerStep, Timing!Next

\* The scan of remove_call_out() and find_call_out() ends at a call that is
\* looked for, when there is one.
LEMMA FoundIs ==
    ASSUME WheelInv, NEW o, NEW f
    PROVE  \/ /\ Found(o, f) = None
              /\ \A t \in Slots : \A i \in 1..Len(list[t]) :
                    ~(list[t][i].ob = o /\ list[t][i].fun = f)
           \/ /\ Found(o, f) # None /\ Found(o, f).slot \in Slots
              /\ Found(o, f).pos \in 1..Len(list[Found(o, f).slot])
              /\ list[Found(o, f).slot][Found(o, f).pos].ob = o
              /\ list[Found(o, f).slot][Found(o, f).pos].fun = f
<1> DEFINE In(t) == {i \in DOMAIN list[t] : list[t][i].ob = o /\ list[t][i].fun = f}
           t == CHOOSE u \in Slots : In(u) # {} /\ \A v \in 0..(u - 1) : In(v) = {}
           I == {u \in Slots : In(u) # {}}
<1>1. \A u \in Slots : Len(list[u]) \in Nat /\ DOMAIN list[u] = 1..Len(list[u])
  BY DEF WheelInv
<1>2. Found(o, f) = IF \A u \in Slots : In(u) = {} THEN None ELSE [slot |-> t, pos |-> Min(In(t))]
  BY DEF Found
<1>3. CASE \A u \in Slots : In(u) = {}
  <2>1. ASSUME NEW u \in Slots, NEW i \in 1..Len(list[u])
        PROVE  ~(list[u][i].ob = o /\ list[u][i].fun = f)
    <3>1. i \notin In(u)
      <4> HIDE DEF In
      <4> QED
        BY <1>3
    <3> QED
      BY <1>1, <3>1
  <2>2. Found(o, f) = None
    <3> HIDE DEF In
    <3> QED
      BY <1>2, <1>3
  <2> QED
    BY <2>1, <2>2
<1>4. CASE ~(\A u \in Slots : In(u) = {})
  <2>1. I \in SUBSET Nat /\ I # {}
    BY <1>4 DEF Slots
  <2>2. Min(I) \in I /\ \A y \in I : Min(I) <= y
    <3> HIDE DEF I
    <3> QED
      BY <2>1, LeastPlace
  <2>3. \A v \in 0..(Min(I) - 1) : v \in Slots /\ v \notin I
    BY <2>2, BackendAssumption DEF Slots
  <2>4. Min(I) \in Slots /\ In(Min(I)) # {} /\ \A v \in 0..(Min(I) - 1) : In(v) = {}
    BY <2>2, <2>3
  <2>5. t \in Slots /\ In(t) # {}
    <3> HIDE DEF I, In
    <3> QED
      BY <2>4
  <2> HIDE DEF t
  <2>6. In(t) \in SUBSET Nat
    BY <1>1, <2>5
  <2>7. Min(In(t)) \in In(t)
    <3> HIDE DEF In
    <3> QED
      BY <2>5, <2>6, LeastPlace
  <2>8. Found(o, f) = [slot |-> t, pos |-> Min(In(t))]
    BY <1>2, <1>4
  <2>9. Min(In(t)) \in 1..Len(list[t]) /\ list[t][Min(In(t))].ob = o
        /\ list[t][Min(In(t))].fun = f
    BY <1>1, <2>5, <2>7
  <2>10. Found(o, f) # None
    <3>1. t \in Nat /\ Min(In(t)) \in Nat
      BY <1>1, <2>5, <2>9 DEF Slots
    <3> HIDE DEF In
    <3>2. Found(o, f) \in [slot : Nat, pos : Nat]
      BY <2>8, <3>1
    <3> QED
      BY <3>2, BackendAssumption
  <2>11. Found(o, f).slot = t /\ Found(o, f).pos = Min(In(t))
    BY <2>8
  <2> HIDE DEF In
  <2> QED
    BY <2>5, <2>9, <2>10, <2>11
<1> QED
  BY <1>3, <1>4

\* Where a call is in a slot, its delay, and where it is among those that
\* have the same.
LEMMA DelayOf ==
    ASSUME WheelInv, NEW t \in Slots, NEW p \in 1..Len(list[t])
    PROVE  LET u == Timed(list[t])
               q == u[p].after
               d == Wait(clock, t, q)
               C == InCycle(u, q)
           IN  /\ u \in Seq(TimedCall) /\ p \in 1..Len(u) /\ Len(u) = Len(list[t])
               /\ q \in Nat /\ d \in 0..MaxDelay
               /\ (clock + d) % CycleSize = t /\ d \div CycleSize = q
               /\ Agenda[d] = DueIn(u, q)
               /\ Rank(C, p) \in 1..Cardinality(C)
               /\ DOMAIN Agenda[d] = 1..Cardinality(C)
               /\ Agenda[d][Rank(C, p)] = CallOf(u[p])
<1> DEFINE u == Timed(list[t])
           q == u[p].after
           d == Wait(clock, t, q)
           C == InCycle(u, q)
           n == Len(u)
           y == Calls(u)
<1>1. /\ list[t] \in Seq(Entry) /\ clock \in Slots /\ Near(clock, t, u)
  BY DEF WheelInv
<1>2. u \in Seq(TimedCall) /\ Len(u) = Len(list[t])
  BY <1>1, TimedIs
<1>3. p \in 1..n /\ n \in Nat /\ q \in Nat /\ y[p] = CallOf(u[p])
  BY <1>2, CallsIs
<1>4. d \in Nat /\ d <= MaxDelay
  BY <1>1, <1>3, WaitIs DEF Near
<1>5. d \in 0..MaxDelay
  BY <1>4, BackendAssumption
<1>6. (clock + d) % CycleSize = t /\ d \div CycleSize = q
  <2>1. d = Wait(clock, t, q)
    OBVIOUS
  <2> HIDE DEF d, q
  <2> QED
    BY <1>1, <1>3, <1>4, <2>1, WaitIs
<1>7. Agenda[d] = DueIn(u, q)
  <2>1. AgendaOf(list, clock)[d] = DueIn(Timed(list[(clock + d) % CycleSize]), d \div CycleSize)
    <3> HIDE DEF d
    <3> QED
      BY <1>5 DEF AgendaOf
  <2> QED
    BY <1>6, <2>1, AgendaIs
<1>8. C \in SUBSET (1..n) /\ p \in C /\ DueIn(u, q) = At(y, C)
  BY <1>2, <1>3 DEF InCycle, DueIn
<1>9. Rank(C, p) \in 1..Cardinality(C) /\ At(y, C)[Rank(C, p)] = y[p]
      /\ DOMAIN At(y, C) = 1..Cardinality(C)
  <2> HIDE DEF C, n, y
  <2>1. n \in Nat /\ C \in SUBSET (1..n)
    BY <1>3, <1>8
  <2>2. DOMAIN At(y, C) = 1..Cardinality(C)
    BY ONLY <2>1, AtValues
  <2>3. Rank(C, p) \in 1..Cardinality(C) /\ At(y, C)[Rank(C, p)] = y[p]
    BY <2>1, <1>8, AtPlace
  <2> QED
    BY <2>2, <2>3
<1> QED
  BY <1>2, <1>3, <1>5, <1>6, <1>7, <1>8, <1>9

\* A call is removed.
LEMMA WheelRemove ==
    ASSUME WheelInv, NEW o \in Objs, NEW f \in Funs, RemoveCallOut(o, f)
    PROVE  WheelInv' /\ TimerStep
<1> DEFINE t == Found(o, f).slot
           p == Found(o, f).pos
           u == Timed(list[t])
           q == u[p].after
           d == Wait(clock, t, q)
           C == InCycle(u, q)
           s == Unlinked(list[t], p)
<1>1. /\ list' = [list EXCEPT ![t] = s] /\ UNCHANGED <<clock, alive>>
      /\ Found(o, f) # None
  BY DEF RemoveCallOut
<1>2. t \in Slots /\ p \in 1..Len(list[t])
  BY <1>1, FoundIs
<1> HIDE DEF t, p
<1>3. /\ u \in Seq(TimedCall) /\ p \in 1..Len(u)
      /\ q \in Nat /\ d \in 0..MaxDelay
      /\ (clock + d) % CycleSize = t /\ d \div CycleSize = q
      /\ Agenda[d] = DueIn(u, q)
      /\ Rank(C, p) \in 1..Cardinality(C)
      /\ DOMAIN Agenda[d] = 1..Cardinality(C)
  BY <1>2, DelayOf
<1>4. /\ list \in [Slots -> Seq(Entry)] /\ clock \in Slots /\ alive \subseteq Objs
      /\ \A x \in Slots : Near(clock, x, Timed(list[x]))
  BY DEF WheelInv
<1>5. s \in Seq(Entry) /\ Timed(s) = RemoveAt(u, p)
  BY <1>2, <1>4, TimedUnlinked
<1>6. Near(clock, t, Timed(s))
  <2>1. Near(clock, t, u)
    BY <1>2, <1>4
  <2> HIDE DEF u
  <2> QED
    BY <1>3, <1>5, <2>1, NearRemoved
<1> HIDE DEF s
<1>7. WheelInv'
  <2>1. list' \in [Slots -> Seq(Entry)]
    BY <1>1, <1>4, <1>5
  <2>2. \A x \in Slots : Near(clock, x, Timed(list'[x]))
    BY <1>1, <1>2, <1>4, <1>6
  <2> QED
    BY <1>1, <1>4, <2>1, <2>2 DEF WheelInv
<1>8. ASSUME NEW y \in Nat
      PROVE  DueIn(Timed(s), y) = IF q = y THEN RemoveAt(DueIn(u, y), Rank(InCycle(u, y), p))
                                  ELSE DueIn(u, y)
  <2> HIDE DEF u
  <2> QED
    BY <1>3, <1>5, DueRemoved
<1> DEFINE x == RemoveAt(DueIn(u, q), Rank(C, p))
<1>9. OneSlot(list, list', t, q, x)
  <2>1. list'[t] = s /\ list' = [list EXCEPT ![t] = list'[t]]
    BY <1>1, <1>2, <1>4
  <2> HIDE DEF q
  <2> QED
    BY <1>3, <1>8, <2>1 DEF OneSlot
<1>10. OneTime(AgendaOf(list, clock), AgendaOf(list', clock), d, x)
  <2> HIDE DEF x, d, q
  <2> QED
    BY <1>3, <1>4, <1>9, OneChanges
<1>11. Agenda' = [Agenda EXCEPT ![d] = RemoveAt(Agenda[d], Rank(C, p))]
  <2> HIDE DEF d, q, C, u
  <2> QED
    BY <1>1, <1>3, <1>7, <1>10, AgendaIs, AgendaNext DEF OneTime
<1> DEFINE r == Rank(C, p)
<1> HIDE DEF d, C
<1>12. Timing!Remove1(d, r)
  BY <1>1, <1>11 DEF Timing!Remove1, Timing!RemoveAt, RemoveAt
<1> QED
  BY <1>3, <1>7, <1>12 DEF TimerStep, Timing!Next

\* All calls of an object, and of those that are gone, are removed.
LEMMA WheelRemoveAll ==
    ASSUME WheelInv, NEW o \in Objs, RemoveAllCallOut(o)
    PROVE  WheelInv' /\ TimerStep
<1> DEFINE B == alive \ {o}
           Kept(t) == {i \in 1..Len(Timed(list[t])) : Timed(list[t])[i].ob \in B}
<1>1. list' = [t \in Slots |-> Cleared(list[t], o)] /\ UNCHANGED <<clock, alive>>
  BY DEF RemoveAllCallOut
<1>2. /\ list \in [Slots -> Seq(Entry)] /\ clock \in Slots /\ alive \subseteq Objs
      /\ \A t \in Slots : Near(clock, t, Timed(list[t]))
  BY DEF WheelInv
<1>3. ASSUME NEW t \in Slots
      PROVE  /\ list'[t] \in Seq(Entry) /\ Timed(list[t]) \in Seq(TimedCall)
             /\ Timed(list'[t]) = At(Timed(list[t]), Kept(t))
  <2>1. list[t] \in Seq(Entry) /\ list'[t] = Cleared(list[t], o)
    BY <1>1, <1>2
  <2>2. /\ Timed(list[t]) \in Seq(TimedCall) /\ Len(Timed(list[t])) = Len(list[t])
        /\ \A i \in 1..Len(list[t]) : Timed(list[t])[i].ob = list[t][i].ob
    BY <2>1, TimedIs
  <2>3. Kept(t) = {j \in 1..Len(list[t]) : list[t][j].ob \in alive \ {o}}
    BY <2>2
  <2> QED
    BY <2>1, <2>2, <2>3, TimedCleared
<1> HIDE DEF B
<1>4. WheelInv'
  <2>1. list' \in [Slots -> Seq(Entry)]
    BY <1>1, <1>3
  <2>2. ASSUME NEW t \in Slots PROVE Near(clock, t, Timed(list'[t]))
    <3> DEFINE u == Timed(list[t])
               K == Kept(t)
    <3>1. u \in Seq(TimedCall) /\ K \in SUBSET (1..Len(u)) /\ Near(clock, t, u)
      BY <1>2, <1>3
    <3>2. Timed(list'[t]) = At(u, K)
      BY <1>3
    <3> HIDE DEF u, K
    <3> QED
      BY <3>1, <3>2, NearKept
  <2> QED
    BY <1>1, <1>2, <2>1, <2>2 DEF WheelInv
<1>5. ASSUME NEW d \in 0..MaxDelay
      PROVE  Agenda'[d] = At(Agenda[d], {i \in DOMAIN Agenda[d] : Agenda[d][i].ob \in B})
  <2> DEFINE t == (clock + d) % CycleSize
             q == d \div CycleSize
  <2>1. t \in Slots /\ Agenda[d] = DueIn(Timed(list[t]), q) /\ Agenda'[d] = DueIn(Timed(list'[t]), q)
    <3>1. /\ AgendaOf(list, clock)[d] = DueIn(Timed(list[t]), q)
          /\ AgendaOf(list', clock)[d] = DueIn(Timed(list'[t]), q)
      BY DEF AgendaOf
    <3>2. Agenda = AgendaOf(list, clock) /\ Agenda' = AgendaOf(list', clock)
      BY <1>1, <1>4, AgendaIs, AgendaNext
    <3> QED
      BY <1>2, <3>1, <3>2, Delays
  <2> DEFINE u == Timed(list[t])
             x == DueIn(u, q)
  <2> HIDE DEF t, q
  <2>2. u \in Seq(TimedCall) /\ Timed(list'[t]) = At(u, {i \in 1..Len(u) : u[i].ob \in B})
    BY <1>3, <2>1
  <2> HIDE DEF u
  <2>3. DueIn(At(u, {i \in 1..Len(u) : u[i].ob \in B}), q)
           = At(x, {j \in DOMAIN x : x[j].ob \in B})
    BY <2>2, DueKept
  <2>4. Agenda[d] = x /\ Agenda'[d] = DueIn(At(u, {i \in 1..Len(u) : u[i].ob \in B}), q)
    BY <2>1, <2>2 DEF u
  <2> HIDE DEF x
  <2> QED
    BY <2>3, <2>4
<1>6. Agenda' = [d \in 0..MaxDelay |->
                    At(Agenda[d], {i \in DOMAIN Agenda[d] : Agenda[d][i].ob \in B})]
  <2> DEFINE F == AgendaOf(list', clock')
  <2>1. F = [d \in 0..MaxDelay |-> F[d]]
    BY DEF AgendaOf
  <2>2. Agenda' = F
    BY <1>4, AgendaNext
  <2> HIDE DEF F
  <2>3. ASSUME NEW d \in 0..MaxDelay
        PROVE  F[d] = At(Agenda[d], {i \in DOMAIN Agenda[d] : Agenda[d][i].ob \in B})
    BY <1>5, <2>2
  <2> QED
    BY <2>1, <2>2, <2>3
<1>7. Timing!RemoveOf(o)
  BY <1>1, <1>6 DEF B, Timing!RemoveOf, Timing!At, At, Timing!Rank, Rank,
     Timing!Cardinality, Cardinality
<1> QED
  BY <1>4, <1>7 DEF TimerStep, Timing!Next

\* The first call of the slot is made.
LEMMA WheelCall ==
    ASSUME WheelInv, Call
    PROVE  WheelInv' /\ TimerStep
<1> DEFINE s == list[clock]
           u == Timed(s)
           r == Tail(s)
<1>1. /\ list' = [list EXCEPT ![clock] = r] /\ UNCHANGED <<clock, alive>>
      /\ s # <<>> /\ s[1].delta = 0
  BY DEF Call, Due
<1>2. /\ list \in [Slots -> Seq(Entry)] /\ clock \in Slots /\ alive \subseteq Objs
      /\ \A x \in Slots : Near(clock, x, Timed(list[x])) /\ s \in Seq(Entry)
  BY DEF WheelInv
<1> HIDE DEF s
<1>3. r \in Seq(Entry) /\ Timed(r) = Tail(u)
  BY <1>1, <1>2, TimedTail
<1>4. u \in Seq(TimedCall) /\ u # <<>> /\ u[1].after = 0 /\ Len(u) \in Nat
  <2>1. Len(s) \in Nat /\ 1 \in 1..Len(s)
    BY <1>1, <1>2
  <2>2. u \in Seq(TimedCall) /\ Len(u) = Len(s) /\ u[1].after = Sums(s)[1]
    BY <1>2, <2>1, TimedIs
  <2>3. Sums(s)[0] = 0 /\ Sums(s)[1] = Sums(s)[1 - 1] + s[1].delta
    BY <1>2, <2>1, SumsAre
  <2>4. Sums(s)[1] = 0
    BY <1>1, <2>3
  <2> HIDE DEF u
  <2> QED
    BY <2>1, <2>2, <2>4
<1>5. Near(clock, clock, u)
  BY <1>2 DEF s
<1> HIDE DEF r, u
<1>6. Near(clock, clock, Timed(r))
  <2>1. Len(Tail(u)) = Len(u) - 1 /\ \A i \in 1..Len(u) - 1 : Tail(u)[i] = u[i + 1]
    BY <1>4
  <2>2. \A i \in 1..Len(u) - 1 : i + 1 \in 1..Len(u)
    BY <1>4
  <2> QED
    BY <1>3, <1>5, <2>1, <2>2 DEF Near
<1>7. WheelInv'
  <2>1. list' \in [Slots -> Seq(Entry)]
    BY <1>1, <1>2, <1>3
  <2>2. \A x \in Slots : Near(clock, x, Timed(list'[x]))
    BY <1>1, <1>2, <1>6
  <2> QED
    BY <1>1, <1>2, <2>1, <2>2 DEF WheelInv
<1>8. ASSUME NEW y
      PROVE  /\ DueIn(u, 0) # <<>>
             /\ DueIn(Timed(r), y) = IF y = 0 THEN Tail(DueIn(u, y)) ELSE DueIn(u, y)
  BY <1>3, <1>4, DueTail
<1>9. 0 \in 0..MaxDelay /\ (clock + 0) % CycleSize = clock /\ 0 \div CycleSize = 0
  <2>1. 0 = Wait(clock, clock, 0)
    BY <1>2, BackendAssumption DEF Wait, Slots
  <2>2. (clock + 0) % CycleSize = clock /\ 0 \div CycleSize = 0
    BY <1>2, <2>1, WaitIs
  <2> QED
    BY <2>2, BackendAssumption
<1> DEFINE x == Tail(DueIn(u, 0))
<1>10. OneSlot(list, list', clock, 0, x)
  <2>1. list'[clock] = r /\ list' = [list EXCEPT ![clock] = list'[clock]]
    BY <1>1, <1>2
  <2>2. u = Timed(list[clock])
    BY DEF u, s
  <2> QED
    BY <1>8, <2>1, <2>2 DEF OneSlot
<1>11. OneTime(AgendaOf(list, clock), AgendaOf(list', clock), 0, x)
  <2> HIDE DEF x
  <2> QED
    BY <1>2, <1>9, <1>10, OneChanges
<1>12. AgendaOf(list, clock)[0] = DueIn(u, 0)
  BY <1>9 DEF AgendaOf, u, s
<1>13. Agenda[0] # <<>> /\ Agenda' = [Agenda EXCEPT ![0] = Tail(Agenda[0])]
  BY <1>1, <1>7, <1>8, <1>11, <1>12, AgendaIs, AgendaNext DEF OneTime
<1>14. Timing!Make
  BY <1>1, <1>13 DEF Timing!Make
<1> QED
  BY <1>7, <1>14 DEF TimerStep, Timing!Next

\* When the clock goes on, everything has a second less to wait: in the slot
\* that the clock leaves, it is a cycle less, and then the others.
LEMMA WaitNext ==
    ASSUME NEW k \in Slots, NEW t \in Slots, NEW q \in Nat
    PROVE  /\ (k + 1) % CycleSize \in Slots
           /\ Wait((k + 1) % CycleSize, t, q)
                = Wait(k, t, IF t = k THEN q + 1 ELSE q) - 1
<1> DEFINE m == q * CycleSize
           l == (k + 1) % CycleSize
<1>1. CycleSize \in Nat \ {0} /\ k \in Nat /\ t \in Nat /\ k < CycleSize /\ t < CycleSize
  BY BackendAssumption DEF Slots
<1>2. m \in Nat /\ (q + 1) * CycleSize = m + CycleSize
      /\ ((q + 1) + 1) * CycleSize = m + CycleSize + CycleSize
  BY <1>1
<1>3. l = IF k + 1 < CycleSize THEN k + 1 ELSE 0
  <2>1. CASE k + 1 < CycleSize
    <3>1. k + 1 \in Slots /\ k + 1 \in Nat /\ k + 1 = CycleSize * 0 + (k + 1)
      BY <1>1, <2>1 DEF Slots
    <3>2. l \in Slots /\ (k + 1) \div CycleSize \in Nat
          /\ k + 1 = CycleSize * ((k + 1) \div CycleSize) + l
      BY <3>1, Division
    <3> HIDE DEF l
    <3> QED
      BY <2>1, <3>1, <3>2, OneDivision
  <2>2. CASE ~(k + 1 < CycleSize)
    <3>1. k + 1 = CycleSize * 1 + 0 /\ 0 \in Slots /\ k + 1 \in Nat
      BY <1>1, <2>2 DEF Slots
    <3>2. l \in Slots /\ (k + 1) \div CycleSize \in Nat
          /\ k + 1 = CycleSize * ((k + 1) \div CycleSize) + l
      BY <3>1, Division
    <3> HIDE DEF l
    <3> QED
      BY <2>2, <3>1, <3>2, OneDivision
  <2> QED
    BY <2>1, <2>2
<1> HIDE DEF m, l
<1>4. Wait(l, t, q) = IF t >= l THEN (t - l) + m ELSE (t - l) + (m + CycleSize)
  BY <1>2 DEF Wait, m
<1>5. CASE t = k
  <2>1. Wait(k, t, q + 1) = m + CycleSize
    BY <1>1, <1>2, <1>5 DEF Wait
  <2> QED
    BY <1>1, <1>2, <1>3, <1>4, <1>5, <2>1 DEF l, Slots
<1>6. CASE t # k
  <2>1. Wait(k, t, q) = IF t >= k THEN (t - k) + m ELSE (t - k) + (m + CycleSize)
    BY <1>2 DEF Wait, m
  <2> QED
    BY <1>1, <1>2, <1>3, <1>4, <1>6, <2>1 DEF l, Slots
<1> QED
  BY <1>5, <1>6

LEMMA DueAged ==
    ASSUME NEW u \in Seq(TimedCall), NEW v \in Seq(TimedCall), Len(v) = Len(u),
           \A i \in 1..Len(u) : /\ v[i].ob = u[i].ob /\ v[i].fun = u[i].fun
                                /\ v[i].after = u[i].after - 1,
           NEW q \in Nat
    PROVE  DueIn(v, q) = DueIn(u, q + 1)
<1> DEFINE n == Len(u)
<1>1. /\ n \in Nat /\ DOMAIN u = 1..n /\ DOMAIN v = 1..n
      /\ \A i \in 1..n : u[i].after \in Nat
  BY CallsIs
<1>2. Calls(v) = Calls(u)
  <2>1. \A i \in 1..n : CallOf(v[i]) = CallOf(u[i])
    BY DEF CallOf
  <2> QED
    BY <1>1, <2>1 DEF Calls
<1>3. InCycle(v, q) = InCycle(u, q + 1)
  <2>1. \A i \in 1..n : v[i].after = q <=> u[i].after = q + 1
    BY <1>1
  <2> QED
    BY <1>1, <2>1 DEF InCycle
<1> QED
  BY <1>2, <1>3 DEF DueIn

LEMMA NoneDue ==
    ASSUME NEW u \in Seq(TimedCall), NEW q, \A i \in 1..Len(u) : u[i].after # q
    PROVE  DueIn(u, q) = <<>>
<1>1. InCycle(u, q) = {}
  BY CallsIs DEF InCycle
<1>2. Cardinality({}) = 0
  BY FS_EmptySet
<1>3. At(Calls(u), {}) = [j \in 1..0 |-> Calls(u)[CHOOSE i \in {} : Rank({}, i) = j]]
  BY <1>2 DEF At
<1> QED
  BY <1>1, <1>3 DEF DueIn

\* One second passes.
LEMMA WheelAdvance ==
    ASSUME WheelInv, Advance
    PROVE  WheelInv' /\ TimerStep
<1> DEFINE s == list[clock]
           u == Timed(s)
           r == Aged(s)
           v == Timed(r)
           l == (clock + 1) % CycleSize
<1>1. /\ list' = [list EXCEPT ![clock] = r] /\ clock' = l /\ UNCHANGED alive
      /\ s # <<>> => s[1].delta # 0
  BY DEF Advance, Due
<1>2. /\ list \in [Slots -> Seq(Entry)] /\ clock \in Slots /\ alive \subseteq Objs
      /\ \A x \in Slots : Near(clock, x, Timed(list[x])) /\ s \in Seq(Entry)
  BY DEF WheelInv
<1>3. l \in Slots
  BY <1>2, BackendAssumption, WaitNext
<1> HIDE DEF s, l
<1>4. /\ r \in Seq(Entry) /\ Len(r) = Len(s)
      /\ \A i \in 1..Len(s) : /\ v[i].ob = u[i].ob /\ v[i].fun = u[i].fun
                              /\ v[i].after = u[i].after - 1
  BY <1>1, <1>2, TimedAged
<1>5. /\ u \in Seq(TimedCall) /\ Len(u) = Len(s) /\ v \in Seq(TimedCall) /\ Len(v) = Len(s)
  BY <1>2, <1>4, TimedIs
<1>6. \A i \in 1..Len(u) : u[i].after \in Nat \ {0}
  <2>1. ASSUME NEW i \in 1..Len(u) PROVE u[i].after \in Nat \ {0}
    <3>1. Len(s) \in Nat /\ 1 \in 1..Len(s) /\ i \in 1..Len(s) /\ 1 <= i
      BY <1>2, <1>5
    <3>2. s # <<>> /\ s[1] \in Entry
      BY <1>2, <3>1
    <3>3. s[1].delta \in Nat /\ s[1].delta # 0
      BY <1>1, <3>2 DEF Entry
    <3>4. u[1].after = Sums(s)[1] /\ u[1].after <= u[i].after
      BY <1>2, <3>1, TimedIs, TimedRises
    <3>5. Sums(s)[0] = 0 /\ Sums(s)[1] = Sums(s)[1 - 1] + s[1].delta
      BY <1>2, <3>1, SumsAre
    <3>6. u[1].after = s[1].delta
      BY <3>3, <3>4, <3>5
    <3>7. u[i].after \in Nat
      BY <1>5, CallsIs
    <3> HIDE DEF u
    <3> QED
      BY <3>3, <3>4, <3>6, <3>7
  <2> QED
    BY <2>1
<1>7. u = Timed(list[clock]) /\ Near(clock, clock, u)
  BY <1>2 DEF s
<1>8. v = Timed(list'[clock])
  BY <1>1, <1>2
<1> HIDE DEF u, v, r
<1>9. \A t \in Slots \ {clock} : list'[t] = list[t]
  BY <1>1, <1>2
\* Everything has a second less to wait.
<1>10. ASSUME NEW t \in Slots
       PROVE  /\ Timed(list'[t]) \in Seq(TimedCall)
              /\ \A i \in 1..Len(Timed(list'[t])) :
                    Wait(l, t, Timed(list'[t])[i].after) <= MaxDelay - 1
  <2>1. CASE t = clock
    <3>1. ASSUME NEW i \in 1..Len(v) PROVE Wait(l, t, v[i].after) <= MaxDelay - 1
      <4>1. i \in 1..Len(u) /\ v[i].after = u[i].after - 1 /\ u[i].after \in Nat \ {0}
        BY <1>4, <1>5, <1>6
      <4> DEFINE a == v[i].after
                 b == u[i].after
      <4>2. a \in Nat /\ a + 1 = b /\ b \in Nat /\ Wait(clock, clock, b) <= MaxDelay
        BY <1>7, <4>1 DEF Near
      <4> HIDE DEF a, b
      <4>3. Wait(l, clock, a) = Wait(clock, clock, b) - 1
        BY <1>2, <4>2, WaitNext DEF l
      <4>5. Wait(clock, clock, b) \in Nat
        BY <1>2, <4>2, WaitIs
      <4> QED
        BY <2>1, <4>2, <4>3, <4>5, BackendAssumption DEF a
    <3> QED
      BY <1>5, <1>8, <2>1, <3>1
  <2>2. CASE t # clock
    <3> DEFINE w == Timed(list[t])
    <3>1. w \in Seq(TimedCall) /\ Near(clock, t, w) /\ Timed(list'[t]) = w
      BY <1>2, <1>9, <2>2, TimedIs
    <3> HIDE DEF w
    <3>2. ASSUME NEW i \in 1..Len(w) PROVE Wait(l, t, w[i].after) <= MaxDelay - 1
      <4>1. w[i].after \in Nat
        BY <3>1, CallsIs
      <4>2. Wait(l, t, w[i].after) = Wait(clock, t, w[i].after) - 1
        BY <1>2, <2>2, <4>1, WaitNext DEF l
      <4>3. Wait(clock, t, w[i].after) <= MaxDelay
        BY <3>1 DEF Near
      <4>4. Wait(clock, t, w[i].after) \in Nat
        BY <1>2, <4>1, WaitIs
      <4> QED
        BY <4>2, <4>3, <4>4, BackendAssumption
    <3> QED
      BY <3>1, <3>2
  <2> QED
    BY <2>1, <2>2
<1>11. WheelInv'
  <2>1. list' \in [Slots -> Seq(Entry)]
    BY <1>1, <1>2, <1>4
  <2>2. ASSUME NEW t \in Slots PROVE Near(l, t, Timed(list'[t]))
    <3>1. ASSUME NEW i \in 1..Len(Timed(list'[t]))
          PROVE  Wait(l, t, Timed(list'[t])[i].after) <= MaxDelay
      <4>1. Timed(list'[t])[i].after \in Nat
        BY <1>10, CallsIs
      <4>2. Wait(l, t, Timed(list'[t])[i].after) \in Nat
        BY <1>3, <4>1, WaitIs
      <4> QED
        BY <1>10, <4>2, BackendAssumption
    <3> QED
      BY <3>1 DEF Near
  <2> QED
    BY <1>1, <1>2, <1>3, <2>1, <2>2 DEF WheelInv
<1>12. Agenda = AgendaOf(list, clock) /\ Agenda' = AgendaOf(list', l)
  BY <1>1, <1>11, AgendaIs, AgendaNext
<1>13. ASSUME NEW d \in 0..MaxDelay
       PROVE  Agenda'[d] = IF d < MaxDelay THEN Agenda[d + 1] ELSE <<>>
  <2> DEFINE t == (l + d) % CycleSize
             q == d \div CycleSize
             p == IF t = clock THEN q + 1 ELSE q
  <2>1. t \in Slots /\ q \in Nat /\ d \in Nat /\ d = Wait(l, t, q)
    BY <1>3, Delays
  <2>2. Agenda'[d] = DueIn(Timed(list'[t]), q)
    BY <1>12 DEF AgendaOf
  <2> HIDE DEF t, q
  <2>3. p \in Nat /\ d + 1 \in Nat /\ d + 1 = Wait(clock, t, p)
    <3>1. d = Wait(clock, t, p) - 1 /\ p \in Nat
      BY <1>2, <2>1, WaitNext DEF l
    <3>2. Wait(clock, t, p) \in Nat
      BY <1>2, <2>1, <3>1, WaitIs
    <3> HIDE DEF p
    <3> QED
      BY <2>1, <3>1, <3>2
  <2>4. (clock + (d + 1)) % CycleSize = t /\ (d + 1) \div CycleSize = p
    <3> DEFINE e == d + 1
    <3> HIDE DEF e, p
    <3> QED
      BY <1>2, <2>1, <2>3, WaitIs DEF e
  <2>5. CASE d < MaxDelay
    <3>1. d + 1 \in 0..MaxDelay
      BY <2>1, <2>5, BackendAssumption
    <3>2. Agenda[d + 1] = DueIn(Timed(list[t]), p)
      <4> HIDE DEF p
      <4> QED
        BY <1>12, <2>4, <3>1 DEF AgendaOf
    <3>3. CASE t = clock
      <4>1. DueIn(v, q) = DueIn(u, q + 1)
        BY <1>4, <1>5, <2>1, DueAged
      <4> QED
        BY <1>7, <1>8, <2>2, <2>5, <3>2, <3>3, <4>1
    <3>4. CASE t # clock
      BY <1>9, <2>1, <2>2, <2>5, <3>2, <3>4
    <3> QED
      BY <3>3, <3>4
  <2>6. CASE ~(d < MaxDelay)
    <3> DEFINE w == Timed(list'[t])
    <3>1. w \in Seq(TimedCall) /\ \A i \in 1..Len(w) : Wait(l, t, w[i].after) <= MaxDelay - 1
      BY <1>10, <2>1
    <3> HIDE DEF w
    <3>2. ~(d <= MaxDelay - 1)
      BY <2>1, <2>6, BackendAssumption
    <3>3. \A i \in 1..Len(w) : w[i].after # q
      BY <2>1, <3>1, <3>2
    <3>4. DueIn(w, q) = <<>>
      BY <3>1, <3>3, NoneDue
    <3> QED
      BY <2>2, <2>6, <3>4 DEF w
  <2> QED
    BY <2>5, <2>6
<1>14. Agenda' = [d \in 0..MaxDelay |-> IF d < MaxDelay THEN Agenda[d + 1] ELSE <<>>]
  <2> DEFINE F == AgendaOf(list', l)
  <2>1. F = [d \in 0..MaxDelay |-> F[d]]
    BY DEF AgendaOf
  <2>2. Agenda' = F
    BY <1>12
  <2> HIDE DEF F
  <2>3. \A d \in 0..MaxDelay : F[d] = IF d < MaxDelay THEN Agenda[d + 1] ELSE <<>>
    BY <1>13, <2>2
  <2> QED
    BY <2>1, <2>2, <2>3
<1>15. Agenda[0] = <<>>
  <2>1. 0 \in 0..MaxDelay /\ (clock + 0) % CycleSize = clock /\ 0 \div CycleSize = 0
    <3>1. 0 = Wait(clock, clock, 0)
      BY <1>2, BackendAssumption DEF Wait, Slots
    <3>2. (clock + 0) % CycleSize = clock /\ 0 \div CycleSize = 0
      BY <1>2, <3>1, WaitIs
    <3> QED
      BY <3>2, BackendAssumption
  <2>2. Agenda[0] = DueIn(u, 0)
    BY <1>7, <1>12, <2>1 DEF AgendaOf
  <2> QED
    BY <1>5, <1>6, <2>2, NoneDue
<1>16. Timing!Tick
  BY <1>1, <1>14, <1>15 DEF Timing!Tick
<1> QED
  BY <1>11, <1>16 DEF TimerStep, Timing!Next

\* What leaves the wheel and its clock alone.
LEMMA WheelQuiet ==
    ASSUME WheelInv, UNCHANGED <<list, clock>>, alive' \subseteq Objs
    PROVE  WheelInv' /\ UNCHANGED Agenda
<1>1. WheelInv'
  BY DEF WheelInv
<1> QED
  BY <1>1, AgendaIs, AgendaNext

LEMMA WheelInit == Init => WheelInv /\ Timing!Init
<1> SUFFICES ASSUME Init PROVE WheelInv /\ Timing!Init
  OBVIOUS
<1>1. list = [s \in Slots |-> <<>>] /\ clock = 0 /\ alive = Objs /\ clock \in Slots
  BY BackendAssumption DEF Init, Slots
<1>2. <<>> \in Seq(Entry) /\ Len(<<>>) = 0
  OBVIOUS
<1>3. Timed(<<>>) \in Seq(TimedCall) /\ Len(Timed(<<>>)) = 0
  BY <1>2, TimedIs
<1>4. WheelInv
  BY <1>1, <1>2, <1>3 DEF WheelInv, Near
<1>5. ASSUME NEW d \in 0..MaxDelay PROVE AgendaOf(list, clock)[d] = <<>>
  <2>1. list[(clock + d) % CycleSize] = <<>>
    BY <1>1, Delays
  <2>2. DueIn(Timed(<<>>), d \div CycleSize) = <<>>
    BY <1>3, NoneDue
  <2> QED
    BY <2>1, <2>2 DEF AgendaOf
<1>6. Agenda = [d \in 0..MaxDelay |-> <<>>]
  <2> DEFINE F == AgendaOf(list, clock)
  <2>1. F = [d \in 0..MaxDelay |-> F[d]]
    BY DEF AgendaOf
  <2>2. Agenda = F
    BY <1>4, AgendaIs
  <2> HIDE DEF F
  <2>3. \A d \in 0..MaxDelay : F[d] = <<>>
    BY <1>5 DEF F
  <2> QED
    BY <2>1, <2>2, <2>3
<1> QED
  BY <1>1, <1>4, <1>6 DEF Timing!Init

LEMMA WheelNext == WheelInv /\ [Next]_vars => WheelInv' /\ TimerStep
<1> SUFFICES ASSUME WheelInv, [Next]_vars PROVE WheelInv' /\ TimerStep
  OBVIOUS
<1>1. CASE UNCHANGED <<list, clock, alive>>
  <2>1. alive' \subseteq Objs
    BY <1>1 DEF WheelInv
  <2>2. WheelInv' /\ Agenda' = Agenda /\ alive' = alive
    BY <1>1, <2>1, WheelQuiet
  <2> QED
    BY <2>2 DEF TimerStep, Timing!vars
<1>2. CASE Call
  BY <1>2, WheelCall
<1>3. CASE Advance
  BY <1>3, WheelAdvance
<1>4. ASSUME NEW o \in Objs, NEW f \in Funs, RemoveCallOut(o, f)
      PROVE  WheelInv' /\ TimerStep
  BY <1>4, WheelRemove
<1>5. ASSUME NEW o \in Objs, NEW f \in Funs, NEW d \in 0..MaxDelay, CallOut(o, f, d)
      PROVE  WheelInv' /\ TimerStep
  BY <1>5, WheelCallOut
<1>6. ASSUME NEW o \in Objs, RemoveAllCallOut(o)
      PROVE  WheelInv' /\ TimerStep
  BY <1>6, WheelRemoveAll
<1>7. ASSUME NEW o \in Objs, Destruct(o)
      PROVE  WheelInv' /\ TimerStep
  <2>1. UNCHANGED <<list, clock>> /\ alive' = alive \ {o}
    BY <1>7 DEF Destruct
  <2>2. alive' \subseteq Objs
    BY <2>1 DEF WheelInv
  <2>3. WheelInv' /\ UNCHANGED Agenda
    BY <2>1, <2>2, WheelQuiet
  <2>4. Timing!Destruct(o)
    BY <2>1, <2>3 DEF Timing!Destruct
  <2> QED
    BY <2>3, <2>4 DEF TimerStep, Timing!Next
<1>8. CASE \/ \E n \in 0..MaxLag : Begin(n)
           \/ CallReturns \/ CallTooLong \/ End \/ Turn \/ BeatReturns \/ BeatFails
  BY <1>1, <1>8 DEF Begin, CallReturns, CallTooLong, End, Turn, BeatReturns, BeatFails
<1>9. ASSUME NEW o \in Objs, HeartOff(o) \/ \E n \in 1..MaxPeriod : HeartOn(o, n)
      PROVE  WheelInv' /\ TimerStep
  BY <1>1, <1>9 DEF HeartOff, HeartOn
<1>10. CASE UNCHANGED vars
  BY <1>1, <1>10 DEF vars
<1> QED
  BY <1>2, <1>3, <1>4, <1>5, <1>6, <1>7, <1>8, <1>9, <1>10 DEF Next

\* No entry of the wheel has a negative delta, and none has longer to wait
\* than can be asked for.
THEOREM WheelInvariant == Spec => []WheelInv
<1>1. Init => WheelInv
  BY WheelInit
<1>2. WheelInv /\ [Next]_vars => WheelInv'
  BY WheelNext
<1> QED
  BY <1>1, <1>2, PTL DEF Spec

\* new_call_out(), remove_call_out(), remove_all_call_out() and the loop of
\* call_out(), with their slots and deltas, implement the agenda: every call
\* is made at its time, and in the order in which those of one time were
\* asked for, whatever is put in or taken out before it.
THEOREM WheelImplementsTimers == Spec => ImplementsTimers
<1>1. Init => Timing!Init
  BY WheelInit
<1>2. WheelInv /\ [Next]_vars => [Timing!Next]_(Timing!vars)
  BY WheelNext DEF TimerStep
<1> QED
  BY <1>1, <1>2, WheelInvariant, PTL DEF Spec, ImplementsTimers, Timing!Spec

\* What is in the agenda is in the wheel.
LEMMA AgendaFrom ==
    ASSUME WheelInv, NEW d \in 0..MaxDelay, NEW c, c \in ToSet(Agenda[d])
    PROVE  \E t \in Slots : \E i \in 1..Len(list[t]) :
              c = [ob |-> list[t][i].ob, fun |-> list[t][i].fun]
<1> DEFINE t == (clock + d) % CycleSize
           q == d \div CycleSize
           s == list[t]
           u == Timed(s)
           C == InCycle(u, q)
           y == Calls(u)
           n == Len(u)
<1>1. t \in Slots /\ s \in Seq(Entry)
  BY Delays DEF WheelInv
<1>2. Agenda[d] = At(y, C)
  BY AgendaIs DEF AgendaOf, DueIn
<1> HIDE DEF t, q, s
<1>3. u \in Seq(TimedCall) /\ n = Len(s)
      /\ \A i \in 1..Len(s) : u[i].ob = s[i].ob /\ u[i].fun = s[i].fun
  BY <1>1, TimedIs
<1>4. n \in Nat /\ \A i \in 1..n : y[i] = CallOf(u[i])
  BY <1>3, CallsIs
<1>5. C \in SUBSET (1..n)
  BY <1>3, <1>4, CallsIs DEF InCycle
<1> HIDE DEF n, y, u, C
<1>6. ASSUME NEW k \in 1..Len(At(y, C)), NEW x, x = At(y, C)[k]
      PROVE  \E i \in C : x = y[i]
  <2>1. n \in Nat
    BY <1>4
  <2> QED
    BY ONLY <1>5, <1>6, <2>1, AtFrom
<1>7. DOMAIN At(y, C) = 1..Len(At(y, C))
  BY ONLY <1>4, <1>5, AtValues
<1>8. PICK j \in 1..Len(At(y, C)) : c = At(y, C)[j]
  BY <1>2, <1>7 DEF ToSet
<1>9. PICK i \in C : c = y[i]
  BY <1>6, <1>8
<1>10. i \in 1..Len(s) /\ c = [ob |-> s[i].ob, fun |-> s[i].fun]
  BY <1>3, <1>4, <1>5, <1>8, <1>9 DEF CallOf
<1> QED
  BY <1>1, <1>10 DEF s

\* find_call_out() gives the time left of a call that is pending, and -1 only
\* when none is: the scan looks into every slot, and time_left() undoes what
\* new_call_out() did to the delay, however far the clock has turned since.
THEOREM FindCallOutFinds == Spec => []FindsPending
<1>1. WheelInv => FindsPending
  <2> SUFFICES ASSUME WheelInv, NEW o \in Objs, NEW f \in Funs
               PROVE  LET times == {d \in 0..MaxDelay :
                                      [ob |-> o, fun |-> f] \in ToSet(Agenda[d])}
                      IN FindCallOut(o, f) \in IF times = {} THEN {-1} ELSE times
    BY DEF FindsPending
  <2> DEFINE c == [ob |-> o, fun |-> f]
             times == {d \in 0..MaxDelay : c \in ToSet(Agenda[d])}
             at == Found(o, f)
             t == at.slot
             p == at.pos
  <2>1. CASE /\ at = None
             /\ \A x \in Slots : \A i \in 1..Len(list[x]) :
                   ~(list[x][i].ob = o /\ list[x][i].fun = f)
    <3>1. ASSUME NEW d \in times PROVE FALSE
      <4>0. PICK x \in Slots : \E i \in 1..Len(list[x]) :
               c = [ob |-> list[x][i].ob, fun |-> list[x][i].fun]
        BY AgendaFrom
      <4>1. PICK i \in 1..Len(list[x]) : c = [ob |-> list[x][i].ob, fun |-> list[x][i].fun]
        BY <4>0
      <4>2. c.ob = o /\ c.fun = f
        OBVIOUS
      <4>3. c.ob = list[x][i].ob /\ c.fun = list[x][i].fun
        <5> HIDE DEF c
        <5> QED
          BY <4>1
      <4> QED
        BY <2>1, <4>2, <4>3
    <3>2. FindCallOut(o, f) = -1
      BY <2>1 DEF FindCallOut
    <3> QED
      BY <3>1, <3>2
  <2>2. CASE /\ at # None /\ t \in Slots /\ p \in 1..Len(list[t])
             /\ list[t][p].ob = o /\ list[t][p].fun = f
    <3> DEFINE u == Timed(list[t])
               q == u[p].after
               d == Wait(clock, t, q)
               C == InCycle(u, q)
    <3>1. FindCallOut(o, f) = TimeLeft(t, Cycles(list[t], p))
      BY <2>2 DEF FindCallOut
    <3> HIDE DEF t, p, at
    <3>2. /\ d \in 0..MaxDelay /\ Rank(C, p) \in DOMAIN Agenda[d]
          /\ Agenda[d][Rank(C, p)] = CallOf(u[p])
      BY <2>2, DelayOf
    <3>3. /\ u[p].ob = o /\ u[p].fun = f /\ u[p].after = Cycles(list[t], p)
      <4>1. list[t] \in Seq(Entry)
        BY <2>2 DEF WheelInv
      <4> QED
        BY <2>2, <4>1, TimedIs DEF Cycles
    <3>4. CallOf(u[p]) = c
      BY <3>3 DEF CallOf
    <3>5. FindCallOut(o, f) = d
      BY <3>1, <3>3 DEF TimeLeft, Wait
    <3> HIDE DEF d, C, u, c
    <3>6. c \in ToSet(Agenda[d])
      BY <3>2, <3>4 DEF ToSet
    <3> QED
      BY <3>2, <3>5, <3>6 DEF c
  <2>3. \/ /\ at = None
           /\ \A x \in Slots : \A i \in 1..Len(list[x]) :
                 ~(list[x][i].ob = o /\ list[x][i].fun = f)
        \/ /\ at # None /\ t \in Slots /\ p \in 1..Len(list[t])
           /\ list[t][p].ob = o /\ list[t][p].fun = f
    BY FoundIs
  <2> QED
    BY <2>1, <2>2, <2>3
<1> QED
  BY <1>1, WheelInvariant, PTL

-----------------------------------------------------------------------------
(* The types of the state.                                                 *)

StateInv ==
    /\ WheelInv /\ HeartInv /\ lag \in 0..MaxLag
    /\ current \in Objs \cup {None} /\ (~InRound => index = 0)

LEMMA StateInit == Init => StateInv
<1>1. 0 \in 0..MaxLag
  BY BackendAssumption
<1> QED
  BY <1>1, WheelInit, HeartInit DEF Init, StateInv

LEMMA StateNext == StateInv /\ [Next]_vars => StateInv'
<1> SUFFICES ASSUME StateInv, [Next]_vars PROVE StateInv'
  OBVIOUS
<1>1. lag' \in 0..MaxLag
  <2>1. lag \in 0..MaxLag /\ MaxLag \in Nat
    BY BackendAssumption DEF StateInv
  <2>2. CASE UNCHANGED lag
    BY <2>1, <2>2
  <2>3. CASE Advance
    BY <2>1, <2>3 DEF Advance
  <2>4. CASE \E n \in 0..MaxLag : Begin(n)
    BY <2>4 DEF Begin
  <2> QED
    BY <2>2, <2>3, <2>4 DEF Next, vars, Call, CallReturns, CallTooLong, End, Turn,
       BeatReturns, BeatFails, RemoveCallOut, CallOut, RemoveAllCallOut, Destruct,
       HeartOff, HeartOn
<1>2. current' \in Objs \cup {None}
  <2>1. CASE UNCHANGED current
    BY <2>1 DEF StateInv
  <2>2. CASE Turn
    <3>1. hb[index + 1] \in Beat
      <4>1. phase = "beats"
        BY <2>2 DEF Turn
      <4> QED
        BY <4>1 DEF StateInv, HeartInv, HeartListSound, RoundInArray
    <3> QED
      BY <2>2, <3>1 DEF Turn, Turned, Beat
  <2>3. CASE BeatReturns \/ BeatFails
    BY <2>3 DEF BeatReturns, BeatFails, Turned
  <2> QED
    BY <2>1, <2>2, <2>3 DEF Next, vars, Begin, Advance, Call, CallReturns, CallTooLong,
       End, RemoveCallOut, CallOut, RemoveAllCallOut, Destruct, HeartOff, HeartOn
<1>3. ~InRound' => index' = 0
  <2>1. CASE UNCHANGED <<phase, index>>
    BY <2>1 DEF StateInv, InRound
  <2>2. CASE \E n \in 0..MaxLag : Begin(n)
    BY <2>2 DEF Begin, StateInv, InRound
  <2>3. CASE Call \/ CallReturns \/ CallTooLong \/ End
    BY <2>3 DEF Call, CallReturns, CallTooLong, End, StateInv, InRound
  <2>4. CASE Advance
    BY <2>4 DEF Advance, StateInv, InRound
  <2>5. CASE Turn \/ BeatReturns \/ BeatFails
    BY <2>5 DEF Turn, BeatReturns, BeatFails, Turned, InRound
  <2>6. ASSUME NEW o, Stopped(o) \/ NotStopped, UNCHANGED phase
        PROVE  ~InRound' => index' = 0
    BY <2>6 DEF Stopped, NotStopped, StateInv, HeartInv, InRound
  <2> QED
    BY <2>1, <2>2, <2>3, <2>4, <2>5, <2>6 DEF Next, vars, RemoveCallOut, CallOut,
       RemoveAllCallOut, Destruct, HeartOff, HeartOn
<1> QED
  BY <1>1, <1>2, <1>3, WheelNext, HeartNext DEF StateInv

\* The list of heart beats has no more entries than there are objects.
LEMMA BeatsBounded ==
    HeartInv => Len(hb) \in Nat /\ Cardinality(Objs) \in Nat /\ Len(hb) <= Cardinality(Objs)
<1> SUFFICES ASSUME HeartInv
             PROVE  Len(hb) \in Nat /\ Cardinality(Objs) \in Nat /\ Len(hb) <= Cardinality(Objs)
  OBVIOUS
<1> DEFINE n == Len(hb)
           g == [i \in 1..n |-> hb[i].ob]
<1>1. n \in Nat /\ DOMAIN hb = 1..n
  BY DEF HeartInv
<1>2. g \in Injection(1..n, Objs)
  <2>1. \A i \in 1..n : hb[i].ob \in Objs
    BY <1>1 DEF HeartInv, HeartListSound, BeatsOnce
  <2>2. \A i, j \in 1..n : hb[i].ob = hb[j].ob => i = j
    BY <1>1 DEF HeartInv, HeartListSound, BeatsOnce
  <2> HIDE DEF n
  <2> QED
    BY <2>1, <2>2 DEF Injection, IsInjective
<1> HIDE DEF n, g
<1>3. Cardinality(1..n) = n
  BY <1>1, FS_Interval
<1>4. IsFiniteSet(Objs)
  BY BackendAssumption
<1>5. Cardinality(1..n) <= Cardinality(Objs)
  BY <1>2, <1>4, FS_Injection
<1>6. Cardinality(Objs) \in Nat
  BY <1>4, FS_CardinalityType
<1> QED
  BY <1>1, <1>3, <1>5, <1>6 DEF n

\* The state is of its types: the deltas stay natural numbers although every
\* second takes one away, and the index and the end of a round stay within the
\* number of objects.
THEOREM BackendTypes == Spec => []TypeOK
<1>1. StateInv => TypeOK
  <2> SUFFICES ASSUME StateInv PROVE TypeOK
    OBVIOUS
  <2>1. /\ Len(hb) \in Nat /\ Cardinality(Objs) \in Nat /\ Len(hb) <= Cardinality(Objs)
    BY BeatsBounded DEF StateInv
  <2>2. /\ index \in Int /\ index >= -1 /\ todo \in Nat /\ todo <= Len(hb)
        /\ InRound => index < todo \/ index = -1
        /\ ~InRound => index = 0
    BY DEF StateInv, HeartInv, HeartListSound, RoundInArray, InRound
  <2>3. index \in -1..Cardinality(Objs) /\ todo \in 0..Cardinality(Objs)
    BY <2>1, <2>2
  <2>4. /\ hb \in Seq([ob : Objs, ticks : 1..MaxPeriod, period : 1..MaxPeriod])
        /\ phase \in {"io", "calls", "called", "beats", "beating"}
        /\ alive \subseteq Objs
    BY DEF StateInv, HeartInv, Beat
  <2>5. /\ list \in [Slots -> Seq([ob : Objs, fun : Funs, delta : Nat])]
        /\ clock \in Slots
    BY DEF StateInv, WheelInv, Entry
  <2> QED
    BY <2>3, <2>4, <2>5 DEF TypeOK, StateInv
<1>2. Spec => []StateInv
  BY StateInit, StateNext, PTL DEF Spec
<1> QED
  BY <1>1, <1>2, PTL
=============================================================================
