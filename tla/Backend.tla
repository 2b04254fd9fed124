------------------------------ MODULE Backend ------------------------------
(***************************************************************************)
(* The clock of the driver: call_out.c, which keeps pending calls in a     *)
(* wheel of slots, and the heart beats of backend.c, which it calls while  *)
(* it advances the clock.  LPC code runs in commands, calls and heart      *)
(* beats; whatever it does with call_outs and heart beats, it may do there.*)
(*                                                                         *)
(* A slot is a list in which every entry counts from the one before it     *)
(* (delta, in cycles).  Time is kept modulo CycleSize, so nothing grows.   *)
(* Calls by function pointer and the arguments of a call are left out: a   *)
(* call is an object and a function.                                       *)
(***************************************************************************)
EXTENDS Places, SequencesExt, FiniteSetsExt

CONSTANTS
    Objs, Funs,
    CycleSize,   \* CALLOUT_CYCLE_SIZE
    Interval,    \* HEARTBEAT_INTERVAL
    MaxDelay, MaxCalls, MaxLag, MaxPeriod,   \* bounds
    None

ASSUME BackendAssumption ==
    /\ CycleSize \in Nat \ {0} /\ Interval \in Nat \ {0}
    /\ CycleSize % Interval = 0
    /\ IsFiniteSet(Objs)
    /\ MaxDelay \in Nat /\ MaxCalls \in Nat /\ MaxLag \in Nat
    /\ MaxPeriod \in Nat \ {0}
    /\ None \notin [slot : Nat, pos : Nat] /\ None \notin Objs

Slots == 0..(CycleSize - 1)

VARIABLES
    list,     \* call_list[]: the slots
    clock,    \* current_time
    lag,      \* real_time - current_time in call_out()
    phase,    \* "io": commands; "calls", "beats": in the loops of call_out()
              \* and call_heart_beat(); "called", "beating": in LPC code
    hb,       \* heart_beats[0 .. num_hb_objs - 1]
    index,    \* heart_beat_index
    todo,     \* num_hb_to_do, 0 out of a round
    current,  \* current_heart_beat, while LPC code may look at it
    alive     \* objects that are not O_DESTRUCTED

vars == <<list, clock, lag, phase, hb, index, todo, current, alive>>

Init ==
    /\ list = [s \in Slots |-> <<>>] /\ clock = 0 /\ lag = 0
    /\ phase = "io"
    /\ hb = <<>> /\ index = 0 /\ todo = 0 /\ current = None
    /\ alive = Objs

InLPC == phase \in {"io", "called", "beating"}

-----------------------------------------------------------------------------
(* Call outs *)

\* Cycles until entry i of slot s: the sum of the deltas up to it.
Sums(s) == LET sum[j \in 0..Len(s)] == IF j = 0 THEN 0 ELSE sum[j - 1] + s[j].delta
           IN sum
Cycles(s, i) == Sums(s)[i]

\* new_call_out(): the place of a call in a slot, and the slot with it.
\* Left(i): what is left of the cycles when the entries before i are passed.
Inserted(s, c, cycles) ==
    LET Left(i) == cycles - Cycles(s, i - 1)
        p == Min({i \in 1..(Len(s) + 1) : i <= Len(s) => s[i].delta > Left(i)})
        new == [ob |-> c.ob, fun |-> c.fun, delta |-> Left(p)]
    IN InsertAt([j \in DOMAIN s |-> IF j = p THEN [s[j] EXCEPT !.delta = @ - Left(p)]
                                    ELSE s[j]], p, new)

\* An entry is unlinked; its delta goes to the next.
\* Mutant: the delta is lost.
UnlinkedPlain(s, i) == RemoveAt(s, i)
Unlinked(s, i) ==
    RemoveAt([j \in DOMAIN s |-> IF j = i + 1 THEN [s[j] EXCEPT !.delta = @ + s[i].delta]
                                 ELSE s[j]], i)

\* time_left().
\* Mutant: a slot that the clock has passed is not looked at again in a cycle.
TimeLeftNow(t, cycles) == (t - clock) + cycles * CycleSize
TimeLeft(t, cycles) ==
    IF t >= clock THEN (t - clock) + cycles * CycleSize
    ELSE (t - clock) + (cycles + 1) * CycleSize

\* The scan of remove_call_out() and find_call_out(): from slot 0 on.
Found(o, f) ==
    LET In(t) == {i \in DOMAIN list[t] : list[t][i].ob = o /\ list[t][i].fun = f}
        t == CHOOSE u \in Slots : In(u) # {} /\ \A v \in 0..(u - 1) : In(v) = {}
    IN IF \A u \in Slots : In(u) = {} THEN None
       ELSE [slot |-> t, pos |-> Min(In(t))]

FindCallOut(o, f) ==
    LET at == Found(o, f)
    IN IF at = None THEN -1 ELSE TimeLeft(at.slot, Cycles(list[at.slot], at.pos))

Pending == Cardinality(UNION {{t} \X DOMAIN list[t] : t \in Slots})

CallOut(o, f, delay) ==
    /\ InLPC /\ o \in alive /\ Pending < MaxCalls
    /\ LET t == (delay + clock) % CycleSize IN
        list' = [list EXCEPT ![t] = Inserted(@, [ob |-> o, fun |-> f], delay \div CycleSize)]
    /\ UNCHANGED <<clock, lag, phase, hb, index, todo, current, alive>>

RemoveCallOut(o, f) ==
    /\ InLPC /\ o \in alive /\ Found(o, f) # None
    /\ list' = [list EXCEPT ![Found(o, f).slot] = Unlinked(@, Found(o, f).pos)]
    /\ UNCHANGED <<clock, lag, phase, hb, index, todo, current, alive>>

\* remove_all_call_out(): every entry of o or of a destructed object is
\* unlinked; here from the last to the first, so that places stay.
\* rest[i]: the slot when those from i on have been looked at.
Cleared(s, o) ==
    LET rest[i \in 1..(Len(s) + 1)] ==
            IF i = Len(s) + 1 THEN s
            ELSE IF s[i].ob \notin alive \ {o} THEN Unlinked(rest[i + 1], i)
            ELSE rest[i + 1]
    IN rest[1]
RemoveAllCallOut(o) ==
    /\ InLPC /\ o \in alive
    /\ list' = [t \in Slots |-> Cleared(list[t], o)]
    /\ UNCHANGED <<clock, lag, phase, hb, index, todo, current, alive>>

Due == list[clock] # <<>> /\ list[clock][1].delta = 0

\* call_out() begins, n seconds behind real time.
Begin(n) ==
    /\ phase = "io" /\ n >= lag
    /\ phase' = "calls" /\ lag' = n
    /\ UNCHANGED <<list, clock, hb, index, todo, current, alive>>

\* The first entry of the slot is made, or dropped when its object is gone.
Call ==
    /\ phase = "calls" /\ Due
    /\ list' = [list EXCEPT ![clock] = Tail(@)]
    /\ phase' = IF list[clock][1].ob \in alive THEN "called" ELSE "calls"
    /\ UNCHANGED <<clock, lag, hb, index, todo, current, alive>>

\* It returns, or ends in an error.
CallReturns ==
    /\ phase = "called" /\ phase' = "calls"
    /\ UNCHANGED <<list, clock, lag, hb, index, todo, current, alive>>

\* It uses up the evaluation cost: call_out() returns, the clock still behind.
\* Mutant: the seconds that the clock is behind are forgotten.
CallTooLongForgets ==
    /\ phase = "called" /\ phase' = "io" /\ lag' = 0
    /\ UNCHANGED <<list, clock, hb, index, todo, current, alive>>
CallTooLong ==
    /\ phase = "called" /\ phase' = "io"
    /\ UNCHANGED <<list, clock, lag, hb, index, todo, current, alive>>

\* "Time marches onward", with a round of heart beats every Interval seconds.
Aged(s) == IF s = <<>> THEN s ELSE [s EXCEPT ![1].delta = @ - 1]
\* Mutant: one call in a second, "if" for "while".
AdvanceEarly ==
    /\ phase = "calls" /\ lag > 0
    /\ list' = [list EXCEPT ![clock] = Aged(@)]
    /\ clock' = (clock + 1) % CycleSize
    /\ lag' = lag - 1
    /\ UNCHANGED <<phase, hb, index, todo, current, alive>>
Advance ==
    /\ phase = "calls" /\ ~Due /\ lag > 0
    /\ list' = [list EXCEPT ![clock] = Aged(@)]
    /\ clock' = (clock + 1) % CycleSize
    /\ lag' = lag - 1
    /\ IF clock' % Interval = 0 /\ hb # <<>>
       THEN phase' = "beats" /\ index' = 0 /\ todo' = Len(hb)
       ELSE UNCHANGED <<phase, index, todo>>
    /\ UNCHANGED <<hb, current, alive>>

End ==
    /\ phase = "calls" /\ ~Due /\ lag = 0
    /\ phase' = "io"
    /\ UNCHANGED <<list, clock, lag, hb, index, todo, current, alive>>

-----------------------------------------------------------------------------
(* Heart beats.  hb[i + 1] is heart_beats[i]. *)

Place(o) == CHOOSE i \in 0..(Len(hb) - 1) : hb[i + 1].ob = o
Beats(o) == \E i \in DOMAIN hb : hb[i].ob = o

\* set_heart_beat(o, 0): the round's index and end follow the entries.
\* Mutants: the end of the round, or its index, stays.
StoppedLate(o) ==
    LET i == Place(o) IN
    /\ hb' = RemoveAt(hb, i + 1)
    /\ index' = IF todo # 0 /\ i <= index THEN index - 1 ELSE index
    /\ UNCHANGED todo
StoppedAhead(o) ==
    LET i == Place(o) IN
    /\ hb' = RemoveAt(hb, i + 1)
    /\ index' = IF todo # 0 /\ i < index THEN index - 1 ELSE index
    /\ todo' = IF todo # 0 /\ i < todo THEN todo - 1 ELSE todo
Stopped(o) ==
    LET i == Place(o) IN
    /\ hb' = RemoveAt(hb, i + 1)
    /\ index' = IF todo # 0 /\ i <= index THEN index - 1 ELSE index
    /\ todo' = IF todo # 0 /\ i < todo THEN todo - 1 ELSE todo
NotStopped == UNCHANGED <<hb, index, todo>>

HeartOff(o) ==
    /\ InLPC /\ o \in alive /\ Beats(o)
    /\ Stopped(o)
    /\ UNCHANGED <<list, clock, lag, phase, current, alive>>

\* set_heart_beat(o, n): the entry is added at the end, or set anew.
HeartOn(o, n) ==
    /\ InLPC /\ o \in alive
    /\ hb' = IF Beats(o)
             THEN [hb EXCEPT ![Place(o) + 1] = [ob |-> o, ticks |-> n, period |-> n]]
             ELSE Append(hb, [ob |-> o, ticks |-> n, period |-> n])
    /\ UNCHANGED <<list, clock, lag, phase, index, todo, current, alive>>

\* The end of a turn, with the index and end that its heart beat has left.
\* Mutant: the round lasts to the end of the list as it is now.
TurnedOn(i, n) ==
    /\ IF i + 1 >= Len(hb') THEN phase' = "calls" /\ index' = 0 /\ todo' = 0
       ELSE phase' = "beats" /\ index' = i + 1 /\ todo' = n
    /\ current' = None
Turned(i, n) ==
    /\ IF i + 1 = n THEN phase' = "calls" /\ index' = 0 /\ todo' = 0
       ELSE phase' = "beats" /\ index' = i + 1 /\ todo' = n
    /\ current' = None

\* An object has its turn: its ticks go down, its heart beats at less than 1.
Turn ==
    LET e == hb[index + 1] IN
    /\ phase = "beats"
    /\ IF e.ticks > 1
       THEN /\ hb' = [hb EXCEPT ![index + 1].ticks = @ - 1]
            /\ Turned(index, todo)
       ELSE /\ hb' = [hb EXCEPT ![index + 1].ticks = e.period]
            /\ current' = e.ob /\ phase' = "beating"
            /\ UNCHANGED <<index, todo>>
    /\ UNCHANGED <<list, clock, lag, alive>>

BeatReturns ==
    /\ phase = "beating" /\ UNCHANGED hb
    /\ Turned(index, todo)
    /\ UNCHANGED <<list, clock, lag, alive>>

\* error_handler() takes the heart beat of current_heart_beat away.  An
\* object that destructed itself has none.
BeatFails ==
    /\ phase = "beating"
    /\ LET i == Place(current)
           off == current \in alive /\ Beats(current)
       IN /\ hb' = IF off THEN RemoveAt(hb, i + 1) ELSE hb
          /\ Turned(IF off /\ todo # 0 /\ i <= index THEN index - 1 ELSE index,
                    IF off /\ todo # 0 /\ i < todo THEN todo - 1 ELSE todo)
    /\ UNCHANGED <<list, clock, lag, alive>>

Destruct(o) ==
    /\ InLPC /\ o \in alive
    /\ alive' = alive \ {o}
    /\ IF Beats(o) THEN Stopped(o) ELSE NotStopped
    /\ UNCHANGED <<list, clock, lag, phase, current>>

-----------------------------------------------------------------------------
Next ==
    \/ \E n \in 0..MaxLag : Begin(n)
    \/ Call \/ CallReturns \/ CallTooLong \/ Advance \/ End
    \/ Turn \/ BeatReturns \/ BeatFails
    \/ \E o \in Objs :
        \/ \E f \in Funs : RemoveCallOut(o, f) \/ \E d \in 0..MaxDelay : CallOut(o, f, d)
        \/ RemoveAllCallOut(o) \/ Destruct(o) \/ HeartOff(o)
        \/ \E n \in 1..MaxPeriod : HeartOn(o, n)

\* The driver's loops go on, LPC code ends (it has an evaluation limit), and
\* real time passes.
Fairness ==
    /\ WF_vars(Call \/ Advance \/ End) /\ WF_vars(CallReturns)
    /\ WF_vars(Turn) /\ WF_vars(BeatReturns)
    /\ SF_vars(\E n \in 1..MaxLag : Begin(n))

Spec == Init /\ [][Next]_vars /\ Fairness

-----------------------------------------------------------------------------
(* Properties *)

\* The state is of its types; above all, no delta is negative: call_out()
\* stops at the first that is not 0, so an entry with -1 would never go.
TypeOK ==
    /\ list \in [Slots -> Seq([ob : Objs, fun : Funs, delta : Nat])]
    /\ clock \in Slots /\ lag \in 0..MaxLag
    /\ phase \in {"io", "calls", "called", "beats", "beating"}
    /\ hb \in Seq([ob : Objs, ticks : 1..MaxPeriod, period : 1..MaxPeriod])
    /\ index \in -1..Cardinality(Objs) /\ todo \in 0..Cardinality(Objs)
    /\ current \in Objs \cup {None} /\ alive \subseteq Objs

\* Whatever a heart beat removes or adds, the loop of call_heart_beat() stays
\* within the round: its test is for equality, so an index past the end would
\* run off the array.
RoundInArray ==
    /\ todo <= Len(hb)
    /\ phase = "beats" => index \in 0..(todo - 1)
    /\ phase = "beating" => index < todo \/ (index = -1 /\ todo = 0)

\* An object is in the list once, and not after its destruction.
BeatsOnce == /\ \A i, j \in DOMAIN hb : hb[i].ob = hb[j].ob => i = j
             /\ \A i \in DOMAIN hb : hb[i].ob \in alive

\* The list of heart beats is sound in every step of a round.
HeartListSound == RoundInArray /\ BeatsOnce

\* The wheel implements the agenda: every call is made at its time, in the
\* order they were asked for, whatever is inserted and removed before it.
Asked(s) == [i \in DOMAIN s |-> [ob |-> s[i].ob, fun |-> s[i].fun]]
Before(s, q) == Cardinality({i \in DOMAIN s : Cycles(s, i) < q})
Agenda == [d \in 0..MaxDelay |->
    LET s == list[(clock + d) % CycleSize]
        q == d \div CycleSize
    IN SubSeq(Asked(s), Before(s, q) + 1, Before(s, q + 1))]
Timing == INSTANCE Timers WITH agenda <- Agenda, Calls <- [ob : Objs, fun : Funs]
ImplementsTimers == Timing!Spec

\* The array with its moving index implements rounds: nobody is left out and
\* nobody has two turns when heart beats remove and add heart beats.
Waiting == CASE phase = "beats" -> {hb[i].ob : i \in (index + 1)..todo}
             [] phase = "beating" -> {hb[i].ob : i \in (index + 2)..todo}
             [] OTHER -> {}
Rounds == INSTANCE Beats WITH beating <- {hb[i].ob : i \in DOMAIN hb}, waiting <- Waiting
ImplementsBeats == Rounds!Spec

\* A round ends, although heart beats may start new heart beats for ever.
RoundsEnd == phase \in {"beats", "beating"} ~> phase \in {"io", "calls"}

\* Time goes on, unless calls with no delay are asked for in such calls
\* without end.
TimeGoesOn == []<>(phase = "calls" /\ ~Due) => []<><<Advance>>_vars

\* find_call_out() gives the time left of a call that is pending, and -1 only
\* when none is.  (It need not be the first that is due, as find_call_out.3
\* says: the scan starts at slot 0, not at the current one.)
FindsPending ==
    \A o \in Objs, f \in Funs :
        LET times == {d \in 0..MaxDelay : [ob |-> o, fun |-> f] \in ToSet(Agenda[d])}
        IN FindCallOut(o, f) \in IF times = {} THEN {-1} ELSE times
=============================================================================
