--------------------------- MODULE RebootProofs ----------------------------
(***************************************************************************)
(* The shutdown daemon keeps its countdown and ends the process in time,   *)
(* for any length of a minute, any lag of the driver and any delays; and   *)
(* it does so beside the event daemon, in a process that crashes, because  *)
(* the composition implements the daemon's own specification.              *)
(*                                                                         *)
(* The event daemon beside it: its queues stay in order, keep their        *)
(* periodic events and perform none twice, for any queues, periods,        *)
(* events, intervals and lags.                                             *)
(***************************************************************************)
EXTENDS Reboot, FiniteSetTheorems, SequenceTheorems, TLAPS

-----------------------------------------------------------------------------
(* The shutdown daemon, alone and composed *)

daemonVars == <<down, shutdownVars>>

\* What makes CountdownArmed and OnTime inductive: a pending call_out is not
\* later than the driver's lag, and the shutdown is not nearer than its call
\* but for the half minute that count_down() rounds by.
Pending(k) == /\ calls = <<k>> /\ down = 0
              /\ left # None /\ left >= k - Half

DaemonInv ==
    /\ down \in 0 .. MaxDown + 1
    /\ left \in Int \cup {None}
    /\ left # None => left >= Floor
    /\ calls = <<>> \/ \E k \in -MaxLag .. Minute : Pending(k)
    /\ left # None /\ left >= Minute - Half => calls # <<>>
    /\ down # 0 => left = None /\ calls = <<>>

-----------------------------------------------------------------------------
(* Facts about numbers and short sequences.                                *)

LEMMA Halves == Half \in Nat /\ Half <= Minute /\ Minute \in Nat /\ Minute >= 1
                /\ MaxLag \in Nat /\ MaxDown \in Nat /\ Floor \in Int
BY MinuteAssumption, LagAssumption DEF Half, Floor

LEMMA Minutes == ASSUME NEW d \in Delays, d > 0
                 PROVE  d * Minute \in Int /\ d * Minute >= Minute
BY MinuteAssumption, SMT

LEMMA ShortSequences ==
    ASSUME NEW k \in Int
    PROVE  /\ <<k>> # <<>> /\ Append(<<>>, k) = <<k>>
           /\ DOMAIN <<k>> = {1} /\ <<k>>[1] = k
           /\ Removed(<<k>>) = <<>> /\ RemoveAt(<<k>>, 1) = <<>>
           /\ [i \in DOMAIN <<k>> |-> <<k>>[i] - 1] = <<k - 1>>
<1>1. /\ <<k>> # <<>> /\ Append(<<>>, k) = <<k>>
      /\ DOMAIN <<k>> = {1} /\ <<k>>[1] = k
  OBVIOUS
<1>2. Removed(<<k>>) = <<>>
  BY DEF Removed
<1>3. RemoveAt(<<k>>, 1) = <<>>
  <2>1. SubSeq(<<k>>, 1, 0) = <<>> /\ SubSeq(<<k>>, 2, 1) = <<>>
    OBVIOUS
  <2> QED
    BY <2>1 DEF RemoveAt
<1>4. [i \in DOMAIN <<k>> |-> <<k>>[i] - 1] = <<k - 1>>
  OBVIOUS
<1> QED
  BY <1>1, <1>2, <1>3, <1>4

-----------------------------------------------------------------------------
(* The daemon alone.                                                       *)

LEMMA RemovedCall == DaemonInv => Removed(calls) = <<>>
<1> SUFFICES ASSUME DaemonInv PROVE Removed(calls) = <<>>
  OBVIOUS
<1>1. CASE calls = <<>>
  BY <1>1 DEF Removed
<1>2. ASSUME NEW k \in -MaxLag .. Minute, Pending(k)
      PROVE  Removed(calls) = <<>>
  <2>1. k \in Int
    BY Halves
  <2> QED
    BY <1>2, <2>1, ShortSequences, Zenon DEF Pending
<1> QED
  BY <1>1, <1>2 DEF DaemonInv

LEMMA DaemonInit == down = 0 /\ ShutdownInit => DaemonInv
BY Halves, NoneAssumption DEF ShutdownInit, DaemonInv

\* Whoever starts, changes, cancels, counts or crashes, DaemonInv is kept.
LEMMA DaemonStep == DaemonInv /\ [ShutdownNext]_daemonVars => DaemonInv'
<1> SUFFICES ASSUME DaemonInv, [ShutdownNext]_daemonVars PROVE DaemonInv'
  OBVIOUS
<1> USE Halves, NoneAssumption
<1>1. ASSUME NEW d \in Delays, StartShutdown(d) PROVE DaemonInv'
  <2>1. left' \in Int /\ left' >= Minute
    BY <1>1, Minutes DEF StartShutdown
  <2>2. Removed(calls) = <<>>
    BY RemovedCall
  <2>3. left = None => calls = <<>>
    BY DEF DaemonInv, Pending
  <2>4. calls' = <<Minute>>
    <3>1. calls' = Append(<<>>, Minute)
      BY <1>1, <2>2, <2>3, Zenon DEF StartShutdown
    <3> QED
      BY <3>1, ShortSequences
  <2>5. Pending(Minute)'
    <3>1. down' = 0
      BY <1>1 DEF StartShutdown, Up
    <3>2. left' # None /\ left' >= Minute - Half
      BY <2>1
    <3> QED
      BY <2>4, <3>1, <3>2 DEF Pending
  <2>6. down' \in 0 .. MaxDown + 1
    BY <1>1 DEF StartShutdown, DaemonInv
  <2>7. left' >= Floor /\ left' \in Int
    BY <2>1 DEF Floor
  <2>8. calls' # <<>> /\ down' = 0 /\ Minute \in -MaxLag .. Minute
    BY <2>4, <2>5, ShortSequences DEF Pending
  <2> QED
    BY <2>5, <2>6, <2>7, <2>8 DEF DaemonInv
<1>2. CASE ShutdownNow
  BY <1>2 DEF ShutdownNow, Halt, Ended, Forgotten, DaemonInv
<1>3. CASE StopShutdown
  <2>1. calls' = <<>>
    BY <1>3, RemovedCall DEF StopShutdown
  <2> QED
    BY <1>3, <2>1 DEF StopShutdown, DaemonInv
<1>4. CASE CountDown
  <2>1. PICK k \in -MaxLag .. Minute : Pending(k)
    BY <1>4 DEF CountDown, DaemonInv
  <2>2. DOMAIN calls = {1} /\ RemoveAt(calls, 1) = <<>>
    <3>1. k \in Int
      OBVIOUS
    <3> QED
      BY <2>1, <3>1, ShortSequences, Zenon DEF Pending
  <2>3. CASE Ends(left) /\ Halt
    BY <2>3 DEF Halt, Ended, Forgotten, DaemonInv
  <2>4. CASE Ends(left) /\ calls' = <<>> /\ UNCHANGED <<left, down>>
    BY <2>4 DEF Ends, DaemonInv
  <2>5. CASE ~Ends(left) /\ calls' = Append(<<>>, Minute)
             /\ UNCHANGED <<left, down>>
    <3>1. calls' = <<Minute>> /\ calls' # <<>>
      BY <2>5, ShortSequences
    <3>2. Pending(Minute)'
      BY <2>1, <2>5, <3>1 DEF Ends, Pending, DaemonInv
    <3>3. Minute \in -MaxLag .. Minute
      OBVIOUS
    <3> QED
      BY <2>1, <2>5, <3>1, <3>2, <3>3 DEF DaemonInv, Pending
  <2> QED
    BY <1>4, <2>2, <2>3, <2>4, <2>5 DEF CountDown
<1>5. CASE Tick
  <2>1. CASE calls = <<>>
    <3>1. calls' = <<>>
      BY <1>5, <2>1 DEF Tick, CountdownPasses
    <3> QED
      BY <1>5, <2>1, <3>1
        DEF Tick, CountdownPasses, DownPasses, DaemonInv, Up, Floor
  <2>2. ASSUME NEW k \in -MaxLag .. Minute, Pending(k) PROVE DaemonInv'
    <3>1. k > -MaxLag
      BY <1>5, <2>2, ShortSequences DEF Tick, CountdownPasses, Pending
    <3>2. calls' = <<k - 1>> /\ calls' # <<>>
      BY <1>5, <2>2, ShortSequences DEF Tick, CountdownPasses, Pending
    <3>3. left' = left - 1 /\ left \in Int /\ down' = down /\ down = 0
      BY <1>5, <2>2
        DEF Tick, CountdownPasses, DownPasses, Pending, DaemonInv, Up, Floor
    <3>4. k - 1 \in -MaxLag .. Minute /\ Pending(k - 1)'
      BY <2>2, <3>1, <3>2, <3>3 DEF Pending
    <3>5. left' >= Floor /\ left' \in Int
      BY <2>2, <3>1, <3>3 DEF Pending, Floor
    <3> QED
      BY <3>2, <3>3, <3>4, <3>5 DEF DaemonInv
  <2> QED
    BY <2>1, <2>2 DEF DaemonInv
<1>6. CASE Started /\ Forgotten
  BY <1>6 DEF Started, Forgotten, DaemonInv
<1>7. CASE UNCHANGED daemonVars
  BY <1>7 DEF daemonVars, shutdownVars, DaemonInv, Pending
<1> QED
  BY <1>1, <1>2, <1>3, <1>4, <1>5, <1>6, <1>7 DEF ShutdownNext

LEMMA DaemonArmed == DaemonInv => CountdownArmed
<1> SUFFICES ASSUME DaemonInv PROVE CountdownArmed
  OBVIOUS
<1> USE Halves
<1>1. CASE calls = <<>>
  BY <1>1 DEF DaemonInv, CountdownArmed
<1>2. ASSUME NEW k \in -MaxLag .. Minute, Pending(k) PROVE CountdownArmed
  <2>1. Len(calls) = 1 /\ calls # <<>>
    BY <1>2 DEF Pending
  <2> QED
    BY <1>2, <2>1 DEF CountdownArmed, Pending, Up
<1> QED
  BY <1>1, <1>2 DEF DaemonInv

\* The step that ends the process does so in time.
LEMMA DaemonInTime ==
    ASSUME DaemonInv, CountDown, down' # 0
    PROVE  left # None /\ left < Minute - Half /\ left >= -(Half + MaxLag)
<1> USE Halves, NoneAssumption
<1>1. PICK k \in -MaxLag .. Minute : Pending(k)
  BY DEF CountDown, DaemonInv
<1>2. Ends(left)
  BY DEF CountDown, Up
<1> QED
  BY <1>1, <1>2 DEF Ends, Pending, DaemonInv

\* Every behaviour of the shutdown daemon keeps DaemonInv.
THEOREM DaemonInvariant == ShutdownSpec => []DaemonInv
BY DaemonInit, DaemonStep, PTL DEF ShutdownSpec, daemonVars

\* The daemon alone: one countdown for a shutdown that is half a minute away
\* or more, and none without a shutdown.
THEOREM DaemonCountdownArmed == ShutdownSpec => []CountdownArmed
BY DaemonInvariant, DaemonArmed, PTL

-----------------------------------------------------------------------------
(* With the event daemon, crashes and reboots.                             *)

\* A step of the two daemons and the process is one of the shutdown daemon or
\* leaves it alone.  A boot is one because a process that is down has neither
\* shutdown nor call_outs left, which DaemonInv says.
LEMMA RebootStep ==
    DaemonInv /\ [Next]_vars => [ShutdownNext]_daemonVars
<1> SUFFICES ASSUME DaemonInv, [Next]_vars PROVE [ShutdownNext]_daemonVars
  OBVIOUS
<1>1. ASSUME NEW d \in Delays, Counting(StartShutdown(d))
      PROVE  ShutdownNext
  BY <1>1 DEF Counting, ShutdownNext
<1>2. CASE Counting(ShutdownNow) \/ Counting(StopShutdown) \/ Counting(CountDown)
  BY <1>2 DEF Counting, ShutdownNext
<1>3. CASE UNCHANGED <<down, shutdownVars>>
  BY <1>3 DEF daemonVars
<1>4. CASE ScheduledShutdown
  BY <1>4 DEF ScheduledShutdown, ShutdownNext
<1>5. CASE Crash
  BY <1>5 DEF Crash, ShutdownNow, ShutdownNext
<1>6. CASE Boot
  <2>1. Started /\ UNCHANGED shutdownVars
    BY <1>6 DEF Boot, Preload
  <2>2. Forgotten
    BY <2>1 DEF Started, DaemonInv, Up, Forgotten, shutdownVars
  <2> QED
    BY <2>1, <2>2 DEF ShutdownNext
<1>7. CASE Pass
  BY <1>7 DEF Pass, ShutdownNext
<1>8. CASE UNCHANGED vars
  BY <1>8 DEF vars, daemonVars
<1>9. \/ Scheduling(StartSweep) \/ Scheduling(CheckNext)
      \/ Scheduling(Perform) \/ Scheduling(RunAway) \/ Scheduling(Drop)
      \/ Scheduling(Update)
      \/ \E t \in Types, e \in Events, in \in Plans :
            Scheduling(Schedule(t, e, in))
      \/ \E t \in Types, n \in 1..Cardinality(Events) :
            Scheduling(Unschedule(t, n))
      => UNCHANGED <<down, shutdownVars>>
  BY DEF Scheduling
<1> QED
  BY <1>1, <1>2, <1>3, <1>4, <1>5, <1>6, <1>7, <1>8, <1>9 DEF Next

LEMMA RebootInvariant == Spec => []DaemonInv
<1>1. Init => DaemonInv
  BY DaemonInit DEF Init
<1>2. DaemonInv /\ [Next]_vars => DaemonInv'
  BY RebootStep, DaemonStep
<1> QED
  BY <1>1, <1>2, PTL DEF Spec

\* The composition implements the shutdown daemon: neither a sweep that is
\* cut short nor a crash takes its countdown apart.
THEOREM RebootRefinesShutdown == Spec => ShutdownSpec
<1>1. Init => down = 0 /\ ShutdownInit
  BY DEF Init
<1> QED
  BY <1>1, RebootInvariant, RebootStep, PTL DEF Spec, ShutdownSpec, daemonVars

\* Whatever is announced, changed, cancelled, performed, lost or started
\* again, a shutdown that is half a minute away or more is counted down,
\* once, and no countdown is left without one.
THEOREM CountdownIsArmed == Spec => []CountdownArmed
BY RebootInvariant, DaemonArmed, PTL

\* The countdown ends the process in time, however late its call_outs, and
\* never for a shutdown that was cancelled.
THEOREM ShutdownsAreOnTime == Spec => OnTime
<1>1. DaemonInv /\ [Next]_vars
        => [CountDown /\ down' # 0 =>
               left # None /\ left < Minute - Half /\ left >= -(Half + MaxLag)
           ]_<<down, shutdownVars>>
  BY DaemonInTime
<1> QED
  BY <1>1, RebootInvariant, PTL DEF Spec, OnTime

-----------------------------------------------------------------------------
(* The event daemon *)

Entry == [what : Events, in : Int]

\* An event is scheduled once at a time, whatever its queue.
Once == \A t, u \in Types : \A i \in DOMAIN stack[t], j \in DOMAIN stack[u] :
           stack[t][i].what = stack[u][j].what => t = u /\ i = j

\* A queued event is due later than it was performed last, or it has just
\* been performed and is at the head of the queue being swept.
Later(t, i) == \/ ran[stack[t][i].what] = None
               \/ ran[stack[t][i].what] < stack[t][i].in
Running(t, i) == /\ dropping /\ t = Order[sweep] /\ i = 1
                 /\ ran[stack[t][i].what] <= stack[t][i].in
Fresh == \A t \in Types : \A i \in DOMAIN stack[t] : Later(t, i) \/ Running(t, i)

EventsInv ==
    /\ stack \in [Types -> Seq(Entry)] /\ file = stack
    /\ \A t \in Types : InOrder(stack[t])
    /\ timer \in -MaxLag .. Interval
    /\ sweep \in 0 .. Len(Order) /\ (dropping => sweep > 0)
    /\ {dropping, trusted} \subseteq BOOLEAN
    /\ ran \in [Events -> (-Ignore .. 0) \cup {None}]
    /\ Once
    /\ Up => Fresh

IInv == DaemonInv /\ EventsInv /\ crashes \in 0 .. MaxCrashes

-----------------------------------------------------------------------------
(* Sequences of events.                                                    *)

LEMMA HeadTail ==
    ASSUME NEW q \in Seq(Entry), q # <<>>
    PROVE  /\ Head(q) = q[1] /\ Head(q) \in Entry /\ 1 \in DOMAIN q
           /\ Tail(q) \in Seq(Entry)
           /\ \A i \in DOMAIN Tail(q) : i + 1 \in DOMAIN q /\ Tail(q)[i] = q[i + 1]
           /\ \A i \in DOMAIN q \ {1} :
                 i - 1 \in DOMAIN Tail(q) /\ Tail(q)[i - 1] = q[i]
OBVIOUS

LEMMA RemovedEntry ==
    ASSUME NEW q \in Seq(Entry), NEW n \in DOMAIN q
    PROVE  /\ RemoveAt(q, n) \in Seq(Entry)
           /\ DOMAIN RemoveAt(q, n) = 1 .. Len(q) - 1
           /\ \A i \in DOMAIN RemoveAt(q, n) :
                 RemoveAt(q, n)[i] = IF i < n THEN q[i] ELSE q[i + 1]
<1> DEFINE a == SubSeq(q, 1, n - 1)
           b == SubSeq(q, n + 1, Len(q))
<1>1. n \in 1 .. Len(q) /\ Len(q) \in Nat
  OBVIOUS
<1>2. /\ a \in Seq(Entry) /\ Len(a) = n - 1
      /\ \A i \in 1 .. n - 1 : a[i] = q[i]
  BY <1>1
<1>3. /\ b \in Seq(Entry) /\ Len(b) = Len(q) - n
      /\ \A i \in 1 .. Len(q) - n : b[i] = q[i + n]
  BY <1>1
<1>4. RemoveAt(q, n) = a \o b
  BY DEF RemoveAt
<1> HIDE DEF a, b
<1>5. /\ a \o b \in Seq(Entry) /\ Len(a \o b) = Len(q) - 1
      /\ \A i \in 1 .. Len(q) - 1 :
            (a \o b)[i] = IF i < n THEN a[i] ELSE b[i - (n - 1)]
  <2>1. /\ a \o b \in Seq(Entry) /\ Len(a \o b) = Len(a) + Len(b)
        /\ \A i \in 1 .. Len(a) + Len(b) :
              (a \o b)[i] = IF i <= Len(a) THEN a[i] ELSE b[i - Len(a)]
    BY <1>2, <1>3, ConcatProperties
  <2>2. Len(a) + Len(b) = Len(q) - 1 /\ \A i \in Int : i <= Len(a) <=> i < n
    BY <1>1, <1>2, <1>3
  <2> QED
    BY <2>1, <2>2, <1>2
<1>6. ASSUME NEW i \in 1 .. Len(q) - 1
      PROVE  (a \o b)[i] = IF i < n THEN q[i] ELSE q[i + 1]
  <2>1. CASE i < n
    BY <2>1, <1>1, <1>2, <1>5
  <2>2. CASE ~(i < n)
    <3>1. i - (n - 1) \in 1 .. Len(q) - n /\ (i - (n - 1)) + n = i + 1
      BY <2>2, <1>1
    <3> QED
      BY <2>2, <3>1, <1>3, <1>5
  <2> QED
    BY <2>1, <2>2
<1>7. DOMAIN (a \o b) = 1 .. Len(q) - 1
  BY <1>5
<1> QED
  BY <1>4, <1>5, <1>6, <1>7

\* sort_array() moves events, but loses, doubles and makes none up.
LEMMA AddedEntries ==
    ASSUME NEW q \in Seq(Entry), NEW event \in Entry, NEW s \in AddedTo(q, event)
    PROVE  /\ s \in Seq(Entry) /\ InOrder(s)
           /\ \A i \in DOMAIN s :
                 s[i] = event \/ \E j \in DOMAIN q : s[i] = q[j]
           /\ \E i \in DOMAIN s : s[i] = event
           /\ \A j \in DOMAIN q : \E i \in DOMAIN s : s[i] = q[j]
           /\ \A i, j \in DOMAIN s : s[i] = s[j] => i = j
<1> DEFINE p == Append(q, event)
           S == Range(p)
           D == 1 .. Cardinality(S)
<1>1. /\ p \in Seq(Entry) /\ Len(p) = Len(q) + 1 /\ Len(q) \in Nat
      /\ \A i \in 1 .. Len(q) : p[i] = q[i]
      /\ p[Len(q) + 1] = event
      /\ DOMAIN q = 1 .. Len(q) /\ DOMAIN p = 1 .. Len(q) + 1
  OBVIOUS
<1> HIDE DEF p
<1>2. /\ event \in S
      /\ \A j \in DOMAIN q : q[j] \in S
      /\ \A x \in S : x = event \/ \E j \in DOMAIN q : x = q[j]
  BY <1>1 DEF Range
<1>3. S \subseteq Entry
  BY <1>1 DEF Range
<1>4. IsFiniteSet(S)
  <2>1. p \in Surjection(1 .. Len(p), S)
    <3>1. p \in [1 .. Len(p) -> S]
      BY <1>1 DEF Range
    <3>2. \A x \in S : \E i \in 1 .. Len(p) : p[i] = x
      BY <1>1 DEF Range
    <3> QED
      BY <3>1, <3>2 DEF Surjection
  <2>2. IsFiniteSet(1 .. Len(p))
    BY <1>1, FS_Interval
  <2> QED
    BY <2>1, <2>2, FS_Surjection
<1>5. s \in [D -> S] /\ InOrder(s)
      /\ \A i, j \in D : i # j => s[i] # s[j]
  BY DEF AddedTo, SetToSeqs, p
<1>6. Cardinality(S) \in Nat
  BY <1>4, FS_CardinalityType
<1> HIDE DEF S
<1>7. s \in Surjection(D, S)
  <2>1. s \in Injection(D, S)
    BY <1>5 DEF Injection, IsInjective
  <2>2. Cardinality(D) = Cardinality(S)
    BY <1>6, FS_Interval
  <2> QED
    BY <2>1, <2>2, <1>4, FS_Injection
<1>8. s \in Seq(Entry) /\ DOMAIN s = D
  BY <1>3, <1>5, <1>6
<1>9. \A x \in S : \E i \in DOMAIN s : s[i] = x
  BY <1>7, <1>8 DEF Surjection
<1> QED
  BY <1>2, <1>5, <1>8, <1>9

-----------------------------------------------------------------------------
(* The invariant step by step.                                             *)

LEMMA SweepBegins ==
    /\ Interval \in -MaxLag .. Interval
    /\ sweep \in 0 .. Len(Order) => (sweep + 1) % (Len(Order) + 1) \in 0 .. Len(Order)
    /\ Len(Order) \in Nat /\ 1 \in 0 .. Len(Order)
BY EventsAssumption, LagAssumption

LEMMA EventsStart == Init => EventsInv
<1> SUFFICES ASSUME EventsInit PROVE EventsInv
  BY DEF Init
<1>1. \A t \in Types : stack[t] = <<>> /\ DOMAIN stack[t] = {}
  BY DEF EventsInit
<1>2. stack \in [Types -> Seq(Entry)] /\ file = stack
  BY DEF EventsInit
<1>3. (\A t \in Types : InOrder(stack[t])) /\ Once /\ Fresh
  BY <1>1 DEF InOrder, Once, Fresh
<1>4. /\ timer \in -MaxLag .. Interval /\ sweep \in 0 .. Len(Order)
      /\ ~dropping /\ {dropping, trusted} \subseteq BOOLEAN
      /\ ran \in [Events -> (-Ignore .. 0) \cup {None}]
  <2>1. timer = Interval /\ sweep = 0 /\ dropping = FALSE /\ trusted = TRUE
    BY DEF EventsInit
  <2>2. ran \in [Events -> (-Ignore .. 0) \cup {None}]
    BY DEF EventsInit
  <2>3. ~dropping /\ {dropping, trusted} \subseteq BOOLEAN
    BY <2>1, Zenon
  <2>4. timer \in -MaxLag .. Interval /\ sweep \in 0 .. Len(Order)
    BY <2>1, SweepBegins
  <2> QED
    BY <2>2, <2>3, <2>4, Zenon
<1> QED
  BY <1>2, <1>3, <1>4 DEF EventsInv

\* The process ends.
LEMMA LostStep ==
    ASSUME EventsInv, EventsLost, down' # 0 PROVE EventsInv'
<1>1. stack' = stack /\ file' = stack'
  BY DEF EventsInv, EventsLost
<1>2. Once'
  BY <1>1 DEF EventsInv, Once
<1>3. /\ timer' \in -MaxLag .. Interval /\ sweep' \in 0 .. Len(Order)
      /\ dropping' = FALSE /\ UNCHANGED <<trusted, ran>>
  BY EventsAssumption, LagAssumption DEF EventsLost
<1>4. \A t \in Types : InOrder(stack[t])'
  BY <1>1 DEF EventsInv, InOrder
<1> QED
  BY <1>1, <1>2, <1>3, <1>4 DEF EventsInv, Up

\* Steps between events: the sweep goes on, begins or breaks off.
LEMMA QuietStep ==
    ASSUME EventsInv, UNCHANGED <<stack, file, ran, down>>,
           ~dropping, dropping' = FALSE, trusted' \in BOOLEAN,
           timer' \in -MaxLag .. Interval, sweep' \in 0 .. Len(Order)
    PROVE  EventsInv'
<1>1. Once'
  BY DEF EventsInv, Once
<1>2. Up => Fresh'
  BY DEF EventsInv, Fresh, Later, Running
<1> QED
  BY <1>1, <1>2 DEF EventsInv, InOrder, Up

LEMMA SweptQueue ==
    ASSUME EventsInv, ~Idle
    PROVE  Order[sweep] \in Types /\ Queue \in Seq(Entry) /\ InOrder(Queue)
BY EventsAssumption DEF EventsInv, Idle, Queue

\* perform_event() returns: the event is exempt until it is dropped.
LEMMA PerformStep ==
    ASSUME EventsInv, Perform, UNCHANGED down PROVE EventsInv'
<1> DEFINE q == Queue
<1>1. /\ Up /\ ~Idle /\ ~dropping /\ q # <<>> /\ Due(Head(q))
      /\ dropping' = TRUE
      /\ ran' = [ran EXCEPT ![Head(q).what] = Head(q).in]
      /\ UNCHANGED <<stack, file, timer, sweep, trusted>>
  BY DEF Perform, Performs, Performed
<1>2. /\ Order[sweep] \in Types /\ q = stack[Order[sweep]] /\ 1 \in DOMAIN q
      /\ Head(q) = q[1] /\ q[1] \in Entry
  BY <1>1, SweptQueue, HeadTail DEF Queue
<1> HIDE DEF q
<1>3. ran' \in [Events -> (-Ignore .. 0) \cup {None}]
  <2>1. q[1].in \in -Ignore .. 0
    BY <1>1, <1>2, EventsAssumption DEF Due, Entry
  <2> QED
    BY <1>1, <1>2, <2>1 DEF EventsInv, Entry
<1>4. Fresh'
  <2> SUFFICES ASSUME NEW t \in Types, NEW i \in DOMAIN stack[t]
               PROVE  Later(t, i)' \/ Running(t, i)'
    BY <1>1 DEF Fresh
  <2>1. CASE t = Order[sweep] /\ i = 1
    <3>1. ran'[stack[t][i].what] = stack[t][i].in /\ stack[t][i].in \in Int
      BY <2>1, <1>1, <1>2 DEF EventsInv, Entry
    <3> QED
      BY <2>1, <3>1, <1>1 DEF Running
  <2>2. CASE ~(t = Order[sweep] /\ i = 1)
    <3>1. stack[t][i].what # q[1].what
      BY <2>2, <1>2 DEF EventsInv, Once
    <3>2. Later(t, i)
      BY <1>1, <2>2 DEF EventsInv, Fresh, Running
    <3> QED
      BY <3>1, <3>2, <1>1, <1>2 DEF Later, EventsInv
  <2> QED
    BY <2>1, <2>2
<1>5. Once'
  BY <1>1 DEF EventsInv, Once
<1> QED
  BY <1>1, <1>3, <1>4, <1>5 DEF EventsInv, InOrder, Idle

\* A periodic event that is put back.
LEMMA PutOff ==
    ASSUME NEW e \in Entry, NEW p \in Nat
    PROVE  /\ [e EXCEPT !.in = @ + p] \in Entry
           /\ [e EXCEPT !.in = @ + p].what = e.what
           /\ [e EXCEPT !.in = @ + p].in = e.in + p
BY DEF Entry

\* What the queue being swept is left with, when its head is dropped.
LEMMA DropEntries ==
    ASSUME EventsInv, Drop
    PROVE  \E r \in Seq(Entry) :
             LET t == Order[sweep]
                 q == stack[t]
             IN  /\ t \in Types /\ 1 \in DOMAIN q
                 /\ stack' = [stack EXCEPT ![t] = r] /\ file' = stack'
                 /\ InOrder(r)
                 /\ \A i \in DOMAIN r :
                      \/ \E j \in DOMAIN q \ {1} : r[i] = q[j]
                      \/ /\ r[i].what = q[1].what /\ Period[t] > 0
                         /\ r[i].in = q[1].in + Period[t]
                 /\ \A i, j \in DOMAIN r : r[i].what = r[j].what => i = j
                 /\ t \in Periodic /\ trusted =>
                      \A j \in DOMAIN q : \E i \in DOMAIN r : r[i].what = q[j].what
<1> DEFINE t == Order[sweep]
           q == stack[t]
           event == [q[1] EXCEPT !.in = @ + Period[t]]
<1>1. ~Idle /\ Queue = q /\ q # <<>>
  BY DEF Drop, Queue
<1>2. t \in Types /\ q \in Seq(Entry) /\ InOrder(q) /\ Period[t] \in Nat
  BY <1>1, SweptQueue, EventsAssumption DEF Queue
<1>3. /\ Head(q) = q[1] /\ q[1] \in Entry /\ 1 \in DOMAIN q
      /\ Tail(q) \in Seq(Entry)
      /\ \A i \in DOMAIN Tail(q) : i + 1 \in DOMAIN q /\ Tail(q)[i] = q[i + 1]
      /\ \A i \in DOMAIN q \ {1} :
            i - 1 \in DOMAIN Tail(q) /\ Tail(q)[i - 1] = q[i]
  BY <1>1, <1>2, HeadTail
<1>4. /\ event \in Entry /\ event.what = q[1].what
      /\ event.in = q[1].in + Period[t]
  BY <1>2, <1>3, PutOff
<1>5. \A i, j \in DOMAIN q : q[i].what = q[j].what => i = j
  BY <1>2 DEF EventsInv, Once
<1>6. \A i \in DOMAIN Tail(q) : i \in Nat /\ i + 1 \in DOMAIN q \ {1}
  BY <1>3
<1>7. DropHead(t)
  BY DEF Drop
<1> HIDE DEF event
<1>8. CASE t \in Periodic /\ trusted
  <2>1. PICK r \in AddedTo(Tail(q), event) : stack' = [stack EXCEPT ![t] = r]
    BY <1>3, <1>7, <1>8 DEF DropHead, event
  <2>2. /\ r \in Seq(Entry) /\ InOrder(r)
        /\ \A i \in DOMAIN r :
              r[i] = event \/ \E j \in DOMAIN Tail(q) : r[i] = Tail(q)[j]
        /\ \E i \in DOMAIN r : r[i] = event
        /\ \A j \in DOMAIN Tail(q) : \E i \in DOMAIN r : r[i] = Tail(q)[j]
        /\ \A i, j \in DOMAIN r : r[i] = r[j] => i = j
    BY <1>3, <1>4, AddedEntries
  <2>3. ASSUME NEW i \in DOMAIN r
        PROVE  r[i] = event \/ \E j \in DOMAIN q \ {1} : r[i] = q[j]
    BY <2>2, <1>3, <1>6
  <2>4. ASSUME NEW i \in DOMAIN r, NEW j \in DOMAIN r, r[i].what = r[j].what
        PROVE  i = j
    <3>1. r[i] = r[j]
      BY <2>3, <2>4, <1>3, <1>4, <1>5
    <3> QED
      BY <3>1, <2>2
  <2>5. ASSUME NEW j \in DOMAIN q
        PROVE  \E i \in DOMAIN r : r[i].what = q[j].what
    <3>1. CASE j = 1
      BY <3>1, <2>2, <1>4
    <3>2. CASE j # 1
      <4>1. j - 1 \in DOMAIN Tail(q) /\ Tail(q)[j - 1] = q[j]
        BY <3>2, <1>3
      <4> QED
        BY <4>1, <2>2
    <3> QED
      BY <3>1, <3>2
  <2>6. Period[t] > 0 /\ file' = stack'
    BY <1>7, <1>8 DEF Periodic, DropHead
  <2>7. \A i \in DOMAIN r :
           \/ \E j \in DOMAIN q \ {1} : r[i] = q[j]
           \/ /\ r[i].what = q[1].what /\ Period[t] > 0
              /\ r[i].in = q[1].in + Period[t]
    BY <2>3, <2>6, <1>4
  <2> HIDE DEF t, q
  <2>8. r \in Seq(Entry) /\ InOrder(r)
    BY <2>2
  <2> QED
    BY <1>2, <1>3, <2>1, <2>4, <2>5, <2>6, <2>7, <2>8, Zenon DEF t, q
<1>9. CASE ~(t \in Periodic /\ trusted)
  <2> DEFINE r == Tail(q)
  <2>1. stack' = [stack EXCEPT ![t] = r] /\ file' = stack'
    BY <1>7, <1>9 DEF DropHead
  <2>2. InOrder(r)
    <3>1. \A i, j \in DOMAIN r : i < j => q[i + 1].in <= q[j + 1].in
      <4> SUFFICES ASSUME NEW i \in DOMAIN r, NEW j \in DOMAIN r, i < j
                   PROVE  q[i + 1].in <= q[j + 1].in
        OBVIOUS
      <4>1. i + 1 \in DOMAIN q /\ j + 1 \in DOMAIN q /\ i + 1 < j + 1
        BY <1>6
      <4> QED
        BY <4>1, <1>2 DEF InOrder
    <3> QED
      BY <3>1, <1>3 DEF InOrder
  <2>3. \A i \in DOMAIN r : \E j \in DOMAIN q \ {1} : r[i] = q[j]
    BY <1>3, <1>6
  <2>4. \A i, j \in DOMAIN r : r[i].what = r[j].what => i = j
    <3> SUFFICES ASSUME NEW i \in DOMAIN r, NEW j \in DOMAIN r,
                        r[i].what = r[j].what
                 PROVE  i = j
      OBVIOUS
    <3>1. i + 1 = j + 1
      BY <1>3, <1>5
    <3> QED
      BY <3>1, <1>6
  <2> HIDE DEF r
  <2>5. r \in Seq(Entry)
    BY <1>3 DEF r
  <2> QED
    BY <1>2, <1>3, <1>9, <2>1, <2>2, <2>3, <2>4, <2>5
<1> QED
  BY <1>8, <1>9

LEMMA DropStep ==
    ASSUME EventsInv, Drop, UNCHANGED down PROVE EventsInv'
<1> DEFINE t == Order[sweep]
           q == stack[t]
<1>1. PICK r \in Seq(Entry) :
        /\ t \in Types /\ 1 \in DOMAIN q
        /\ stack' = [stack EXCEPT ![t] = r] /\ file' = stack'
        /\ InOrder(r)
        /\ \A i \in DOMAIN r :
             \/ \E j \in DOMAIN q \ {1} : r[i] = q[j]
             \/ /\ r[i].what = q[1].what /\ Period[t] > 0
                /\ r[i].in = q[1].in + Period[t]
        /\ \A i, j \in DOMAIN r : r[i].what = r[j].what => i = j
  BY DropEntries
<1>2. /\ Up /\ Up' /\ dropping' = FALSE
      /\ UNCHANGED <<timer, sweep, trusted, ran>>
  BY DEF Drop, Up
<1>3. q \in Seq(Entry) /\ Period[t] \in Nat
  BY <1>1, EventsAssumption DEF EventsInv
<1> HIDE DEF t
<1>4. stack'[t] = r /\ \A u \in Types \ {t} : stack'[u] = stack[u]
  BY <1>1 DEF EventsInv
<1>5. \A i \in DOMAIN r : \E j \in DOMAIN q : r[i].what = q[j].what
  BY <1>1
<1>6. Once'
  <2> SUFFICES ASSUME NEW u \in Types, NEW v \in Types,
                      NEW i \in DOMAIN stack'[u], NEW j \in DOMAIN stack'[v],
                      stack'[u][i].what = stack'[v][j].what
               PROVE  u = v /\ i = j
    BY DEF Once
  <2>1. CASE u = t /\ v = t
    BY <2>1, <1>1, <1>4
  <2>2. CASE u = t /\ v # t
    <3>1. PICK k \in DOMAIN q : r[i].what = q[k].what
      BY <2>2, <1>4, <1>5
    <3> QED
      BY <2>2, <3>1, <1>1, <1>4 DEF EventsInv, Once
  <2>3. CASE u # t /\ v = t
    <3>1. PICK k \in DOMAIN q : r[j].what = q[k].what
      BY <2>3, <1>4, <1>5
    <3> QED
      BY <2>3, <3>1, <1>1, <1>4 DEF EventsInv, Once
  <2>4. CASE u # t /\ v # t
    BY <2>4, <1>4 DEF EventsInv, Once
  <2> QED
    BY <2>1, <2>2, <2>3, <2>4
<1>7. Fresh'
  <2> SUFFICES ASSUME NEW u \in Types, NEW i \in DOMAIN stack'[u]
               PROVE  Later(u, i)'
    BY DEF Fresh
  <2>1. CASE u # t
    <3>1. Later(u, i)
      BY <2>1, <1>2, <1>4 DEF EventsInv, Fresh, Running, t
    <3> QED
      BY <2>1, <3>1, <1>2, <1>4 DEF Later
  <2>2. CASE u = t
    <3>1. i \in DOMAIN r /\ stack'[u][i] = r[i]
      BY <2>2, <1>4
    <3>2. CASE \E j \in DOMAIN q \ {1} : r[i] = q[j]
      <4>1. PICK j \in DOMAIN q \ {1} : r[i] = q[j]
        BY <3>2
      <4>2. Later(t, j)
        BY <4>1, <1>1, <1>2 DEF EventsInv, Fresh, Running
      <4> QED
        BY <4>1, <4>2, <3>1, <1>2 DEF Later
    <3>3. CASE /\ r[i].what = q[1].what /\ Period[t] > 0
               /\ r[i].in = q[1].in + Period[t]
      <4>1. Later(t, 1) \/ Running(t, 1)
        BY <1>1, <1>2 DEF EventsInv, Fresh
      <4>2. q[1].in \in Int /\ q[1].what \in Events
        <5>1. q[1] \in Entry
          BY <1>1, <1>3
        <5> QED
          BY <5>1 DEF Entry
      <4>3. ran[q[1].what] = None \/ ran[q[1].what] \in Int
        BY <4>2 DEF EventsInv
      <4>4. ran[q[1].what] = None \/ ran[q[1].what] <= q[1].in
        BY <4>1, <4>2, <4>3 DEF Later, Running
      <4>5. ran[r[i].what] = None \/ ran[r[i].what] < r[i].in
        BY <3>3, <4>2, <4>3, <4>4, <1>3
      <4> QED
        BY <4>5, <3>1, <1>2 DEF Later
    <3> QED
      BY <3>1, <3>2, <3>3, <1>1
  <2> QED
    BY <2>1, <2>2
<1>8. stack' \in [Types -> Seq(Entry)] /\ \A u \in Types : InOrder(stack'[u])
  BY <1>1, <1>4 DEF EventsInv
<1> QED
  BY <1>1, <1>2, <1>6, <1>7, <1>8 DEF EventsInv

LEMMA ScheduleStep ==
    ASSUME EventsInv, NEW t \in Types, NEW e \in Events, NEW in \in Plans,
           Schedule(t, e, in), UNCHANGED down
    PROVE  EventsInv'
<1> DEFINE q == stack[t]
           event == [what |-> e, in |-> in]
<1>1. /\ Up /\ Idle
      /\ \A u \in Types : ~Queued(stack, u, e)
      /\ UNCHANGED <<timer, sweep, dropping, trusted, ran>>
      /\ file' = stack'
  BY DEF Schedule, AddEvent
<1>2. PICK r \in AddedTo(q, event) : stack' = [stack EXCEPT ![t] = r]
  BY DEF Schedule, AddEvent
<1>3. q \in Seq(Entry) /\ event \in Entry /\ in \in Int /\ in > 0
      /\ event.what = e /\ event.in = in
  <2>1. in \in Int /\ in > 0
    BY EventsAssumption
  <2>2. q \in Seq(Entry)
    BY DEF EventsInv
  <2>3. event \in Entry /\ event.what = e /\ event.in = in
    BY <2>1 DEF Entry
  <2> QED
    BY <2>1, <2>2, <2>3
<1> HIDE DEF event
<1>4. /\ r \in Seq(Entry) /\ InOrder(r)
      /\ \A i \in DOMAIN r : r[i] = event \/ \E j \in DOMAIN q : r[i] = q[j]
      /\ \A i, j \in DOMAIN r : r[i] = r[j] => i = j
  BY <1>2, <1>3, AddedEntries
<1>5. stack'[t] = r /\ \A u \in Types \ {t} : stack'[u] = stack[u]
  BY <1>2 DEF EventsInv
<1>6. \A u \in Types : \A i \in DOMAIN stack[u] : stack[u][i].what # e
  BY <1>1 DEF Queued
<1>7. \A i, j \in DOMAIN q : q[i].what = q[j].what => i = j
  BY DEF EventsInv, Once
<1>8. ~dropping
  BY <1>1 DEF EventsInv, Idle
<1>9. Once'
  <2> SUFFICES ASSUME NEW u \in Types, NEW v \in Types,
                      NEW i \in DOMAIN stack'[u], NEW j \in DOMAIN stack'[v],
                      stack'[u][i].what = stack'[v][j].what
               PROVE  u = v /\ i = j
    BY DEF Once
  <2>1. CASE u = t /\ v = t
    <3>1. r[i] = r[j]
      BY <2>1, <1>3, <1>4, <1>5, <1>6, <1>7
    <3> QED
      BY <2>1, <3>1, <1>4, <1>5
  <2>2. CASE u = t /\ v # t
    <3>1. r[i].what = stack[v][j].what /\ j \in DOMAIN stack[v]
      BY <2>2, <1>5
    <3>2. PICK k \in DOMAIN q : r[i] = q[k]
      BY <2>2, <3>1, <1>3, <1>4, <1>5, <1>6
    <3> QED
      BY <2>2, <3>1, <3>2 DEF EventsInv, Once
  <2>3. CASE u # t /\ v = t
    <3>1. r[j].what = stack[u][i].what /\ i \in DOMAIN stack[u]
      BY <2>3, <1>5
    <3>2. PICK k \in DOMAIN q : r[j] = q[k]
      BY <2>3, <3>1, <1>3, <1>4, <1>5, <1>6
    <3> QED
      BY <2>3, <3>1, <3>2 DEF EventsInv, Once
  <2>4. CASE u # t /\ v # t
    BY <2>4, <1>5 DEF EventsInv, Once
  <2> QED
    BY <2>1, <2>2, <2>3, <2>4
<1>10. \A u \in Types : \A i \in DOMAIN stack[u] : Later(u, i)
  BY <1>1, <1>8 DEF EventsInv, Fresh, Running
<1>11. Fresh'
  <2> SUFFICES ASSUME NEW u \in Types, NEW i \in DOMAIN stack'[u]
               PROVE  Later(u, i)'
    BY DEF Fresh
  <2>1. CASE u # t
    BY <2>1, <1>1, <1>5, <1>10 DEF Later
  <2>2. CASE u = t /\ r[i] = event
    <3>1. ran[e] = None \/ ran[e] < in
      BY <1>3, EventsAssumption DEF EventsInv
    <3> QED
      BY <2>2, <3>1, <1>1, <1>3, <1>5 DEF Later
  <2>3. CASE u = t /\ r[i] # event
    <3>1. PICK j \in DOMAIN q : r[i] = q[j]
      BY <2>3, <1>4, <1>5
    <3> QED
      BY <2>3, <3>1, <1>1, <1>5, <1>10 DEF Later
  <2> QED
    BY <2>1, <2>2, <2>3
<1>12. stack' \in [Types -> Seq(Entry)] /\ \A u \in Types : InOrder(stack'[u])
  BY <1>2, <1>4, <1>5 DEF EventsInv
<1> QED
  BY <1>1, <1>9, <1>11, <1>12 DEF EventsInv

LEMMA UnscheduleStep ==
    ASSUME EventsInv, NEW t \in Types, NEW n, Unschedule(t, n), UNCHANGED down
    PROVE  EventsInv'
<1> DEFINE q == stack[t]
           r == RemoveAt(q, n)
           From == [i \in DOMAIN r |-> IF i < n THEN i ELSE i + 1]
<1>1. /\ Up /\ Idle /\ n \in DOMAIN q
      /\ stack' = [stack EXCEPT ![t] = r] /\ file' = stack'
      /\ UNCHANGED <<timer, sweep, dropping, trusted, ran>>
  BY DEF Unschedule
<1>2. q \in Seq(Entry) /\ InOrder(q)
  BY DEF EventsInv
<1>3. /\ r \in Seq(Entry) /\ DOMAIN r = 1 .. Len(q) - 1
      /\ \A i \in DOMAIN r : r[i] = IF i < n THEN q[i] ELSE q[i + 1]
  BY <1>1, <1>2, RemovedEntry
<1> HIDE DEF r
<1>4. \A i \in DOMAIN r : From[i] \in DOMAIN q /\ r[i] = q[From[i]]
  BY <1>1, <1>2, <1>3
<1>5. \A i, j \in DOMAIN r :
         (i < j => From[i] < From[j]) /\ (From[i] = From[j] => i = j)
  BY <1>1, <1>2, <1>3
<1> HIDE DEF From
<1>6. stack'[t] = r /\ \A u \in Types \ {t} : stack'[u] = stack[u]
  BY <1>1 DEF EventsInv
<1>7. InOrder(r)
  <2> SUFFICES ASSUME NEW i \in DOMAIN r, NEW j \in DOMAIN r, i < j
               PROVE  r[i].in <= r[j].in
    BY DEF InOrder
  <2>1. /\ From[i] \in DOMAIN q /\ From[j] \in DOMAIN q /\ From[i] < From[j]
        /\ r[i] = q[From[i]] /\ r[j] = q[From[j]]
    BY <1>4, <1>5
  <2>2. q[From[i]].in <= q[From[j]].in
    BY <2>1, <1>2 DEF InOrder
  <2> QED
    BY <2>1, <2>2
<1>8. Once'
  <2> SUFFICES ASSUME NEW u \in Types, NEW v \in Types,
                      NEW i \in DOMAIN stack'[u], NEW j \in DOMAIN stack'[v],
                      stack'[u][i].what = stack'[v][j].what
               PROVE  u = v /\ i = j
    BY DEF Once
  <2>1. CASE u = t /\ v = t
    <3>1. From[i] \in DOMAIN q /\ From[j] \in DOMAIN q
          /\ q[From[i]].what = q[From[j]].what
      BY <2>1, <1>4, <1>6
    <3>2. From[i] = From[j]
      BY <3>1 DEF EventsInv, Once
    <3> QED
      BY <2>1, <3>2, <1>5, <1>6
  <2>2. CASE u = t /\ v # t
    BY <2>2, <1>4, <1>6 DEF EventsInv, Once
  <2>3. CASE u # t /\ v = t
    BY <2>3, <1>4, <1>6 DEF EventsInv, Once
  <2>4. CASE u # t /\ v # t
    BY <2>4, <1>6 DEF EventsInv, Once
  <2> QED
    BY <2>1, <2>2, <2>3, <2>4
<1>9. \A u \in Types : \A i \in DOMAIN stack[u] : Later(u, i)
  BY <1>1 DEF EventsInv, Fresh, Running, Idle
<1>10. Fresh'
  <2> SUFFICES ASSUME NEW u \in Types, NEW i \in DOMAIN stack'[u]
               PROVE  Later(u, i)'
    BY DEF Fresh
  <2>1. CASE u # t
    BY <2>1, <1>1, <1>6, <1>9 DEF Later
  <2>2. CASE u = t
    <3>1. Later(t, From[i]) /\ r[i] = q[From[i]]
      BY <2>2, <1>4, <1>6, <1>9
    <3> QED
      BY <2>2, <3>1, <1>1, <1>6 DEF Later
  <2> QED
    BY <2>1, <2>2
<1>11. stack' \in [Types -> Seq(Entry)] /\ \A u \in Types : InOrder(stack'[u])
  BY <1>1, <1>3, <1>6, <1>7 DEF EventsInv
<1> QED
  BY <1>1, <1>8, <1>10, <1>11 DEF EventsInv

\* The daemon is loaded again: nothing has been performed in this process.
LEMMA BootStep == ASSUME EventsInv, Preload PROVE EventsInv'
<1>1. /\ stack' = stack /\ file' = stack'
      /\ sweep' = 1 /\ trusted' = TRUE /\ timer' = Interval /\ dropping' = FALSE
      /\ ran' = [e \in Events |-> None]
  BY DEF Preload, Started, Create, InitiateSweep, EventsInv
<1>2. Once' /\ \A t \in Types : InOrder(stack[t])'
  BY <1>1 DEF EventsInv, Once, InOrder
<1>3. Fresh'
  <2> SUFFICES ASSUME NEW t \in Types, NEW i \in DOMAIN stack[t]
               PROVE  Later(t, i)'
    BY <1>1 DEF Fresh
  <2>1. stack[t][i] \in Entry
    BY DEF EventsInv
  <2> QED
    BY <2>1, <1>1 DEF Later, Entry
<1>4. sweep' \in 0 .. Len(Order) /\ sweep' > 0
  BY <1>1, SweepBegins
<1>5. {dropping', trusted'} \subseteq BOOLEAN
  BY <1>1, Zenon
<1> QED
  BY <1>1, <1>2, <1>3, <1>4, <1>5, SweepBegins DEF EventsInv

LEMMA PassStep == ASSUME DaemonInv, EventsInv, Pass PROVE EventsInv'
<1>1. /\ Idle /\ (Up => timer > -MaxLag)
      /\ timer' = IF Up THEN timer - 1 ELSE timer
      /\ stack' = Passed(stack) /\ file' = Passed(file)
      /\ ran' = [e \in Events |->
                    IF ran[e] = None \/ ran[e] = -Ignore THEN None
                    ELSE ran[e] - 1]
      /\ UNCHANGED <<sweep, dropping, trusted>>
  BY DEF Pass, EventsPass
<1>2. file' = stack'
  BY <1>1 DEF EventsInv
<1>3. ASSUME NEW t \in Types
      PROVE  /\ stack'[t] = [i \in DOMAIN stack[t] |->
                                [stack[t][i] EXCEPT !.in = @ - 1]]
             /\ stack'[t] \in Seq(Entry)
             /\ DOMAIN stack'[t] = DOMAIN stack[t]
             /\ \A i \in DOMAIN stack[t] :
                   /\ stack[t][i] \in Entry
                   /\ stack'[t][i].what = stack[t][i].what
                   /\ stack'[t][i].in = stack[t][i].in - 1
  <2>1. stack'[t] = [i \in DOMAIN stack[t] |->
                       [stack[t][i] EXCEPT !.in = @ - 1]]
    BY <1>1 DEF Passed
  <2>2. /\ stack[t] \in Seq(Entry) /\ DOMAIN stack[t] = 1 .. Len(stack[t])
        /\ Len(stack[t]) \in Nat
        /\ \A i \in DOMAIN stack[t] : stack[t][i] \in Entry
    BY DEF EventsInv
  <2>3. \A x \in Entry : /\ [x EXCEPT !.in = @ - 1] \in Entry
                         /\ [x EXCEPT !.in = @ - 1].what = x.what
                         /\ [x EXCEPT !.in = @ - 1].in = x.in - 1
    BY DEF Entry
  <2> QED
    BY <2>1, <2>2, <2>3
<1>4. stack' \in [Types -> Seq(Entry)]
  <2>1. stack' = [t \in Types |-> stack'[t]]
    BY <1>1 DEF Passed
  <2> QED
    BY <2>1, <1>3
<1>5. \A t \in Types : InOrder(stack'[t])
  <2> SUFFICES ASSUME NEW t \in Types, NEW i \in DOMAIN stack[t],
                      NEW j \in DOMAIN stack[t], i < j
               PROVE  stack'[t][i].in <= stack'[t][j].in
    BY <1>3 DEF InOrder
  <2>1. stack[t][i].in <= stack[t][j].in
    BY DEF EventsInv, InOrder
  <2>2. /\ stack[t][i].in \in Int /\ stack[t][j].in \in Int
        /\ stack'[t][i].in = stack[t][i].in - 1
        /\ stack'[t][j].in = stack[t][j].in - 1
    <3>1. \A k \in DOMAIN stack[t] :
             stack[t][k] \in Entry /\ stack'[t][k].in = stack[t][k].in - 1
      BY <1>3
    <3> QED
      BY <3>1 DEF Entry
  <2> QED
    BY <2>1, <2>2
<1>6. Once'
  <2>1. \A t \in Types : \A i \in DOMAIN stack'[t] :
           i \in DOMAIN stack[t] /\ stack'[t][i].what = stack[t][i].what
    BY <1>3
  <2> QED
    BY <2>1 DEF EventsInv, Once
<1>7. ran' \in [Events -> (-Ignore .. 0) \cup {None}]
  <2>1. ASSUME NEW e \in Events PROVE ran'[e] \in (-Ignore .. 0) \cup {None}
    <3>1. ran[e] \in (-Ignore .. 0) \cup {None}
      BY DEF EventsInv
    <3> QED
      BY <3>1, <1>1, EventsAssumption
  <2> QED
    BY <2>1, <1>1
<1>8. timer' \in -MaxLag .. Interval
  BY <1>1, EventsAssumption, LagAssumption DEF EventsInv
<1>9. Up' => Fresh'
  <2> SUFFICES ASSUME Up', NEW t \in Types, NEW i \in DOMAIN stack[t]
               PROVE  Later(t, i)'
    BY <1>3 DEF Fresh
  <2>1. Up
    BY DEF Pass, Tick, DownPasses, Up, DaemonInv
  <2>2. Later(t, i)
    BY <1>1, <2>1 DEF EventsInv, Fresh, Running, Idle
  <2> DEFINE x == stack[t][i]
  <2>3. /\ x.what \in Events /\ x.in \in Int
        /\ stack'[t][i].what = x.what /\ stack'[t][i].in = x.in - 1
    BY <1>3 DEF Entry
  <2>4. ran[x.what] = None \/ ran[x.what] \in Int
    BY <2>3 DEF EventsInv
  <2>5. ran'[x.what] = None \/ ran'[x.what] < x.in - 1
    BY <2>2, <2>3, <2>4, <1>1 DEF Later
  <2> QED
    BY <2>3, <2>5 DEF Later
<1> QED
  BY <1>1, <1>2, <1>4, <1>5, <1>6, <1>7, <1>8, <1>9 DEF EventsInv

-----------------------------------------------------------------------------
(* The theorems.                                                           *)

\* The shutdown daemon acts: nothing happens to the events, unless the
\* process ends.
LEMMA CountingStep ==
    ASSUME EventsInv, Up, IF down' = 0 THEN UNCHANGED eventVars ELSE EventsLost
    PROVE  EventsInv'
<1>1. CASE down' = 0
  <2>1. /\ UNCHANGED <<stack, file, timer, sweep, dropping, trusted, ran>>
        /\ UNCHANGED down
    BY <1>1 DEF eventVars, Up
  <2> QED
    BY <2>1 DEF EventsInv, InOrder, Once, Fresh, Later, Running, Up
<1>2. CASE down' # 0
  BY <1>2, LostStep
<1> QED
  BY <1>1, <1>2

LEMMA RebootInit == Init => IInv
<1>1. Init => DaemonInv
  BY DaemonInit DEF Init
<1> QED
  BY <1>1, EventsStart, CrashesAssumption DEF Init, IInv

LEMMA RebootNext == IInv /\ [Next]_vars => IInv'
<1> SUFFICES ASSUME IInv, [Next]_vars PROVE IInv'
  OBVIOUS
<1> USE DEF IInv
<1>1. DaemonInv'
  BY RebootStep, DaemonStep
<1>2. crashes' \in 0 .. MaxCrashes
  <2>1. crashes' = crashes \/ (crashes < MaxCrashes /\ crashes' = crashes + 1)
    BY DEF Next, Counting, Scheduling, ScheduledShutdown, Crash, Boot, Pass, vars
  <2> QED
    BY <2>1, CrashesAssumption
<1> SUFFICES EventsInv'
  BY <1>1, <1>2
<1>3. ASSUME NEW d \in Delays, Counting(StartShutdown(d)) PROVE EventsInv'
  BY <1>3, CountingStep DEF Counting, StartShutdown
<1>4. CASE Counting(ShutdownNow)
  BY <1>4, CountingStep DEF Counting, ShutdownNow
<1>5. CASE Counting(StopShutdown)
  BY <1>5, CountingStep DEF Counting, StopShutdown
<1>6. CASE Counting(CountDown)
  BY <1>6, CountingStep DEF Counting, CountDown
<1>7. CASE Scheduling(StartSweep)
  <2>1. /\ UNCHANGED <<stack, file, ran, down>>
        /\ dropping' = dropping /\ ~dropping
        /\ sweep' = 1 /\ timer' = Interval /\ trusted' = TRUE
    BY <1>7 DEF Scheduling, StartSweep, InitiateSweep, Idle, EventsInv
  <2>2. dropping' = FALSE /\ trusted' \in BOOLEAN
    BY <2>1, Zenon DEF EventsInv
  <2>3. timer' \in -MaxLag .. Interval /\ sweep' \in 0 .. Len(Order)
    BY <2>1, SweepBegins
  <2> QED
    BY <2>1, <2>2, <2>3, QuietStep, Zenon
<1>8. CASE Scheduling(CheckNext)
  <2>1. /\ UNCHANGED <<stack, file, ran, down, timer, trusted, dropping>>
        /\ ~dropping /\ sweep' = (sweep + 1) % (Len(Order) + 1)
    BY <1>8 DEF Scheduling, CheckNext
  <2>2. sweep' \in 0 .. Len(Order)
    BY <2>1, SweepBegins DEF EventsInv
  <2>3. dropping' = FALSE /\ trusted' \in BOOLEAN
    BY <2>1, Zenon DEF EventsInv
  <2> QED
    BY <2>1, <2>2, <2>3, QuietStep DEF EventsInv
<1>9. CASE Scheduling(Perform)
  BY <1>9, PerformStep DEF Scheduling
<1>10. CASE Scheduling(RunAway)
  <2>1. /\ UNCHANGED <<stack, file, ran, down, timer, trusted, dropping>>
        /\ ~dropping /\ sweep' = 0
    BY <1>10 DEF Scheduling, RunAway, Performs
  <2>2. dropping' = FALSE /\ trusted' \in BOOLEAN
    BY <2>1, Zenon DEF EventsInv
  <2>3. timer' \in -MaxLag .. Interval /\ sweep' \in 0 .. Len(Order)
    BY <2>1, SweepBegins DEF EventsInv
  <2>4. UNCHANGED <<stack, file, ran, down>>
    BY <2>1
  <2> QED
    BY <2>1, <2>2, <2>3, <2>4, QuietStep, Zenon
<1>11. CASE Scheduling(Drop)
  BY <1>11, DropStep DEF Scheduling
<1>12. ASSUME NEW t \in Types, NEW e \in Events, NEW in \in Plans,
              Scheduling(Schedule(t, e, in))
       PROVE  EventsInv'
  BY <1>12, ScheduleStep DEF Scheduling
<1>13. ASSUME NEW t \in Types, NEW n \in 1 .. Cardinality(Events),
              Scheduling(Unschedule(t, n))
       PROVE  EventsInv'
  BY <1>13, UnscheduleStep DEF Scheduling
<1>14. CASE Scheduling(Update)
  <2>1. /\ stack' = file /\ UNCHANGED <<file, ran, down>>
        /\ ~dropping /\ dropping' = FALSE /\ trusted' = FALSE
        /\ sweep' = 1 /\ timer' = Interval
    BY <1>14 DEF Scheduling, Update, Create, InitiateSweep, Idle, EventsInv
  <2>2. UNCHANGED stack /\ trusted' \in BOOLEAN
    BY <2>1, Zenon DEF EventsInv
  <2>3. ~dropping /\ dropping' = FALSE /\ EventsInv
    BY <2>1
  <2>4. timer' \in -MaxLag .. Interval /\ sweep' \in 0 .. Len(Order)
    BY <2>1, SweepBegins
  <2>5. UNCHANGED <<stack, file, ran, down>>
    BY <2>1, <2>2
  <2> QED
    BY <2>2, <2>3, <2>4, <2>5, QuietStep, Zenon
<1>15. CASE ScheduledShutdown
  <2>1. EventsLost /\ down' = 1
    BY <1>15 DEF ScheduledShutdown, ShutdownNow, Halt, Ended
  <2>2. down' # 0
    BY <2>1
  <2> QED
    BY <2>1, <2>2, LostStep, Zenon
<1>16. CASE Crash
  BY <1>16, LostStep DEF Crash, Halt, Ended
<1>17. CASE Boot
  BY <1>17, BootStep DEF Boot
<1>18. CASE Pass
  BY <1>18, PassStep
<1>19. CASE UNCHANGED vars
  BY <1>19 DEF vars, eventVars, EventsInv, InOrder, Once, Fresh, Later, Running, Up
<1> QED
  BY <1>3, <1>4, <1>5, <1>6, <1>7, <1>8, <1>9, <1>10, <1>11, <1>12, <1>13,
     <1>14, <1>15, <1>16, <1>17, <1>18, <1>19 DEF Next

\* The inductive invariant of the two daemons in one process.
THEOREM RebootsInvariant == Spec => []IInv
BY RebootInit, RebootNext, PTL DEF Spec

\* The queues are in order of time in memory and on file, the sweep is at one
\* of them, and the timers of both daemons are within their lag.
THEOREM RebootTypes == Spec => []TypeOK
<1>1. IInv => TypeOK
  <2> SUFFICES ASSUME IInv PROVE TypeOK
    OBVIOUS
  <2>1. ShutdownTypeOK
    <3>1. calls \in Seq(Int)
      <4>1. CASE calls = <<>>
        BY <4>1
      <4>2. ASSUME NEW k \in -MaxLag .. Minute, calls = <<k>>
            PROVE  calls \in Seq(Int)
        BY <4>2, Halves
      <4> QED
        BY <4>1, <4>2 DEF IInv, DaemonInv, Pending
    <3> QED
      BY <3>1 DEF IInv, DaemonInv, ShutdownTypeOK, DownTypeOK
  <2>2. EventsTypeOK
    BY DEF IInv, EventsInv, EventsTypeOK, Entry
  <2> QED
    BY <2>1, <2>2 DEF TypeOK, IInv
<1> QED
  BY <1>1, RebootsInvariant, PTL

\* A periodic event is never lost: not by a sweep that runs away, a crash
\* between any two steps, a shutdown or a reboot.
THEOREM PeriodicEventsStay == Spec => PeriodicKept
<1>1. IInv /\ [Next]_vars
        => [\A t \in Periodic, e \in Events :
               Queued(file, t, e) /\ ~Queued(file', t, e)
                   => ~trusted \/ (Up /\ Idle /\ Up')]_vars
  <2> SUFFICES ASSUME IInv, Next, NEW t \in Periodic, NEW e \in Events,
                      Queued(file, t, e), ~Queued(file', t, e)
               PROVE  ~trusted \/ (Up /\ Idle /\ Up')
    OBVIOUS
  <2>1. t \in Types /\ file = stack /\ file' # file
    BY DEF Periodic, IInv, EventsInv
  <2>2. ASSUME NEW d \in Delays, Counting(StartShutdown(d)) PROVE FALSE
    BY <2>1, <2>2 DEF Counting, eventVars, EventsLost
  <2>3. ASSUME Counting(ShutdownNow) \/ Counting(StopShutdown)
                  \/ Counting(CountDown)
        PROVE FALSE
    BY <2>1, <2>3 DEF Counting, eventVars, EventsLost
  <2>4. CASE Scheduling(StartSweep) \/ Scheduling(CheckNext)
                \/ Scheduling(Perform) \/ Scheduling(RunAway)
                \/ Scheduling(Update) \/ ScheduledShutdown \/ Crash \/ Boot
    BY <2>1, <2>4 DEF Scheduling, StartSweep, CheckNext, Perform, RunAway, Update,
          ScheduledShutdown, Crash, Boot, Preload, Create, EventsLost
  <2>5. ASSUME NEW u \in Types, NEW f \in Events, NEW in \in Plans,
               Scheduling(Schedule(u, f, in))
        PROVE  Up /\ Idle /\ Up'
    BY <2>5 DEF Scheduling, Schedule, Up
  <2>6. ASSUME NEW u \in Types, NEW n \in 1 .. Cardinality(Events),
               Scheduling(Unschedule(u, n))
        PROVE  Up /\ Idle /\ Up'
    BY <2>6 DEF Scheduling, Unschedule, Up
  <2>7. ASSUME Scheduling(Drop), trusted PROVE FALSE
    <3> DEFINE s == Order[sweep]
               q == stack[s]
    <3>1. PICK r \in Seq(Entry) :
            /\ s \in Types
            /\ stack' = [stack EXCEPT ![s] = r] /\ file' = stack'
            /\ s \in Periodic /\ trusted =>
                 \A j \in DOMAIN q : \E i \in DOMAIN r : r[i].what = q[j].what
      BY <2>7, DropEntries DEF Scheduling, IInv
    <3> HIDE DEF s
    <3>2. file'[s] = r /\ \A u \in Types \ {s} : file'[u] = stack[u]
      BY <3>1 DEF IInv, EventsInv
    <3>3. t = s
      BY <2>1, <3>2 DEF Queued
    <3> QED
      BY <2>1, <2>7, <3>1, <3>2, <3>3 DEF Queued
  <2>8. ASSUME Pass PROVE FALSE
    <3>1. file'[t] = [i \in DOMAIN file[t] |-> [file[t][i] EXCEPT !.in = @ - 1]]
      BY <2>1, <2>8 DEF Pass, EventsPass, Passed
    <3>2. PICK i \in DOMAIN file[t] : file[t][i].what = e
      BY DEF Queued
    <3>3. file[t][i] \in Entry
      BY <2>1, <3>2 DEF IInv, EventsInv
    <3>4. i \in DOMAIN file'[t] /\ file'[t][i].what = e
      BY <3>1, <3>2, <3>3 DEF Entry
    <3> QED
      BY <3>4 DEF Queued
  <2> QED
    BY <2>2, <2>3, <2>4, <2>5, <2>6, <2>7, <2>8 DEF Next
<1> QED
  BY <1>1, RebootsInvariant, PTL DEF Spec, PeriodicKept

\* No event is performed twice at its time by one process.
THEOREM NotPerformedAgain == Spec => NotAgain
<1>1. IInv /\ [Next]_vars
        => [Scheduling(Perform) => Head(Queue).in # ran[Performed]]_vars
  <2> SUFFICES ASSUME IInv, Scheduling(Perform)
               PROVE  Head(Queue).in # ran[Performed]
    OBVIOUS
  <2>1. Up /\ ~Idle /\ ~dropping /\ Queue # <<>>
    BY DEF Scheduling, Perform, Performs
  <2>2. /\ Order[sweep] \in Types /\ Queue = stack[Order[sweep]]
        /\ 1 \in DOMAIN Queue /\ Head(Queue) = Queue[1] /\ Queue[1] \in Entry
    BY <2>1, SweptQueue, HeadTail DEF IInv, Queue
  <2>3. Later(Order[sweep], 1)
    BY <2>1, <2>2 DEF IInv, EventsInv, Fresh, Running
  <2>4. Queue[1].in \in Int /\ Queue[1].what \in Events
    BY <2>2 DEF Entry
  <2>5. ran[Queue[1].what] = None \/ ran[Queue[1].what] \in Int
    BY <2>4 DEF IInv, EventsInv
  <2> QED
    BY <2>2, <2>3, <2>4, <2>5, NoneAssumption DEF Later, Performed
<1> QED
  BY <1>1, RebootsInvariant, PTL DEF Spec, NotAgain
=============================================================================
