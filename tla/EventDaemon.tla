---------------------------- MODULE EventDaemon ----------------------------
(***************************************************************************)
(* The event daemon (adm/daemons/event.c) and the command that feeds it    *)
(* (cmds/object/_event.c): queues of function calls to make at a time,     *)
(* looked through once a minute and kept in a file.                        *)
(*                                                                         *)
(* An event's call returns (or fails, which is caught), runs out of        *)
(* evaluation cost (which cannot be caught and ends the whole sweep), or   *)
(* shuts the mud down.  A sweep is one call_out: nobody else runs during   *)
(* it, but the process may end between any two of its steps.  Nothing in   *)
(* the mudlib but the command adds or removes events.  Permissions are     *)
(* left out: a refused event is one that does nothing.                     *)
(***************************************************************************)
EXTENDS DriverProcess, SequencesExt, FiniteSetsExt

CONSTANTS
    Order,      \* the queues, in the order of initiate_sweep()
    Period,     \* Period[t]: when an event of queue t is put back; 0: never
    Events,     \* what can be scheduled; bound: each once at a time
    What,       \* What[e]: "returns", "runs away" or "shuts down"
    Interval,   \* ticks between two sweeps
    Ignore,     \* an event is performed at most so many ticks late
    Plans       \* bound: how far ahead events are scheduled

Types == Range(Order)
Periodic == {t \in Types : Period[t] > 0}

ASSUME EventsAssumption ==
    /\ Order \in Seq(Types) \ {<<>>} /\ Period \in [Types -> Nat]
    /\ Interval \in Nat \ {0} /\ Ignore \in Nat /\ Plans \subseteq Nat \ {0}

VARIABLES
    stack,      \* stack[t]: ONCE, HOURLY, ...: sequences of [what, in]
    file,       \* the stacks as save_events() left them
    timer,      \* ticks until initiate_sweep() is called
    sweep,      \* the position in Order of the queue being checked, or 0
    dropping,   \* perform_event() has returned, its event is still queued
    trusted,    \* may the sweep call add_event()? (previous_object() is ROOT)
    ran         \* ran[e]: when e was due, the last time its call returned
                \* in this process and within Ignore ticks, or None (history)

eventVars == <<stack, file, timer, sweep, dropping, trusted, ran>>

Idle == sweep = 0
Queue == stack[Order[sweep]]
Queued(st, t, e) == \E i \in DOMAIN st[t] : st[t][i].what = e

-----------------------------------------------------------------------------
(* The queues.  sort_array() may leave events of one time in any order.    *)

InOrder(q) == \A i, j \in DOMAIN q : i < j => q[i].in <= q[j].in

\* Mutant: the event is appended and the queue not sorted.
AppendedTo(q, event) == {Append(q, event)}
AddedTo(q, event) == {s \in SetToSeqs(Range(Append(q, event))) : InOrder(s)}

\* add_event() after its checks; it saves all stacks
AddEvent(t, event) == /\ \E q \in AddedTo(stack[t], event) :
                            stack' = [stack EXCEPT ![t] = q]
                      /\ file' = stack'

Passed(st) == [t \in Types |->
                 [i \in DOMAIN st[t] |-> [st[t][i] EXCEPT !.in = @ - 1]]]

-----------------------------------------------------------------------------
(* The sweep.                                                              *)

EventsInit ==
    /\ stack = [t \in Types |-> <<>>]
    /\ file = stack
    /\ timer = Interval
    /\ sweep = 0 /\ dropping = FALSE /\ trusted = TRUE
    /\ ran = [e \in Events |-> None]

\* initiate_sweep(): the next call_out is made before anything can fail.
InitiateSweep(root) == sweep' = 1 /\ trusted' = root /\ timer' = Interval

StartSweep == /\ Up /\ Idle /\ timer <= 0
              /\ InitiateSweep(TRUE)
              /\ UNCHANGED <<stack, file, dropping, ran>>

\* check_once(), ...: the queue is empty or its head not due: the next queue
CheckNext == /\ Up /\ ~Idle /\ ~dropping
             /\ Queue # <<>> => Head(Queue).in > 0
             /\ sweep' = (sweep + 1) % (Len(Order) + 1)
             /\ UNCHANGED <<stack, file, timer, dropping, trusted, ran>>

Due(event) == event.in <= 0 /\ -event.in <= Ignore

Performs == Up /\ ~Idle /\ ~dropping /\ Queue # <<>> /\ Due(Head(Queue))
Performed == Head(Queue).what

\* perform_event() returns.  A shutdown that fails is caught, too.
Perform == /\ Performs /\ What[Performed] # "runs away"
           /\ dropping' = TRUE
           /\ ran' = [ran EXCEPT ![Performed] = Head(Queue).in]
           /\ UNCHANGED <<stack, file, timer, sweep, trusted>>

\* The driver ends the call_out; the event stays at the head of its queue.
RunAway == /\ Performs /\ What[Performed] = "runs away"
           /\ sweep' = 0
           /\ UNCHANGED <<stack, file, timer, dropping, trusted, ran>>

\* The head of the queue is taken out, when it was performed or is too late,
\* and a periodic event put back: if add_event() accepts it.
\* Mutant: the head is not taken out before it is put back.
DropTwice(t) ==
    LET event == Head(stack[t]) IN
    IF t \in Periodic THEN AddEvent(t, [event EXCEPT !.in = @ + Period[t]])
    ELSE stack' = [stack EXCEPT ![t] = Tail(@)] /\ file' = stack'
\* Mutant: put back at the same time.
DropSameTime(t) == /\ IF t \in Periodic /\ trusted THEN UNCHANGED stack
                      ELSE stack' = [stack EXCEPT ![t] = Tail(@)]
                   /\ file' = stack'
\* Mutant: saved before the event is put back, and not after.
DropSavesFirst(t) ==
    LET event == Head(stack[t])
        rest == [stack EXCEPT ![t] = Tail(@)]
    IN  /\ file' = rest
        /\ IF t \in Periodic /\ trusted
           THEN \E q \in AddedTo(rest[t], [event EXCEPT !.in = @ + Period[t]]) :
                   stack' = [stack EXCEPT ![t] = q]
           ELSE stack' = rest
DropHead(t) ==
    LET event == Head(stack[t]) IN
    /\ IF t \in Periodic /\ trusted
       THEN \E q \in AddedTo(Tail(stack[t]), [event EXCEPT !.in = @ + Period[t]]) :
               stack' = [stack EXCEPT ![t] = q]
       ELSE stack' = [stack EXCEPT ![t] = Tail(@)]
    /\ file' = stack'

Drop == /\ Up /\ ~Idle /\ Queue # <<>>
        /\ dropping \/ (Head(Queue).in <= 0 /\ ~Due(Head(Queue)))
        /\ DropHead(Order[sweep])
        /\ dropping' = FALSE
        /\ UNCHANGED <<timer, sweep, trusted, ran>>

-----------------------------------------------------------------------------
(* The command.  Its questions (input_to) change nothing but a flag that    *)
(* refuses others meanwhile; what counts is its last step.                 *)

\* process_time() schedules e; dates in the past are refused.
Schedule(t, e, in) == /\ Up /\ Idle
                      /\ \A u \in Types : ~Queued(stack, u, e)
                      /\ AddEvent(t, [what |-> e, in |-> in])
                      /\ UNCHANGED <<timer, sweep, dropping, trusted, ran>>

\* del_number() takes the event that is number n now, not when it was shown.
Unschedule(t, n) == /\ Up /\ Idle
                    /\ n \in DOMAIN stack[t]
                    /\ stack' = [stack EXCEPT ![t] = RemoveAt(@, n)]
                    /\ file' = stack'
                    /\ UNCHANGED <<timer, sweep, dropping, trusted, ran>>

-----------------------------------------------------------------------------
(* The daemon's object and the process.                                    *)

\* create(), called by object root or another
Create(root) == /\ stack' = file
                /\ InitiateSweep(root)
                /\ dropping' = FALSE
                /\ UNCHANGED file

\* An administrator updates the daemon: create() runs for the command.
Update == Up /\ Idle /\ Create(FALSE) /\ UNCHANGED ran

\* The master object preloads the daemon.
Preload == /\ Started /\ Create(TRUE)
           /\ ran' = [e \in Events |-> None]

\* The process ends: nothing but the file counts.
EventsLost == /\ sweep' = 0 /\ dropping' = FALSE
              /\ timer' = Interval
              /\ stack' = file
              /\ UNCHANGED <<file, trusted, ran>>

\* A tick: not during a call_out, and no call_out is later than MaxLag.
EventsPass == /\ Idle
              /\ Up => timer > -MaxLag
              /\ timer' = IF Up THEN timer - 1 ELSE timer
              /\ stack' = Passed(stack) /\ file' = Passed(file)
              /\ ran' = [e \in Events |->
                            IF ran[e] = None \/ ran[e] = -Ignore THEN None
                            ELSE ran[e] - 1]
              /\ UNCHANGED <<sweep, dropping, trusted>>

EventsTypeOK ==
    /\ \A t \in Types : /\ stack[t] \in Seq([what : Events, in : Int])
                        /\ InOrder(stack[t]) /\ InOrder(file[t])
    /\ DOMAIN stack = Types /\ DOMAIN file = Types
    /\ timer \in -MaxLag..Interval
    /\ sweep \in 0..Len(Order) /\ (dropping => sweep > 0)
    /\ {dropping, trusted} \subseteq BOOLEAN
    /\ ran \in [Events -> -Ignore..0 \cup {None}]
=============================================================================
