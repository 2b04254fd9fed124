------------------------------ MODULE Reboot -------------------------------
(***************************************************************************)
(* The event daemon and the shutdown daemon in one process, which crashes, *)
(* is shut down by an administrator, a countdown or a scheduled event, and *)
(* is started again.  Calls of the two daemons do not overlap: the driver  *)
(* runs one at a time.                                                     *)
(***************************************************************************)
EXTENDS EventDaemon, Shutdown

CONSTANT MaxCrashes   \* bound: how often the process crashes

ASSUME CrashesAssumption == MaxCrashes \in Nat

VARIABLE crashes

vars == <<down, shutdownVars, eventVars, crashes>>

Init == down = 0 /\ ShutdownInit /\ EventsInit /\ crashes = 0

\* The shutdown daemon acts, while no sweep runs.
Counting(A) == /\ Idle /\ A
               /\ IF down' = 0 THEN UNCHANGED eventVars ELSE EventsLost
               /\ UNCHANGED crashes

\* The event daemon acts, and the process stays.
Scheduling(A) == A /\ UNCHANGED <<down, shutdownVars, crashes>>

\* A scheduled shutdown: perform_event() does not return.
ScheduledShutdown == /\ Performs /\ What[Performed] = "shuts down"
                     /\ ShutdownNow /\ EventsLost
                     /\ UNCHANGED crashes

\* A crash, at any step of a sweep.
Crash == /\ Up /\ crashes < MaxCrashes
         /\ Halt /\ EventsLost
         /\ crashes' = crashes + 1

\* The driver is started, within MaxDown ticks.
Boot == Preload /\ UNCHANGED <<shutdownVars, crashes>>

Pass == EventsPass /\ Tick /\ UNCHANGED crashes

Next ==
    \/ \E d \in Delays : Counting(StartShutdown(d))
    \/ Counting(ShutdownNow)
    \/ Counting(StopShutdown)
    \/ Counting(CountDown)
    \/ Scheduling(StartSweep)
    \/ Scheduling(CheckNext)
    \/ Scheduling(Perform)
    \/ Scheduling(RunAway)
    \/ Scheduling(Drop)
    \/ \E t \in Types, e \in Events, in \in Plans : Scheduling(Schedule(t, e, in))
    \/ \E t \in Types, n \in 1..Cardinality(Events) : Scheduling(Unschedule(t, n))
    \/ Scheduling(Update)
    \/ ScheduledShutdown
    \/ Crash
    \/ Boot
    \/ Pass

\* Time goes on; the driver runs what is due, and somebody starts it again.
\* What people do and crashes are not fair.
Fairness ==
    /\ SF_vars(Pass)
    /\ SF_vars(Scheduling(StartSweep))
    /\ WF_vars(Scheduling(CheckNext))
    /\ WF_vars(Scheduling(Perform) \/ ScheduledShutdown)
    /\ WF_vars(Scheduling(RunAway))
    /\ WF_vars(Scheduling(Drop))
    /\ SF_vars(Counting(CountDown))
    /\ WF_vars(Boot)

Spec == Init /\ [][Next]_vars /\ Fairness

-----------------------------------------------------------------------------
TypeOK == ShutdownTypeOK /\ EventsTypeOK /\ crashes \in 0..MaxCrashes

\* A periodic event stays scheduled, across sweeps, crashes in the middle of
\* one, shutdowns and reboots, until somebody removes it between sweeps; or
\* until a sweep of an updated daemon, which add_event() takes for another's
\* call, finds it due and cannot put it back.
PeriodicKept == [][\A t \in Periodic, e \in Events :
                      Queued(file, t, e) /\ ~Queued(file', t, e)
                          => ~trusted \/ (Up /\ Idle /\ Up')
                  ]_vars

\* No call is made twice at its time by one process: an event whose call has
\* returned is out of the way before it can be looked at again, and put back
\* at a later time.
NotAgain == [][Scheduling(Perform) => Head(Queue).in # ran[Performed]]_vars

\* An event that is due gets its turn and leaves: one that runs away at every
\* sweep is given up in the end and lets the others pass, and so does one
\* that shuts the mud down, again at every reboot.  (Two events that run away
\* by turns, or one scheduled anew before each sweep, do block the others:
\* there is one here, and Plans are further ahead than a sweep and its lag.)
DueEventsEnd == \A t \in Types, e \in Events :
    (\E i \in DOMAIN file[t] : file[t][i].what = e /\ file[t][i].in <= 0)
        ~> ~(\E i \in DOMAIN file[t] : file[t][i].what = e /\ file[t][i].in <= 0)
=============================================================================
