----------------------------- MODULE Shutdown ------------------------------
(***************************************************************************)
(* The shutdown daemon (adm/daemons/shutdownd.c): a shutdown is announced  *)
(* some minutes ahead, counted down by a call_out a minute, changed or     *)
(* cancelled.  The administrators' command (cmds/adm/_shutdown.c), the     *)
(* memory daemon (mem_check.c), the crash handler of the master object and *)
(* scheduled events start it.  Emotes, logs and the reason are left out.   *)
(***************************************************************************)
EXTENDS DriverProcess, SequencesExt

CONSTANTS
    Minute,    \* ticks in a minute
    Delays     \* the minutes a shutdown is asked for

ASSUME MinuteAssumption == Minute \in Nat \ {0} /\ Delays \subseteq Nat

VARIABLES
    left,      \* s_sec - time(), or None when s_sec is 0
    calls      \* the pending count_down call_outs: the ticks to wait

shutdownVars == <<left, calls>>

Half == Minute \div 2

\* Bound: a shutdown that failed is forgotten to be longer ago than this.
Floor == -(Half + MaxLag + 1)

-----------------------------------------------------------------------------
\* delay < 1, with delay = (s_sec + 30 - time()) / 60
Ends(l) == l # None => l + Half < Minute

\* remove_call_out("count_down")
Removed(q) == IF q = <<>> THEN q ELSE Tail(q)

ShutdownInit == left = None /\ calls = <<>>

\* The process ends: the daemon's variables and call_outs with it.
Forgotten == left' = None /\ calls' = <<>>
Halt == Ended /\ Forgotten

\* A shutdown in d minutes; it takes the place of the one on its way.
\* Mutant: another shutdown is not cancelled.
StartBoth(d) == /\ Up /\ d > 0
                /\ left' = d * Minute
                /\ calls' = Append(calls, Minute)
                /\ UNCHANGED down
StartShutdown(d) == /\ Up /\ d > 0
                    /\ left' = d * Minute
                    /\ calls' = Append(IF left = None THEN calls
                                       ELSE Removed(calls), Minute)
                    /\ UNCHANGED down

\* A shutdown without delay.  save_daemons() may fail: nothing happens then.
ShutdownNow == Up /\ Halt

\* Mutant: the countdown goes on.
StopKeepsCall == Up /\ left' = None /\ UNCHANGED <<calls, down>>
StopShutdown == Up /\ left' = None /\ calls' = Removed(calls) /\ UNCHANGED down

\* count_down(), from its call_out; the last one saves and shuts down.  When
\* saving raises an error the call_out is gone and s_sec stays.
CountDown == /\ Up
             /\ \E i \in DOMAIN calls :
                   /\ calls[i] <= 0
                   /\ \/ Ends(left) /\ Halt
                      \/ /\ Ends(left)
                         /\ calls' = RemoveAt(calls, i)
                         /\ UNCHANGED <<left, down>>
                      \/ /\ ~Ends(left)
                         /\ calls' = Append(RemoveAt(calls, i), Minute)
                         /\ UNCHANGED <<left, down>>

\* A tick; no call_out waits longer than MaxLag.
CountdownPasses == /\ \A i \in DOMAIN calls : calls[i] > -MaxLag
                   /\ left' = IF left = None \/ left = Floor THEN left ELSE left - 1
                   /\ calls' = [i \in DOMAIN calls |-> calls[i] - 1]

-----------------------------------------------------------------------------
(* The daemon alone, in a process that may crash and is started again.     *)

Tick == CountdownPasses /\ DownPasses

ShutdownNext ==
    \/ \E d \in Delays : StartShutdown(d)
    \/ ShutdownNow
    \/ StopShutdown
    \/ CountDown
    \/ Tick
    \/ Started /\ Forgotten

ShutdownSpec == /\ down = 0 /\ ShutdownInit
                /\ [][ShutdownNext]_<<down, shutdownVars>>

ShutdownTypeOK ==
    /\ DownTypeOK
    /\ left \in Int \cup {None}
    /\ calls \in Seq(Int)

\* There is one countdown at most, none without a shutdown to come, and one
\* for as long as that shutdown is half a minute away or more, whatever
\* was announced, changed, cancelled or lost in a crash before.
CountdownArmed ==
    /\ Len(calls) <= 1
    /\ calls # <<>> => Up /\ left # None
    /\ left # None /\ left >= Minute - Half => calls # <<>>

\* A countdown ends the process half a minute early at most, and half a
\* minute and one call_out's lag late at most, though each of its call_outs
\* may be late and they add up; and never for a shutdown that was cancelled.
OnTime == [][CountDown /\ down' # 0 =>
                 left # None /\ left < Minute - Half /\ left >= -(Half + MaxLag)
            ]_<<down, shutdownVars>>
=============================================================================
