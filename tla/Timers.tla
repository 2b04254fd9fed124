------------------------------ MODULE Timers -------------------------------
(***************************************************************************)
(* What call_out() promises, without the wheel: calls are kept by the time *)
(* that is left, those of the same time in the order they were asked for.  *)
(* Each is made exactly when its time has come, unless it was removed or   *)
(* its object is gone; the clock does not go on while a call is due.       *)
(***************************************************************************)
EXTENDS Places, SequencesExt

CONSTANTS
    Objs,       \* objects
    Calls,      \* what can be asked for: records with the object in field ob
    MaxDelay    \* the longest delay that is asked for

VARIABLES
    agenda,     \* agenda[d]: the calls to be made in d seconds, in order
    alive       \* the objects that have not been destructed

vars == <<agenda, alive>>

Init == agenda = [d \in 0..MaxDelay |-> <<>>] /\ alive = Objs

\* A call is asked for.
Ask(c, d) == /\ c.ob \in alive
             /\ agenda' = [agenda EXCEPT ![d] = Append(@, c)]
             /\ UNCHANGED alive

\* The next call that is due is made, or forgotten when its object is gone.
Make == /\ agenda[0] # <<>>
        /\ agenda' = [agenda EXCEPT ![0] = Tail(@)]
        /\ UNCHANGED alive

\* Some pending call is removed.
Remove1(d, i) == /\ agenda' = [agenda EXCEPT ![d] = RemoveAt(@, i)]
                 /\ UNCHANGED alive

\* All calls of an object, and of those that are gone, are removed.
RemoveOf(o) ==
    /\ agenda' = [d \in 0..MaxDelay |->
                     At(agenda[d], {i \in DOMAIN agenda[d] :
                                       agenda[d][i].ob \in alive \ {o}})]
    /\ UNCHANGED alive

\* One second passes.
Tick == /\ agenda[0] = <<>>
        /\ agenda' = [d \in 0..MaxDelay |->
                         IF d < MaxDelay THEN agenda[d + 1] ELSE <<>>]
        /\ UNCHANGED alive

Destruct(o) == alive' = alive \ {o} /\ UNCHANGED agenda

Next == \/ \E c \in Calls, d \in 0..MaxDelay : Ask(c, d)
        \/ Make \/ Tick
        \/ \E d \in 0..MaxDelay : \E i \in DOMAIN agenda[d] : Remove1(d, i)
        \/ \E o \in Objs : RemoveOf(o) \/ Destruct(o)

Spec == Init /\ [][Next]_vars
=============================================================================
