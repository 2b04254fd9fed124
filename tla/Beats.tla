------------------------------- MODULE Beats -------------------------------
(***************************************************************************)
(* What a round of heart beats promises, without the array: every object   *)
(* that has a heart beat when the round begins, and keeps it, has its turn *)
(* once; an object that gets one during the round waits for the next, also *)
(* when it had one before.                                                 *)
(***************************************************************************)
CONSTANT Objs
VARIABLES
    beating,   \* the objects that have a heart beat
    waiting    \* those whose turn in this round is still to come

vars == <<beating, waiting>>

Init == beating = {} /\ waiting = {}

Round == waiting = {} /\ waiting' = beating /\ UNCHANGED beating
Turn(o) == o \in waiting /\ waiting' = waiting \ {o} /\ UNCHANGED beating
On(o) == beating' = beating \cup {o} /\ UNCHANGED waiting
Off(o) == beating' = beating \ {o} /\ waiting' = waiting \ {o}

Next == Round \/ \E o \in Objs : Turn(o) \/ On(o) \/ Off(o)

Spec == Init /\ [][Next]_vars
=============================================================================
