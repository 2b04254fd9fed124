----------------------------- MODULE Presence ------------------------------
(***************************************************************************)
(* What logging in promises to the players: each account is out of the     *)
(* game, played from one link, or a net-dead statue; a link plays at most  *)
(* one account, after it has logged in; and a link that was thrown out or  *)
(* refused is never heard of again.  Session implements it.                *)
(***************************************************************************)
CONSTANTS
    Player,  \* accounts
    Link,    \* sockets
    Out,     \* who[n] when n is not in the game; not a link
    Statue   \* who[n] when n is there and has no link; not a link

VARIABLES
    phase,   \* phase[s]: "closed", "login", "in" the game, or "aside"
    who      \* who[n]: the link that plays n, or Out, or Statue

Init ==
    /\ phase = [s \in Link |-> "closed"]
    /\ who = [n \in Player |-> Out]

\* Links that are not in the game open, are set aside (refused, or at another
\* kind of account) or close.  Several may at once: at an account of another
\* kind one link can close another.
Onward == {<<"closed", "login">>, <<"login", "aside">>,
           <<"login", "closed">>, <<"aside", "closed">>}
Outside ==
    /\ \E p \in [Link -> {"closed", "login", "in", "aside"}] :
          /\ \A s \in Link : p[s] = phase[s] \/ <<phase[s], p[s]>> \in Onward
          /\ phase' = p
    /\ UNCHANGED who

\* A link that has logged in plays n, who is out of the game or a statue.
Enter(n, s) ==
    /\ phase[s] = "login" /\ who[n] \notin Link
    /\ phase' = [phase EXCEPT ![s] = "in"]
    /\ who' = [who EXCEPT ![n] = s]

\* ... or throws out the link t that plays n.
ThrowOut(n, s) ==
    /\ phase[s] = "login" /\ who[n] \in Link
    /\ \E p \in {"aside", "closed"} :
          phase' = [phase EXCEPT ![s] = "in", ![who[n]] = p]
    /\ who' = [who EXCEPT ![n] = s]

\* The link of n, if it has one, closes: it breaks, and n is a statue, or n
\* quits, idles too long or is swept.
LinkClosed(n) ==
    phase' = IF who[n] \in Link THEN [phase EXCEPT ![who[n]] = "closed"] ELSE phase
Break(n) ==
    /\ who[n] \in Link
    /\ LinkClosed(n)
    /\ who' = [who EXCEPT ![n] = Statue]
Leave(n) ==
    /\ who[n] # Out
    /\ LinkClosed(n)
    /\ who' = [who EXCEPT ![n] = Out]

\* The driver stops.
Stop ==
    /\ phase' = [s \in Link |-> "closed"]
    /\ who' = [n \in Player |-> Out]

Next ==
    \/ Outside
    \/ \E n \in Player :
          \/ \E s \in Link : Enter(n, s) \/ ThrowOut(n, s)
          \/ Break(n)
          \/ Leave(n)
    \/ Stop

vars == <<phase, who>>
Spec == Init /\ [][Next]_vars

\* A link is in the game exactly when it plays one account: what every exec()
\* of logind.c and connection.c is there for.
PlaysOne ==
    \A s \in Link : phase[s] = "in" <=> \E n \in Player :
        who[n] = s /\ \A m \in Player : who[m] = s => m = n
=============================================================================
