------------------------------- MODULE Party -------------------------------
(***************************************************************************)
(* Parties of players: the party daemon (adm/daemons/party_d.c), the party *)
(* command (cmds/std/_party.c) and what a body tells the daemon when it    *)
(* quits, dies or loses its link (std/user.c).                             *)
(*                                                                         *)
(* Two places say who belongs to whom: the body's property "leader", a     *)
(* name, and the daemon's mappings, by the leader's name, of the bodies of *)
(* members and invited.  A body that is destructed becomes 0 wherever it   *)
(* stands: in a list of members the 0 still counts, elsewhere it says      *)
(* nothing.  Lists are sets here, as nobody is put into one who is in it   *)
(* (members), or all his entries go at once (invited).                     *)
(***************************************************************************)
EXTENDS Integers, FiniteSets

CONSTANTS
    Players,
    MaxParty,     \* MAX, members besides the leader
    Timeout,      \* TIMEOUT, in ticks
    MaxTimers,    \* bound: invitations timed at once
    None

\* What the daemon knows of a party: how many members have become 0, too.
Parties == [members : SUBSET Players, gone : Nat, invited : SUBSET Players]

ASSUME PartyAssumption ==
    /\ MaxParty \in Nat \ {0} /\ Timeout \in Nat
    /\ IsFiniteSet(Players)
    /\ None \notin Players /\ None \notin Parties

VARIABLES
    here,         \* whose bodies are in the game
    leader,       \* the "leader" of each body, or None
    party,        \* members and invited: [members, gone, invited], or None
    timers,       \* pending call_outs of remove_invitation: [le, me, left]
    orphaned,     \* names whose body was destructed as a leader (history)
    inherited     \* names whose party was another's before (history)

vars == <<here, leader, party, timers, orphaned, inherited>>

Init ==
    /\ here = {}
    /\ leader = [u \in Players |-> None]
    /\ party = [n \in Players |-> None]
    /\ timers = {}
    /\ orphaned = {} /\ inherited = {}

Leads(u) == u \in here /\ leader[u] = u
Exists(n) == party[n] # None
Size(p) == Cardinality(p.members) + p.gone

-----------------------------------------------------------------------------
(* The daemon's functions, on the two mappings and the bodies' property.   *)

\* disband_member()
WithoutMember(p, u) == [p EXCEPT !.members = @ \ {u}]
DisbandMember(n, u) ==
    IF Exists(n) /\ u \in party[n].members
    THEN /\ party' = [party EXCEPT ![n] = WithoutMember(@, u)]
         /\ leader' = [leader EXCEPT ![u] = None]
    ELSE UNCHANGED <<party, leader>>

\* disband_party().
\* Mutant: the members are not told.
FreedLeader(u) == [leader EXCEPT ![u] = None]
Freed(u) == [v \in Players |-> IF v = u \/ v \in party[u].members THEN None
                               ELSE leader[v]]
DisbandParty(u) ==
    IF Exists(u)
    THEN /\ party' = [party EXCEPT ![u] = None]
         /\ leader' = Freed(u)
         /\ inherited' = inherited \ {u}
    ELSE UNCHANGED <<party, leader, inherited>>

\* check_party()
CheckParty(u) ==
    IF leader[u] = u THEN DisbandParty(u)
    ELSE /\ UNCHANGED inherited
         /\ IF leader[u] \in here THEN DisbandMember(leader[u], u)
            ELSE UNCHANGED <<party, leader>>

\* remove_invitation().
\* Mutant: it looks for him among the members.
UninvitedMember(p, u) ==
    IF u \in p.members THEN [p EXCEPT !.invited = @ \ {u}] ELSE p
Uninvited(p, u) == [p EXCEPT !.invited = @ \ {u}]

-----------------------------------------------------------------------------
(* The party command.                                                      *)

\* form.  A party that is left under the name is in the way.
Formed == [members |-> {}, gone |-> 0, invited |-> {}]
Form(u) ==
    /\ u \in here /\ leader[u] = None
    /\ ~Exists(u)
    /\ party' = [party EXCEPT ![u] = Formed]
    /\ leader' = [leader EXCEPT ![u] = u]
    /\ UNCHANGED <<here, timers, orphaned, inherited>>

\* invite, of somebody in the room, perhaps once more
Invite(u, v) ==
    /\ Leads(u) /\ v \in here \ {u}
    /\ Exists(u)
    /\ Size(party[u]) # MaxParty
    /\ v \notin party[u].members
    /\ party' = [party EXCEPT ![u].invited = @ \cup {v}]
    /\ timers' = timers \cup {[le |-> u, me |-> v, left |-> Timeout]}
    /\ Cardinality(timers') <= MaxTimers
    /\ UNCHANGED <<here, leader, orphaned, inherited>>

\* join: add_member()
Joined(p, u) == [Uninvited(p, u) EXCEPT !.members = @ \cup {u}]
Join(u, v) ==
    /\ u \in here /\ leader[u] = None
    /\ Leads(v)
    /\ Exists(v)
    /\ Size(party[v]) # MaxParty
    /\ u \notin party[v].members
    /\ u \in party[v].invited
    /\ party' = [party EXCEPT ![v] = Joined(@, u)]
    /\ leader' = [leader EXCEPT ![u] = v]
    /\ UNCHANGED <<here, timers, orphaned, inherited>>

\* leave, of a member whose leader is in the game
Leave(u) ==
    /\ u \in here /\ leader[u] \in here \ {u}
    /\ DisbandMember(leader[u], u)
    /\ UNCHANGED <<here, timers, orphaned, inherited>>

\* remove
Remove(u, v) ==
    /\ Leads(u) /\ v \in here /\ leader[v] = u
    /\ DisbandMember(u, v)
    /\ UNCHANGED <<here, timers, orphaned, inherited>>

\* disband
Disband(u) ==
    /\ Leads(u)
    /\ DisbandParty(u)
    /\ UNCHANGED <<here, timers, orphaned>>

\* leader: change_leader().  The timers keep the old leader.
LedBy(u, v) == [w \in Players |-> IF w \in {u, v} \cup party[u].members THEN v
                                  ELSE leader[w]]
Handed(p, u, v) == [p EXCEPT !.members = (@ \ {v}) \cup {u}]
ChangeLeader(u, v) ==
    /\ Leads(u) /\ v \in here /\ leader[v] = u
    /\ Exists(u) /\ v \in party[u].members
    /\ leader' = LedBy(u, v)
    /\ party' = [party EXCEPT ![v] = Handed(party[u], u, v), ![u] = None]
    /\ inherited' = (inherited \ {u}) \cup {v}
    /\ UNCHANGED <<here, timers, orphaned>>

-----------------------------------------------------------------------------
(* Time.                                                                   *)

\* Every call_out that is due is called before a command or time goes on.
Due == {t \in timers : t.left = 0}

Expire ==
    /\ \E t \in Due :
          /\ timers' = timers \ {t}
          /\ party' = IF Exists(t.le)
                      THEN [party EXCEPT ![t.le] = Uninvited(@, t.me)]
                      ELSE party
    /\ UNCHANGED <<here, leader, orphaned, inherited>>

Tick ==
    /\ Due = {} /\ timers # {}
    /\ timers' = {[t EXCEPT !.left = @ - 1] : t \in timers}
    /\ UNCHANGED <<here, leader, party, orphaned, inherited>>

-----------------------------------------------------------------------------
(* Bodies.                                                                 *)

\* A new body: consistency_check() clears the saved "leader".
Enter(u) ==
    /\ u \notin here
    /\ here' = here \cup {u}
    /\ leader' = [leader EXCEPT ![u] = None]
    /\ UNCHANGED <<party, timers, orphaned, inherited>>

\* net_dead() or die(): the body stays.
NetDead(u) ==
    /\ u \in here
    /\ CheckParty(u)
    /\ UNCHANGED <<here, timers, orphaned>>

\* The body becomes 0 in the lists of p; a call_out for it does nothing.
Zeroed(p, u) ==
    IF p = None THEN None
    ELSE [members |-> p.members \ {u},
          gone    |-> IF u \in p.members THEN p.gone + 1 ELSE p.gone,
          invited |-> p.invited \ {u}]
Without(u) == {t \in timers : u \notin {t.le, t.me}}

\* quit(), which an idle or link-dead body also ends with
Quit(u) ==
    /\ u \in here
    /\ here' = here \ {u}
    /\ leader' = [(IF leader[u] = u /\ Exists(u) THEN Freed(u) ELSE leader)
                     EXCEPT ![u] = None]
    /\ party' = [n \in Players |->
                    Zeroed(IF n # leader[u] THEN party[n]
                           ELSE IF n = u THEN None
                           ELSE IF n \in here /\ Exists(n)
                           THEN WithoutMember(party[n], u)
                           ELSE party[n], u)]
    /\ timers' = Without(u)
    /\ inherited' = IF leader[u] = u THEN inherited \ {u} ELSE inherited
    /\ UNCHANGED orphaned

\* remove() of the body by an administrator (dest): the daemon is not told.
Dest(u) ==
    /\ u \in here
    /\ here' = here \ {u}
    /\ leader' = [leader EXCEPT ![u] = None]
    /\ party' = [n \in Players |-> Zeroed(party[n], u)]
    /\ timers' = Without(u)
    /\ orphaned' = IF leader[u] = u THEN orphaned \cup {u} ELSE orphaned
    /\ UNCHANGED inherited

Command ==
    \/ \E u \in Players : Form(u)
    \/ \E u, v \in Players : Invite(u, v)
    \/ \E u, v \in Players : Join(u, v)
    \/ \E u \in Players : Leave(u)
    \/ \E u, v \in Players : Remove(u, v)
    \/ \E u \in Players : Disband(u)
    \/ \E u, v \in Players : ChangeLeader(u, v)
    \/ \E u \in Players : Enter(u)
    \/ \E u \in Players : NetDead(u)
    \/ \E u \in Players : Quit(u)
    \/ \E u \in Players : Dest(u)

Next == (Due = {} /\ Command) \/ Expire \/ Tick

Spec == Init /\ [][Next]_vars

-----------------------------------------------------------------------------
TypeOK ==
    /\ here \subseteq Players
    /\ leader \in [Players -> Players \cup {None}]
    /\ party \in [Players -> Parties \cup {None}]
    /\ timers \subseteq [le : Players, me : Players, left : 0 .. Timeout]
    /\ orphaned \subseteq Players /\ inherited \subseteq Players

\* The members in a party's list are in the game, have its leader as theirs,
\* and so are in no other list; they are not its leader, and not invited.
MembersAgree ==
    \A n \in Players : Exists(n) =>
       /\ \A u \in party[n].members : u \in here /\ leader[u] = n /\ u # n
       /\ party[n].members \cap party[n].invited = {}
       /\ n \notin party[n].invited
       /\ Size(party[n]) <= MaxParty

\* Who says that n is his leader is in n's list, or leads it himself, and a
\* party in the daemon is led: unless n's body was destructed as a leader.
LeadersAgree ==
    \A n \in Players \ orphaned :
       /\ Exists(n) => Leads(n)
       /\ \A u \in here : leader[u] = n =>
             Exists(n) /\ (u = n \/ u \in party[n].members)

\* The bodies' "leader" and the daemon's lists agree, however parties are
\* formed, joined, left, handed over and disbanded, with players who come
\* and go: nobody is in two parties or stays in one he has left, and none
\* grows beyond its limit.
PartiesAgree == MembersAgree /\ LeadersAgree

\* An invitation has its call_out, as the help promises that it expires,
\* though it may have been renewed, answered, or taken back by leaving;
\* after change_leader() the call_outs look under the old leader's name.
InvitationsTimed ==
    \A n \in Players \ (orphaned \cup inherited) : Exists(n) =>
       \A u \in party[n].invited : \E t \in timers : t.le = n /\ t.me = u
=============================================================================
