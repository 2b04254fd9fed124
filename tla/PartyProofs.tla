---------------------------- MODULE PartyProofs ----------------------------
(***************************************************************************)
(* The bodies' property "leader" and the lists of the party daemon agree,  *)
(* for any players, any limit of a party and any timeout of invitations.   *)
(***************************************************************************)
EXTENDS Party, FiniteSetTheorems, TLAPS

\* The three agree only together: a member's leader keeps him out of other
\* lists, and a led party keeps its name from another.
IInv == TypeOK /\ PartiesAgree /\ InvitationsTimed

-----------------------------------------------------------------------------
(* The records of parties.                                                 *)

LEMMA WithoutMemberShape ==
    ASSUME NEW p \in Parties, NEW u \in Players
    PROVE  /\ WithoutMember(p, u) \in Parties
           /\ WithoutMember(p, u).members = p.members \ {u}
           /\ WithoutMember(p, u).gone = p.gone
           /\ WithoutMember(p, u).invited = p.invited
BY DEF WithoutMember, Parties

LEMMA UninvitedShape ==
    ASSUME NEW p \in Parties, NEW u \in Players
    PROVE  /\ Uninvited(p, u) \in Parties
           /\ Uninvited(p, u).members = p.members
           /\ Uninvited(p, u).gone = p.gone
           /\ Uninvited(p, u).invited = p.invited \ {u}
BY DEF Uninvited, Parties

LEMMA JoinedShape ==
    ASSUME NEW p \in Parties, NEW u \in Players
    PROVE  /\ Joined(p, u) \in Parties
           /\ Joined(p, u).members = p.members \cup {u}
           /\ Joined(p, u).gone = p.gone
           /\ Joined(p, u).invited = p.invited \ {u}
<1> DEFINE q == Uninvited(p, u)
<1>2. /\ q \in Parties /\ q.members = p.members
      /\ q.gone = p.gone /\ q.invited = p.invited \ {u}
  BY UninvitedShape
<1>3. Joined(p, u) = [q EXCEPT !.members = @ \cup {u}]
  BY DEF Joined
<1> HIDE DEF q
<1> QED
  BY <1>2, <1>3 DEF Parties

LEMMA HandedShape ==
    ASSUME NEW p \in Parties, NEW u \in Players, NEW v \in Players
    PROVE  /\ Handed(p, u, v) \in Parties
           /\ Handed(p, u, v).members = (p.members \ {v}) \cup {u}
           /\ Handed(p, u, v).gone = p.gone
           /\ Handed(p, u, v).invited = p.invited
BY DEF Handed, Parties

LEMMA FormedShape ==
    /\ Formed \in Parties
    /\ Formed.members = {} /\ Formed.gone = 0 /\ Formed.invited = {}
BY DEF Formed, Parties

LEMMA ZeroedShape ==
    ASSUME NEW p \in Parties, NEW u \in Players
    PROVE  /\ Zeroed(p, u) \in Parties
           /\ Zeroed(p, u).members = p.members \ {u}
           /\ Zeroed(p, u).gone = IF u \in p.members THEN p.gone + 1 ELSE p.gone
           /\ Zeroed(p, u).invited = p.invited \ {u}
BY PartyAssumption DEF Zeroed, Parties

LEMMA NoneZeroed == \A u : Zeroed(None, u) = None
BY DEF Zeroed

\* The lists are finite, so the daemon can count them.
LEMMA Sizes ==
    ASSUME NEW p \in Parties, NEW u \in Players, NEW v \in Players
    PROVE  /\ Size(p) \in Nat
           /\ u \notin p.members => Size(Joined(p, u)) = Size(p) + 1
           /\ Size(Uninvited(p, u)) = Size(p)
           /\ Size(WithoutMember(p, u)) \in Nat
           /\ Size(WithoutMember(p, u)) <= Size(p)
           /\ Size(Zeroed(p, u)) = Size(p)
           /\ u \notin p.members /\ v \in p.members
                 => Size(Handed(p, u, v)) = Size(p)
<1>1. IsFiniteSet(p.members) /\ p.gone \in Nat
  BY PartyAssumption, FS_Subset DEF Parties
<1>2. Cardinality(p.members) \in Nat
  BY <1>1, FS_CardinalityType
<1>3. /\ IsFiniteSet(p.members \cup {u})
      /\ Cardinality(p.members \cup {u}) =
            IF u \in p.members THEN Cardinality(p.members)
            ELSE Cardinality(p.members) + 1
  BY <1>1, FS_AddElement
<1>4. \A w \in Players :
         /\ IsFiniteSet(p.members \ {w})
         /\ Cardinality(p.members \ {w}) =
               IF w \in p.members THEN Cardinality(p.members) - 1
               ELSE Cardinality(p.members)
  BY <1>1, FS_RemoveElement
<1>5. \A w \in Players : Cardinality(p.members \ {w}) \in Nat
  BY <1>4, FS_CardinalityType
<1>6. u \notin p.members /\ v \in p.members
         => Cardinality((p.members \ {v}) \cup {u}) = Cardinality(p.members)
  <2> SUFFICES ASSUME u \notin p.members, v \in p.members
               PROVE  Cardinality((p.members \ {v}) \cup {u})
                         = Cardinality(p.members)
    OBVIOUS
  <2>1. IsFiniteSet(p.members \ {v}) /\ u \notin p.members \ {v}
    BY <1>4
  <2>2. Cardinality((p.members \ {v}) \cup {u})
           = Cardinality(p.members \ {v}) + 1
    BY <2>1, FS_AddElement
  <2> QED
    BY <1>2, <1>4, <2>2
<1>7. /\ Size(p) = Cardinality(p.members) + p.gone
      /\ Size(Uninvited(p, u)) = Cardinality(p.members) + p.gone
      /\ Size(Joined(p, u)) = Cardinality(p.members \cup {u}) + p.gone
      /\ Size(WithoutMember(p, u)) = Cardinality(p.members \ {u}) + p.gone
      /\ Size(Handed(p, u, v))
            = Cardinality((p.members \ {v}) \cup {u}) + p.gone
  <2>1. Size(p) = Cardinality(p.members) + p.gone
    BY DEF Size
  <2>2. Size(Uninvited(p, u)) = Cardinality(p.members) + p.gone
    BY UninvitedShape, Zenon DEF Size
  <2>3. Size(Joined(p, u)) = Cardinality(p.members \cup {u}) + p.gone
    BY JoinedShape, Zenon DEF Size
  <2>4. Size(WithoutMember(p, u)) = Cardinality(p.members \ {u}) + p.gone
    BY WithoutMemberShape, Zenon DEF Size
  <2>5. Size(Handed(p, u, v))
           = Cardinality((p.members \ {v}) \cup {u}) + p.gone
    BY HandedShape, Zenon DEF Size
  <2> QED
    BY <2>1, <2>2, <2>3, <2>4, <2>5
<1>8. Size(Zeroed(p, u)) = Cardinality(p.members \ {u})
                             + (IF u \in p.members THEN p.gone + 1 ELSE p.gone)
  BY ZeroedShape, Zenon DEF Size
<1> QED
  BY <1>1, <1>2, <1>3, <1>4, <1>5, <1>6, <1>7, <1>8

LEMMA FormedSize == Size(Formed) = 0
BY FormedShape, FS_EmptySet DEF Size

\* What TypeOK says of one party.
LEMMA PartyType ==
    ASSUME TypeOK, NEW n \in Players
    PROVE  /\ Exists(n) => party[n] \in Parties
           /\ leader[n] \in Players \cup {None}
BY DEF TypeOK, Exists

-----------------------------------------------------------------------------
(* The invariant step by step.  MembersAgree and LeadersAgree as facts to  *)
(* cite about one party and one body.                                      *)

LEMMA MembersFacts ==
    ASSUME MembersAgree, NEW n \in Players, Exists(n)
    PROVE  /\ \A u \in party[n].members : u \in here /\ leader[u] = n /\ u # n
           /\ party[n].members \cap party[n].invited = {}
           /\ n \notin party[n].invited
           /\ Size(party[n]) <= MaxParty
BY DEF MembersAgree

LEMMA LeadersFacts ==
    ASSUME LeadersAgree, NEW n \in Players, n \notin orphaned
    PROVE  /\ Exists(n) => Leads(n)
           /\ \A u \in here : leader[u] = n =>
                 Exists(n) /\ (u = n \/ u \in party[n].members)
BY DEF LeadersAgree

LEMMA InitIInv == Init => IInv
BY PartyAssumption
   DEF Init, IInv, TypeOK, PartiesAgree, MembersAgree, LeadersAgree,
       InvitationsTimed, Exists

LEMMA FormStep == ASSUME IInv, NEW u \in Players, Form(u) PROVE IInv'
<1> USE DEF IInv, PartiesAgree
<1>1. /\ u \in here /\ leader[u] = None /\ ~Exists(u)
      /\ party' = [party EXCEPT ![u] = Formed]
      /\ leader' = [leader EXCEPT ![u] = u]
      /\ UNCHANGED <<here, timers, orphaned, inherited>>
  BY DEF Form
<1>2. TypeOK'
  BY <1>1, FormedShape DEF TypeOK
<1>3. /\ party'[u] = Formed /\ leader'[u] = u
      /\ \A n \in Players \ {u} : party'[n] = party[n] /\ leader'[n] = leader[n]
  BY <1>1 DEF TypeOK
<1>4. Formed # None /\ u # None
  BY FormedShape, PartyAssumption
<1>5. ASSUME NEW n \in Players, Exists(n)'
      PROVE  /\ \A w \in party'[n].members : w \in here' /\ leader'[w] = n /\ w # n
             /\ party'[n].members \cap party'[n].invited = {}
             /\ n \notin party'[n].invited
             /\ Size(party'[n]) <= MaxParty
  <2>1. CASE n = u
    BY <2>1, <1>3, FormedShape, FormedSize, PartyAssumption
  <2>2. CASE n # u
    <3>1. Exists(n) /\ party'[n] = party[n] /\ party[n] \in Parties
      BY <1>5, <2>2, <1>3, PartyType DEF Exists
    <3>2. u \notin party[n].members
      BY <3>1, <1>1, MembersFacts, PartyAssumption
    <3>3. party[n].members \subseteq Players
      BY <3>1 DEF Parties
    <3> QED
      BY <3>1, <3>2, <3>3, <1>1, <1>3, MembersFacts
  <2> QED
    BY <2>1, <2>2
<1>6. MembersAgree'
  BY <1>5 DEF MembersAgree
<1>7. ASSUME NEW n \in Players, n \notin orphaned'
      PROVE  /\ Exists(n)' => Leads(n)'
             /\ \A w \in here' : leader'[w] = n =>
                   Exists(n)' /\ (w = n \/ w \in party'[n].members)
  <2>1. here \subseteq Players
    BY DEF TypeOK
  <2>2. CASE n = u
    BY <2>1, <2>2, <1>1, <1>3, <1>4, <1>7, LeadersFacts DEF Exists, Leads
  <2>3. CASE n # u
    BY <2>1, <2>3, <1>1, <1>3, <1>7, LeadersFacts DEF Exists, Leads
  <2> QED
    BY <2>2, <2>3
<1>8. LeadersAgree'
  BY <1>7 DEF LeadersAgree
<1>9. InvitationsTimed'
  BY <1>1, <1>3, FormedShape DEF InvitationsTimed, Exists
<1> QED
  BY <1>2, <1>6, <1>8, <1>9

LEMMA InviteStep ==
    ASSUME IInv, NEW u \in Players, NEW v \in Players, Invite(u, v) PROVE IInv'
<1> USE DEF IInv, PartiesAgree
<1> DEFINE p == [party[u] EXCEPT !.invited = @ \cup {v}]
<1>1. /\ Leads(u) /\ v \in here \ {u} /\ Exists(u)
      /\ v \notin party[u].members
      /\ timers' = timers \cup {[le |-> u, me |-> v, left |-> Timeout]}
      /\ UNCHANGED <<here, leader, orphaned, inherited>>
  BY DEF Invite
<1>2. /\ p \in Parties
      /\ p.members = party[u].members /\ p.gone = party[u].gone
      /\ p.invited = party[u].invited \cup {v}
  <2>1. party[u] \in Parties
    BY <1>1, PartyType
  <2> QED
    BY <2>1 DEF Parties
<1>3. /\ party' = [party EXCEPT ![u] = p]
      /\ party'[u] = p
      /\ \A n \in Players \ {u} : party'[n] = party[n]
  BY DEF Invite, TypeOK
<1>4. \A n \in Players : Exists(n)' <=> Exists(n)
  BY <1>1, <1>2, <1>3, PartyAssumption DEF Exists
<1> HIDE DEF p
<1>5. TypeOK'
  <2>1. party' \in [Players -> Parties \cup {None}]
    BY <1>2, <1>3 DEF TypeOK
  <2>2. timers' \subseteq [le : Players, me : Players, left : 0 .. Timeout]
    BY <1>1, PartyAssumption DEF TypeOK
  <2> QED
    BY <1>1, <2>1, <2>2 DEF TypeOK
<1>6. ASSUME NEW n \in Players, Exists(n)'
      PROVE  /\ \A w \in party'[n].members : w \in here' /\ leader'[w] = n /\ w # n
             /\ party'[n].members \cap party'[n].invited = {}
             /\ n \notin party'[n].invited
             /\ Size(party'[n]) <= MaxParty
  <2>1. CASE n = u
    <3>1. Size(p) = Size(party[u])
      BY <1>2 DEF Size
    <3> QED
      BY <2>1, <1>1, <1>2, <1>3, <3>1, MembersFacts
  <2>2. CASE n # u
    BY <2>2, <1>1, <1>3, <1>4, <1>6, MembersFacts
  <2> QED
    BY <2>1, <2>2
<1>7. ASSUME NEW n \in Players, n \notin orphaned'
      PROVE  /\ Exists(n)' => Leads(n)'
             /\ \A w \in here' : leader'[w] = n =>
                   Exists(n)' /\ (w = n \/ w \in party'[n].members)
  <2>1. party'[n] # None => Exists(n) /\ party'[n].members = party[n].members
    BY <1>1, <1>2, <1>3, <1>4 DEF Exists
  <2> QED
    BY <2>1, <1>1, <1>4, <1>7, LeadersFacts DEF Leads, Exists
<1>8. InvitationsTimed'
  <2> SUFFICES ASSUME NEW n \in Players \ (orphaned \cup inherited),
                      Exists(n)', NEW w \in party'[n].invited
               PROVE  \E t \in timers' : t.le = n /\ t.me = w
    BY <1>1 DEF InvitationsTimed
  <2>1. CASE n = u /\ w = v
    <3> DEFINE t == [le |-> u, me |-> v, left |-> Timeout]
    <3>1. t \in timers' /\ t.le = u /\ t.me = v
      BY <1>1
    <3> QED
      BY <2>1, <3>1
  <2>2. CASE n # u \/ w # v
    <3>1. Exists(n) /\ w \in party[n].invited
      BY <2>2, <1>2, <1>3, <1>4
    <3> QED
      BY <3>1, <1>1 DEF InvitationsTimed
  <2> QED
    BY <2>1, <2>2
<1> QED
  BY <1>5, <1>6, <1>7, <1>8 DEF MembersAgree, LeadersAgree

LEMMA JoinStep ==
    ASSUME IInv, NEW u \in Players, NEW v \in Players, Join(u, v) PROVE IInv'
<1> USE DEF IInv, PartiesAgree
<1> DEFINE p == Joined(party[v], u)
<1>1. /\ u \in here /\ leader[u] = None /\ Leads(v) /\ Exists(v)
      /\ Size(party[v]) # MaxParty
      /\ u \notin party[v].members
      /\ party' = [party EXCEPT ![v] = p]
      /\ leader' = [leader EXCEPT ![u] = v]
      /\ UNCHANGED <<here, timers, orphaned, inherited>>
  BY DEF Join
<1>2. party[v] \in Parties /\ u # v
  BY <1>1, PartyType, PartyAssumption DEF Leads
<1>3. /\ p \in Parties
      /\ p.members = party[v].members \cup {u}
      /\ p.invited = party[v].invited \ {u}
      /\ Size(p) = Size(party[v]) + 1 /\ Size(party[v]) \in Nat
  <2>1. /\ p \in Parties
        /\ p.members = party[v].members \cup {u}
        /\ p.invited = party[v].invited \ {u}
    BY <1>2, JoinedShape, Zenon
  <2>2. Size(p) = Size(party[v]) + 1 /\ Size(party[v]) \in Nat
    BY <1>1, <1>2, Sizes, Zenon
  <2> QED
    BY <2>1, <2>2
<1> HIDE DEF p
<1>4. /\ party'[v] = p /\ leader'[u] = v
      /\ \A n \in Players \ {v} : party'[n] = party[n]
      /\ \A n \in Players \ {u} : leader'[n] = leader[n]
  BY <1>1 DEF TypeOK
<1>5. \A n \in Players : Exists(n)' <=> Exists(n)
  BY <1>1, <1>3, <1>4, PartyAssumption DEF Exists
<1>6. TypeOK'
  BY <1>1, <1>3 DEF TypeOK
<1>7. ASSUME NEW n \in Players, Exists(n)'
      PROVE  /\ \A w \in party'[n].members : w \in here' /\ leader'[w] = n /\ w # n
             /\ party'[n].members \cap party'[n].invited = {}
             /\ n \notin party'[n].invited
             /\ Size(party'[n]) <= MaxParty
  <2>1. Exists(n) /\ party[n].members \subseteq here /\ u \notin party[n].members
    <3>1. Exists(n)
      BY <1>5, <1>7
    <3> QED
      BY <3>1, <1>1, MembersFacts, PartyAssumption
  <2>2. here \subseteq Players
    BY DEF TypeOK
  <2>3. CASE n = v
    <3>1. Size(party[v]) <= MaxParty
      BY <1>1, MembersFacts
    <3>2. Size(party'[n]) <= MaxParty
      BY <3>1, <2>3, <1>1, <1>3, <1>4, PartyAssumption
    <3> QED
      BY <2>1, <2>2, <2>3, <3>2, <1>1, <1>2, <1>3, <1>4, MembersFacts
  <2>4. CASE n # v
    BY <2>1, <2>2, <2>4, <1>1, <1>4, MembersFacts
  <2> QED
    BY <2>3, <2>4
<1>8. ASSUME NEW n \in Players, n \notin orphaned'
      PROVE  /\ Exists(n)' => Leads(n)'
             /\ \A w \in here' : leader'[w] = n =>
                   Exists(n)' /\ (w = n \/ w \in party'[n].members)
  <2>1. here \subseteq Players
    BY DEF TypeOK
  <2>2. CASE n = v
    BY <2>1, <2>2, <1>1, <1>2, <1>3, <1>4, <1>5, <1>8, LeadersFacts DEF Leads
  <2>3. CASE n # v
    <3>1. party'[n] = party[n] /\ (Exists(n) => leader[n] = n /\ n # u)
      BY <2>3, <1>1, <1>4, <1>8, LeadersFacts, PartyAssumption DEF Leads
    <3> QED
      BY <2>1, <2>3, <3>1, <1>1, <1>4, <1>5, <1>8, LeadersFacts DEF Leads
  <2> QED
    BY <2>2, <2>3
<1>9. InvitationsTimed'
  <2>1. \A n \in Players : Exists(n)' =>
           Exists(n) /\ party'[n].invited \subseteq party[n].invited
    BY <1>3, <1>4, <1>5
  <2> QED
    BY <2>1, <1>1 DEF InvitationsTimed
<1> QED
  BY <1>6, <1>7, <1>8, <1>9 DEF MembersAgree, LeadersAgree

\* leave, remove, and a member who loses his link or dies
LEMMA DisbandMemberStep ==
    ASSUME IInv, NEW n \in Players, NEW u \in Players, DisbandMember(n, u),
           UNCHANGED <<here, timers, orphaned, inherited>>
    PROVE  IInv'
<1> USE DEF IInv, PartiesAgree
<1>1. CASE ~(Exists(n) /\ u \in party[n].members)
  BY <1>1 DEF DisbandMember, TypeOK, MembersAgree, LeadersAgree,
              InvitationsTimed, Exists, Leads
<1>2. CASE Exists(n) /\ u \in party[n].members
  <2> DEFINE p == WithoutMember(party[n], u)
  <2>1. /\ party' = [party EXCEPT ![n] = p]
        /\ leader' = [leader EXCEPT ![u] = None]
        /\ leader[u] = n /\ u # n
    BY <1>2, MembersFacts DEF DisbandMember
  <2>2. party[n] \in Parties
    BY <1>2, PartyType
  <2>3. /\ p \in Parties
        /\ p.members = party[n].members \ {u}
        /\ p.invited = party[n].invited
        /\ Size(p) \in Nat /\ Size(p) <= Size(party[n]) /\ Size(party[n]) \in Nat
    BY <2>2, WithoutMemberShape, Sizes
  <2> HIDE DEF p
  <2>4. /\ party'[n] = p /\ leader'[u] = None
        /\ \A m \in Players \ {n} : party'[m] = party[m]
        /\ \A m \in Players \ {u} : leader'[m] = leader[m]
    BY <2>1 DEF TypeOK
  <2>5. \A m \in Players : Exists(m)' <=> Exists(m)
    BY <1>2, <2>3, <2>4, PartyAssumption DEF Exists
  <2>6. TypeOK'
    BY <2>1, <2>3 DEF TypeOK
  <2>7. ASSUME NEW m \in Players, Exists(m)'
        PROVE  /\ \A w \in party'[m].members :
                     w \in here' /\ leader'[w] = m /\ w # m
               /\ party'[m].members \cap party'[m].invited = {}
               /\ m \notin party'[m].invited
               /\ Size(party'[m]) <= MaxParty
    <3>1. Exists(m) /\ here \subseteq Players
      BY <2>5, <2>7 DEF TypeOK
    <3>2. CASE m = n
      <4>1. Size(party'[m]) <= MaxParty
        BY <3>1, <3>2, <2>3, <2>4, MembersFacts, PartyAssumption
      <4> QED
        BY <3>1, <3>2, <4>1, <2>3, <2>4, MembersFacts
    <3>3. CASE m # n
      BY <3>1, <3>3, <2>1, <2>4, MembersFacts
    <3> QED
      BY <3>2, <3>3
  <2>8. ASSUME NEW m \in Players, m \notin orphaned'
        PROVE  /\ Exists(m)' => Leads(m)'
               /\ \A w \in here' : leader'[w] = m =>
                     Exists(m)' /\ (w = m \/ w \in party'[m].members)
    <3>1. Exists(m) => Leads(m) /\ m # u
      BY <2>1, <2>8, LeadersFacts DEF Leads
    <3>2. here \subseteq Players
      BY DEF TypeOK
    <3> QED
      BY <3>1, <3>2, <2>3, <2>4, <2>5, <2>8, LeadersFacts, PartyAssumption
         DEF Leads
  <2>9. InvitationsTimed'
    BY <2>3, <2>4, <2>5 DEF InvitationsTimed
  <2> QED
    BY <2>6, <2>7, <2>8, <2>9 DEF MembersAgree, LeadersAgree
<1> QED
  BY <1>1, <1>2

\* disband, and a leader who loses his link or dies
LEMMA DisbandPartyStep ==
    ASSUME IInv, NEW u \in Players, leader[u] = u, DisbandParty(u),
           UNCHANGED <<here, timers, orphaned>>
    PROVE  IInv'
<1> USE DEF IInv, PartiesAgree
<1>1. CASE ~Exists(u)
  BY <1>1 DEF DisbandParty, TypeOK, MembersAgree, LeadersAgree,
              InvitationsTimed, Exists, Leads
<1>2. CASE Exists(u)
  <2>1. /\ party' = [party EXCEPT ![u] = None]
        /\ leader' = Freed(u)
        /\ inherited' = inherited \ {u}
    BY <1>2 DEF DisbandParty
  <2>2. /\ party'[u] = None
        /\ \A m \in Players \ {u} : party'[m] = party[m]
        /\ \A m \in Players : leader'[m] =
              IF m = u \/ m \in party[u].members THEN None ELSE leader[m]
    BY <2>1 DEF TypeOK, Freed
  <2>3. \A w \in party[u].members : leader[w] = u
    BY <1>2, MembersFacts
  <2>4. TypeOK'
    BY <2>1 DEF TypeOK, Freed
  <2>5. ASSUME NEW m \in Players, Exists(m)'
        PROVE  /\ \A w \in party'[m].members :
                     w \in here' /\ leader'[w] = m /\ w # m
               /\ party'[m].members \cap party'[m].invited = {}
               /\ m \notin party'[m].invited
               /\ Size(party'[m]) <= MaxParty
    <3>1. m # u /\ Exists(m) /\ party'[m] = party[m] /\ here \subseteq Players
      BY <2>2, <2>5 DEF TypeOK, Exists
    <3> QED
      BY <3>1, <2>2, <2>3, MembersFacts
  <2>6. ASSUME NEW m \in Players, m \notin orphaned'
        PROVE  /\ Exists(m)' => Leads(m)'
               /\ \A w \in here' : leader'[w] = m =>
                     Exists(m)' /\ (w = m \/ w \in party'[m].members)
    <3>1. here \subseteq Players
      BY DEF TypeOK
    <3>2. CASE m = u
      BY <3>1, <3>2, <2>2, <2>6, LeadersFacts, PartyAssumption DEF Exists
    <3>3. CASE m # u
      BY <3>1, <3>3, <2>2, <2>3, <2>6, LeadersFacts, PartyAssumption
         DEF Exists, Leads
    <3> QED
      BY <3>2, <3>3
  <2>7. InvitationsTimed'
    BY <2>1, <2>2 DEF InvitationsTimed, Exists
  <2> QED
    BY <2>4, <2>5, <2>6, <2>7 DEF MembersAgree, LeadersAgree
<1> QED
  BY <1>1, <1>2

LEMMA ChangeLeaderStep ==
    ASSUME IInv, NEW u \in Players, NEW v \in Players, ChangeLeader(u, v)
    PROVE  IInv'
<1> USE DEF IInv, PartiesAgree
<1> DEFINE p == Handed(party[u], u, v)
           M == party[u].members
<1>1. /\ Leads(u) /\ v \in here /\ leader[v] = u /\ Exists(u) /\ v \in M
      /\ leader' = LedBy(u, v)
      /\ party' = [party EXCEPT ![v] = p, ![u] = None]
      /\ inherited' = (inherited \ {u}) \cup {v}
      /\ UNCHANGED <<here, timers, orphaned>>
  BY DEF ChangeLeader
<1>2. party[u] \in Parties /\ M \subseteq here /\ here \subseteq Players
  BY <1>1, PartyType, MembersFacts DEF TypeOK
<1>3. /\ u # v /\ u \notin M /\ u \in here /\ leader[u] = u
      /\ M \cap party[u].invited = {} /\ u \notin party[u].invited
      /\ Size(party[u]) <= MaxParty
      /\ \A w \in M : leader[w] = u
  BY <1>1, MembersFacts DEF Leads
<1>4. /\ p \in Parties
      /\ p.members = (M \ {v}) \cup {u}
      /\ p.invited = party[u].invited
  BY <1>2, HandedShape
<1>5. Size(p) = Size(party[u])
  BY <1>1, <1>2, <1>3, Sizes
<1> HIDE DEF p
<1>6. /\ party'[u] = None /\ party'[v] = p
      /\ \A n \in Players \ {u, v} : party'[n] = party[n]
  BY <1>1, <1>3 DEF TypeOK
<1>7. \A w \in Players :
         leader'[w] = IF w \in {u, v} \cup M THEN v ELSE leader[w]
  BY <1>1 DEF LedBy
<1>8. p # None
  BY <1>4, PartyAssumption
<1> HIDE DEF M
<1>9. TypeOK'
  <2>1. leader' \in [Players -> Players \cup {None}]
    BY <1>1 DEF TypeOK, LedBy
  <2>2. party' \in [Players -> Parties \cup {None}]
    BY <1>1, <1>4 DEF TypeOK
  <2> QED
    BY <1>1, <2>1, <2>2 DEF TypeOK
<1>10. ASSUME NEW n \in Players, Exists(n)'
      PROVE  /\ \A w \in party'[n].members : w \in here' /\ leader'[w] = n /\ w # n
             /\ party'[n].members \cap party'[n].invited = {}
             /\ n \notin party'[n].invited
             /\ Size(party'[n]) <= MaxParty
  <2>1. CASE n = v
    <3>1. party'[n].members = (M \ {v}) \cup {u}
          /\ party'[n].invited = party[u].invited
          /\ Size(party'[n]) <= MaxParty
      BY <2>1, <1>3, <1>4, <1>5, <1>6
    <3>2. \A w \in (M \ {v}) \cup {u} :
             w \in here' /\ leader'[w] = v /\ w # v
      BY <1>1, <1>2, <1>3, <1>7
    <3>3. v \notin party[u].invited
      BY <1>1, <1>3
    <3> QED
      BY <2>1, <3>1, <3>2, <3>3, <1>3
  <2>2. CASE n # v
    <3>1. n # u /\ Exists(n) /\ party'[n] = party[n]
      BY <2>2, <1>6, <1>10 DEF Exists
    <3> QED
      BY <2>2, <3>1, <1>1, <1>2, <1>3, <1>7, MembersFacts
  <2> QED
    BY <2>1, <2>2
<1>11. ASSUME NEW n \in Players, n \notin orphaned'
      PROVE  /\ Exists(n)' => Leads(n)'
             /\ \A w \in here' : leader'[w] = n =>
                   Exists(n)' /\ (w = n \/ w \in party'[n].members)
  <2>1. \A w \in here : leader[w] = u /\ u \notin orphaned => w = u \/ w \in M
    BY <1>1, LeadersFacts DEF M
  <2>2. CASE n = v
    <3>1. ~Exists(v)
      BY <2>2, <1>1, <1>3, <1>11, LeadersFacts DEF Leads
    <3> QED
      <4>1. \A w \in here : leader[w] # v
        BY <2>2, <3>1, <1>1, <1>11, LeadersFacts
      <4>2. Exists(v)' /\ leader'[v] = v /\ v \in here'
        BY <1>1, <1>6, <1>7, <1>8 DEF Exists
      <4>3. \A w \in here' : leader'[w] = v => w = v \/ w \in party'[v].members
        BY <4>1, <1>1, <1>2, <1>4, <1>6, <1>7
      <4> QED
        BY <2>2, <4>2, <4>3 DEF Leads
  <2>3. CASE n = u
    <3>1. ~Exists(n)'
      BY <2>3, <1>6 DEF Exists
    <3>2. \A w \in here' : leader'[w] # u
      BY <2>1, <2>3, <1>1, <1>2, <1>3, <1>7, <1>11
    <3> QED
      BY <2>3, <3>1, <3>2
  <2>4. CASE n \notin {u, v}
    <3>1. party'[n] = party[n] /\ n \notin orphaned
      BY <2>4, <1>1, <1>6, <1>11
    <3>2. Exists(n) => Leads(n)'
      <4> HAVE Exists(n)
      <4>1. n \in here /\ leader[n] = n
        BY <3>1, LeadersFacts DEF Leads
      <4>2. n \notin {u, v} \cup M
        BY <4>1, <2>4, <1>3
      <4> QED
        BY <4>1, <4>2, <1>1, <1>7 DEF Leads
    <3>3. ASSUME NEW w \in here', leader'[w] = n
          PROVE  Exists(n) /\ (w = n \/ w \in party[n].members)
      <4>1. w \in here /\ leader[w] = n
        BY <3>3, <2>4, <1>1, <1>2, <1>7
      <4> QED
        BY <4>1, <3>1, LeadersFacts
    <3> QED
      BY <3>1, <3>2, <3>3 DEF Exists
  <2> QED
    BY <2>2, <2>3, <2>4
<1>12. InvitationsTimed'
  BY <1>1, <1>6 DEF InvitationsTimed, Exists
<1> QED
  BY <1>9, <1>10, <1>11, <1>12 DEF MembersAgree, LeadersAgree

LEMMA ExpireStep == ASSUME IInv, Expire PROVE IInv'
<1> USE DEF IInv, PartiesAgree
<1>1. PICK t \in Due :
        /\ timers' = timers \ {t}
        /\ party' = IF Exists(t.le)
                    THEN [party EXCEPT ![t.le] = Uninvited(@, t.me)]
                    ELSE party
        /\ UNCHANGED <<here, leader, orphaned, inherited>>
  BY DEF Expire
<1>2. t \in timers /\ t.le \in Players /\ t.me \in Players
  BY DEF Due, TypeOK
<1>3. \A n \in Players : party[n] \in Parties =>
         /\ Uninvited(party[n], t.me) \in Parties
         /\ Uninvited(party[n], t.me).members = party[n].members
         /\ Uninvited(party[n], t.me).invited = party[n].invited \ {t.me}
         /\ Size(Uninvited(party[n], t.me)) = Size(party[n])
  BY <1>2, UninvitedShape, Sizes
<1>4. TypeOK'
  <2>1. party' \in [Players -> Parties \cup {None}]
    BY <1>1, <1>2, <1>3, PartyType DEF TypeOK
  <2> QED
    BY <1>1, <2>1 DEF TypeOK
<1>5. \A n \in Players : party'[n] = IF n = t.le /\ Exists(n)
                                    THEN Uninvited(party[n], t.me)
                                    ELSE party[n]
  BY <1>1, <1>2 DEF TypeOK
<1>6. ASSUME NEW n \in Players
      PROVE  /\ Exists(n)' <=> Exists(n)
             /\ Exists(n) =>
                   /\ party'[n].members = party[n].members
                   /\ Size(party'[n]) = Size(party[n])
                   /\ party'[n].invited =
                         IF n = t.le THEN party[n].invited \ {t.me}
                         ELSE party[n].invited
  <2>1. CASE n = t.le /\ Exists(n)
    BY <2>1, <1>3, <1>5, PartyType, PartyAssumption DEF Exists
  <2>2. CASE ~(n = t.le /\ Exists(n))
    BY <2>2, <1>5 DEF Exists
  <2> QED
    BY <2>1, <2>2
<1>7. MembersAgree'
  <2> SUFFICES ASSUME NEW n \in Players, Exists(n)'
               PROVE  /\ \A w \in party'[n].members :
                            w \in here' /\ leader'[w] = n /\ w # n
                      /\ party'[n].members \cap party'[n].invited = {}
                      /\ n \notin party'[n].invited
                      /\ Size(party'[n]) <= MaxParty
    BY DEF MembersAgree
  <2>1. Exists(n)
    BY <1>6
  <2>2. /\ party'[n].members = party[n].members
        /\ Size(party'[n]) = Size(party[n])
        /\ party'[n].invited \subseteq party[n].invited
    BY <2>1, <1>6
  <2>3. \A w \in party[n].members : w \in here' /\ leader'[w] = n /\ w # n
    BY <2>1, <1>1, MembersFacts
  <2> QED
    BY <2>1, <2>2, <2>3, MembersFacts
<1>8. LeadersAgree'
  BY <1>1, <1>6 DEF LeadersAgree, Leads
<1>9. InvitationsTimed'
  <2> SUFFICES ASSUME NEW n \in Players \ (orphaned \cup inherited),
                      Exists(n)', NEW w \in party'[n].invited
               PROVE  \E r \in timers' : r.le = n /\ r.me = w
    BY <1>1 DEF InvitationsTimed
  <2>1. Exists(n) /\ w \in party[n].invited /\ ~(n = t.le /\ w = t.me)
    BY <1>6
  <2>2. PICK r \in timers : r.le = n /\ r.me = w
    BY <2>1 DEF InvitationsTimed
  <2>3. r \in timers'
    BY <2>1, <2>2, <1>1
  <2> QED
    BY <2>2, <2>3
<1> QED
  BY <1>4, <1>7, <1>8, <1>9

LEMMA TickStep == ASSUME IInv, Tick PROVE IInv'
<1> USE DEF IInv, PartiesAgree
<1>1. /\ Due = {}
      /\ timers' = {[t EXCEPT !.left = @ - 1] : t \in timers}
      /\ UNCHANGED <<here, leader, party, orphaned, inherited>>
  BY DEF Tick
<1>2. \A t \in timers :
         /\ [t EXCEPT !.left = @ - 1]
               \in [le : Players, me : Players, left : 0 .. Timeout]
         /\ [t EXCEPT !.left = @ - 1].le = t.le
         /\ [t EXCEPT !.left = @ - 1].me = t.me
  BY <1>1, PartyAssumption DEF Due, TypeOK
<1>3. TypeOK'
  BY <1>1, <1>2 DEF TypeOK
<1>4. MembersAgree' /\ LeadersAgree'
  BY <1>1 DEF MembersAgree, LeadersAgree, Leads, Exists
<1>5. InvitationsTimed'
  <2> SUFFICES ASSUME NEW n \in Players \ (orphaned \cup inherited),
                      Exists(n), NEW w \in party[n].invited
               PROVE  \E t \in timers' : t.le = n /\ t.me = w
    BY <1>1 DEF InvitationsTimed, Exists
  <2>1. PICK t \in timers : t.le = n /\ t.me = w
    BY DEF InvitationsTimed
  <2> DEFINE s == [t EXCEPT !.left = @ - 1]
  <2>2. s \in timers' /\ s.le = n /\ s.me = w
    BY <2>1, <1>1, <1>2
  <2> QED
    BY <2>2
<1> QED
  BY <1>3, <1>4, <1>5

LEMMA EnterStep == ASSUME IInv, NEW u \in Players, Enter(u) PROVE IInv'
<1> USE DEF IInv, PartiesAgree
<1>1. /\ u \notin here /\ here' = here \cup {u}
      /\ leader' = [leader EXCEPT ![u] = None]
      /\ UNCHANGED <<party, timers, orphaned, inherited>>
  BY DEF Enter
<1>2. TypeOK'
  BY <1>1 DEF TypeOK
<1>3. leader'[u] = None /\ \A w \in Players \ {u} : leader'[w] = leader[w]
  BY <1>1 DEF TypeOK
<1>4. MembersAgree'
  BY <1>1, <1>3 DEF MembersAgree, Exists, TypeOK
<1>5. LeadersAgree'
  BY <1>1, <1>3, PartyAssumption DEF LeadersAgree, Leads, Exists, TypeOK
<1>6. InvitationsTimed'
  BY <1>1 DEF InvitationsTimed, Exists
<1> QED
  BY <1>2, <1>4, <1>5, <1>6

\* A death or a broken link: check_party() for leader or member.
LEMMA NetDeadStep == ASSUME IInv, NEW u \in Players, NetDead(u) PROVE IInv'
<1>1. CheckParty(u) /\ UNCHANGED <<here, timers, orphaned>>
  BY DEF NetDead
<1>2. CASE leader[u] = u
  BY <1>1, <1>2, DisbandPartyStep DEF CheckParty
<1>3. CASE leader[u] # u /\ leader[u] \in here
  <2>1. DisbandMember(leader[u], u) /\ leader[u] \in Players
    BY <1>1, <1>3 DEF CheckParty, IInv, TypeOK
  <2> QED
    BY <1>1, <1>3, <2>1, DisbandMemberStep DEF CheckParty
<1>4. CASE leader[u] # u /\ leader[u] \notin here
  <2>1. UNCHANGED vars
    BY <1>1, <1>4 DEF CheckParty, vars
  <2> QED
    BY <2>1 DEF vars, IInv, TypeOK, PartiesAgree, MembersAgree, LeadersAgree,
                InvitationsTimed, Leads, Exists
<1> QED
  BY <1>2, <1>3, <1>4

\* A body that goes: what quit() and a destruct have in common.  The party of
\* a leader goes with him, or he is an orphan's leader from now on.
LEMMA GoneStep ==
    ASSUME IInv, NEW u \in Players, TypeOK',
           here' = here \ {u}, timers' = Without(u),
           \A n \in Players : Exists(n)' =>
              /\ Exists(n)
              /\ party'[n].members = party[n].members \ {u}
              /\ party'[n].invited = party[n].invited \ {u}
              /\ Size(party'[n]) \in Nat /\ Size(party[n]) \in Nat
              /\ Size(party'[n]) <= Size(party[n]),
           \A n \in Players : Exists(n) =>
              Exists(n)' \/ (n = u /\ leader[u] = u),
           leader'[u] = None,
           \A w \in Players \ {u} :
              \/ leader'[w] = leader[w]
              \/ leader'[w] = None /\ leader[w] = u /\ ~Exists(u)',
           orphaned \subseteq orphaned',
           leader[u] = u /\ u \notin orphaned' =>
              ~Exists(u)' /\ \A w \in here' : leader'[w] # u,
           \A n \in inherited : n \in inherited' \/ ~Exists(n)'
    PROVE  IInv'
<1> USE DEF IInv, PartiesAgree
<1>1. here \subseteq Players /\ orphaned \subseteq Players
  BY DEF TypeOK
<1>2. ASSUME NEW n \in Players, Exists(n)'
      PROVE  /\ \A w \in party'[n].members : w \in here' /\ leader'[w] = n /\ w # n
             /\ party'[n].members \cap party'[n].invited = {}
             /\ n \notin party'[n].invited
             /\ Size(party'[n]) <= MaxParty
  <2>1. /\ Exists(n)
        /\ party'[n].members = party[n].members \ {u}
        /\ party'[n].invited = party[n].invited \ {u}
    BY <1>2
  <2>2. Size(party'[n]) <= MaxParty
    BY <1>2, <2>1, MembersFacts, PartyAssumption
  <2>3. ASSUME NEW w \in party'[n].members
        PROVE  w \in here' /\ leader'[w] = n /\ w # n
    <3>1. w \in here /\ w # u /\ leader[w] = n /\ w # n
      BY <2>1, <2>3, MembersFacts
    <3>2. leader'[w] = n
      BY <3>1, <1>1, <1>2
    <3> QED
      BY <3>1, <3>2
  <2> QED
    BY <2>1, <2>2, <2>3, MembersFacts
<1>3. ASSUME NEW n \in Players, n \notin orphaned', Exists(n)'
      PROVE  Leads(n)' /\ n # u
  <2>1. Exists(n) /\ n \notin orphaned
    BY <1>3
  <2>2. n \in here /\ leader[n] = n
    BY <2>1, LeadersFacts DEF Leads
  <2>3. n # u
    BY <2>2, <1>3
  <2> QED
    BY <2>2, <2>3 DEF Leads
<1>4. ASSUME NEW n \in Players, n \notin orphaned',
             NEW w \in here', leader'[w] = n
      PROVE  Exists(n)' /\ (w = n \/ w \in party'[n].members)
  <2>1. w \in here /\ w # u /\ leader[w] = n /\ n \notin orphaned
    BY <1>1, <1>4, PartyAssumption
  <2>2. Exists(n) /\ (w = n \/ w \in party[n].members)
    BY <2>1, LeadersFacts
  <2>3. Exists(n)'
    BY <1>4, <2>2
  <2> QED
    BY <2>1, <2>2, <2>3
<1>5. InvitationsTimed'
  <2> SUFFICES ASSUME NEW n \in Players \ (orphaned' \cup inherited'),
                      Exists(n)', NEW w \in party'[n].invited
               PROVE  \E t \in timers' : t.le = n /\ t.me = w
    BY DEF InvitationsTimed
  <2>1. n # u /\ n \notin orphaned /\ n \notin inherited
    BY <1>3
  <2>2. Exists(n) /\ w \in party[n].invited /\ w # u
    OBVIOUS
  <2>3. PICK t \in timers : t.le = n /\ t.me = w
    BY <2>1, <2>2 DEF InvitationsTimed
  <2>4. t \in timers'
    BY <2>1, <2>2, <2>3 DEF Without
  <2> QED
    BY <2>3, <2>4
<1> QED
  BY <1>2, <1>3, <1>4, <1>5 DEF MembersAgree, LeadersAgree

LEMMA TimersLeft == \A u : TypeOK => Without(u) \subseteq timers
BY DEF Without

LEMMA DestStep == ASSUME IInv, NEW u \in Players, Dest(u) PROVE IInv'
<1> USE DEF IInv, PartiesAgree
<1>1. /\ u \in here /\ here' = here \ {u}
      /\ leader' = [leader EXCEPT ![u] = None]
      /\ party' = [n \in Players |-> Zeroed(party[n], u)]
      /\ timers' = Without(u)
      /\ orphaned' = IF leader[u] = u THEN orphaned \cup {u} ELSE orphaned
      /\ UNCHANGED inherited
  BY DEF Dest
<1>2. ASSUME NEW n \in Players
      PROVE  /\ party'[n] \in Parties \cup {None}
             /\ Exists(n)' <=> Exists(n)
             /\ Exists(n) =>
                   /\ party'[n].members = party[n].members \ {u}
                   /\ party'[n].invited = party[n].invited \ {u}
                   /\ Size(party[n]) \in Nat
                   /\ Size(party'[n]) = Size(party[n])
  <2>1. party'[n] = Zeroed(party[n], u)
    BY <1>1
  <2>2. CASE Exists(n)
    BY <2>1, <2>2, PartyType, ZeroedShape, Sizes, PartyAssumption DEF Exists
  <2>3. CASE ~Exists(n)
    BY <2>1, <2>3, NoneZeroed DEF Exists
  <2> QED
    BY <2>2, <2>3
<1>3. TypeOK'
  <2>1. party' \in [Players -> Parties \cup {None}]
    BY <1>1, <1>2
  <2> QED
    BY <1>1, <2>1, TimersLeft DEF TypeOK
<1>4. leader'[u] = None /\ \A w \in Players \ {u} : leader'[w] = leader[w]
  BY <1>1 DEF TypeOK
<1>5. orphaned \subseteq orphaned' /\ (leader[u] = u => u \in orphaned')
  BY <1>1
<1> QED
  <2>1. \A n \in Players : Exists(n)' =>
           /\ Exists(n)
           /\ party'[n].members = party[n].members \ {u}
           /\ party'[n].invited = party[n].invited \ {u}
           /\ Size(party'[n]) \in Nat /\ Size(party[n]) \in Nat
           /\ Size(party'[n]) <= Size(party[n])
    BY <1>2
  <2>2. \A n \in Players : Exists(n) => Exists(n)' \/ (n = u /\ leader[u] = u)
    BY <1>2
  <2>3. \A w \in Players \ {u} :
           \/ leader'[w] = leader[w]
           \/ leader'[w] = None /\ leader[w] = u /\ ~Exists(u)'
    BY <1>4
  <2>4. leader[u] = u /\ u \notin orphaned' =>
           ~Exists(u)' /\ \A w \in here' : leader'[w] # u
    BY <1>5
  <2>5. \A n \in inherited : n \in inherited' \/ ~Exists(n)'
    BY <1>1
  <2> QED
    BY <1>1, <1>3, <1>4, <1>5, <2>1, <2>2, <2>3, <2>4, <2>5, GoneStep, Zenon

LEMMA QuitStep == ASSUME IInv, NEW u \in Players, Quit(u) PROVE IInv'
<1> USE DEF IInv, PartiesAgree
<1> DEFINE X(n) == IF n # leader[u] THEN party[n]
                   ELSE IF n = u THEN None
                   ELSE IF n \in here /\ Exists(n)
                   THEN WithoutMember(party[n], u)
                   ELSE party[n]
           Told == leader[u] = u /\ Exists(u)
<1>1. /\ u \in here /\ here' = here \ {u}
      /\ leader' = [(IF Told THEN Freed(u) ELSE leader) EXCEPT ![u] = None]
      /\ party' = [n \in Players |-> Zeroed(X(n), u)]
      /\ timers' = Without(u)
      /\ inherited' = IF leader[u] = u THEN inherited \ {u} ELSE inherited
      /\ UNCHANGED orphaned
  BY DEF Quit
<1>2. ASSUME NEW n \in Players, ~(n = u /\ leader[u] = u)
      PROVE  /\ party'[n] \in Parties \cup {None}
             /\ Exists(n)' <=> Exists(n)
             /\ Exists(n) =>
                   /\ party'[n].members = party[n].members \ {u}
                   /\ party'[n].invited = party[n].invited \ {u}
                   /\ Size(party'[n]) \in Nat /\ Size(party[n]) \in Nat
                   /\ Size(party'[n]) <= Size(party[n])
  <2>1. CASE ~Exists(n)
    <3>1. party'[n] = Zeroed(None, u)
      BY <1>1, <1>2, <2>1 DEF Exists
    <3> QED
      BY <2>1, <3>1, NoneZeroed DEF Exists
  <2>2. CASE Exists(n)
    <3>1. party[n] \in Parties
      BY <2>2, PartyType
    <3>2. CASE party'[n] = Zeroed(party[n], u)
      BY <3>1, <3>2, <2>2, ZeroedShape, Sizes, PartyAssumption DEF Exists
    <3>3. CASE party'[n] = Zeroed(WithoutMember(party[n], u), u)
      <4> DEFINE q == WithoutMember(party[n], u)
      <4>1. /\ q \in Parties
            /\ q.members = party[n].members \ {u}
            /\ q.invited = party[n].invited
            /\ Size(q) \in Nat /\ Size(q) <= Size(party[n])
            /\ Size(party[n]) \in Nat
        BY <3>1, WithoutMemberShape, Sizes
      <4> HIDE DEF q
      <4>2. /\ Zeroed(q, u) \in Parties
            /\ Zeroed(q, u).members = q.members \ {u}
            /\ Zeroed(q, u).invited = q.invited \ {u}
            /\ Size(Zeroed(q, u)) = Size(q)
        BY <4>1, ZeroedShape, Sizes
      <4>3. party'[n] = Zeroed(q, u)
        BY <3>3 DEF q
      <4> QED
        BY <4>1, <4>2, <4>3, <2>2, PartyAssumption DEF Exists
    <3>4. X(n) \in {party[n], WithoutMember(party[n], u)}
      BY <1>2
    <3> QED
      BY <3>2, <3>3, <3>4, <1>1
  <2> QED
    BY <2>1, <2>2
<1>3. leader[u] = u => party'[u] = None
  BY <1>1, NoneZeroed
<1>4. /\ leader'[u] = None
      /\ \A w \in Players \ {u} :
            leader'[w] = IF Told /\ w \in party[u].members THEN None
                         ELSE leader[w]
  BY <1>1 DEF Freed, TypeOK
<1> HIDE DEF X
<1>5. Told => \A w \in party[u].members : leader[w] = u
  BY MembersFacts
<1>6. TypeOK'
  <2>1. party' \in [Players -> Parties \cup {None}]
    <3>1. \A n \in Players : party'[n] \in Parties \cup {None}
      BY <1>2, <1>3
    <3> QED
      BY <3>1, <1>1
  <2>2. leader' \in [Players -> Players \cup {None}]
    BY <1>1 DEF Freed, TypeOK
  <2> QED
    BY <1>1, <2>1, <2>2, TimersLeft DEF TypeOK
<1>7. \A n \in Players : Exists(n)' => ~(n = u /\ leader[u] = u)
  BY <1>3 DEF Exists
<1>8. \A w \in Players \ {u} :
         \/ leader'[w] = leader[w]
         \/ leader'[w] = None /\ leader[w] = u /\ ~Exists(u)'
  BY <1>4, <1>5, <1>7
<1>9. leader[u] = u /\ u \notin orphaned' =>
         ~Exists(u)' /\ \A w \in here' : leader'[w] # u
  <2> SUFFICES ASSUME leader[u] = u, u \notin orphaned, NEW w \in here'
               PROVE  leader'[w] # u
    BY <1>1, <1>7
  <2>1. w \in here /\ w # u /\ w \in Players
    BY <1>1 DEF TypeOK
  <2>2. leader[w] = u => Told /\ w \in party[u].members
    BY <2>1, LeadersFacts
  <2> QED
    BY <2>1, <2>2, <1>4, PartyAssumption
<1>10. \A n \in inherited : n \in inherited' \/ ~Exists(n)'
  BY <1>1, <1>7
<1>11. \A n \in Players : Exists(n) => Exists(n)' \/ (n = u /\ leader[u] = u)
  BY <1>2
<1> HIDE DEF Told
<1> QED
  <2>1. \A n \in Players : Exists(n)' =>
           /\ Exists(n)
           /\ party'[n].members = party[n].members \ {u}
           /\ party'[n].invited = party[n].invited \ {u}
           /\ Size(party'[n]) \in Nat /\ Size(party[n]) \in Nat
           /\ Size(party'[n]) <= Size(party[n])
    BY <1>2, <1>7
  <2>2. orphaned \subseteq orphaned' /\ leader'[u] = None
        /\ here' = here \ {u} /\ timers' = Without(u)
    BY <1>1, <1>4
  <2> QED
    BY <2>1, <2>2, <1>6, <1>8, <1>9, <1>10, <1>11, GoneStep, Zenon

-----------------------------------------------------------------------------
(* The theorems.                                                           *)

LEMMA NextIInv == IInv /\ [Next]_vars => IInv'
<1> SUFFICES ASSUME IInv, [Next]_vars PROVE IInv'
  OBVIOUS
<1>1. ASSUME NEW u \in Players, Leave(u) PROVE IInv'
  <2>1. leader[u] \in Players
    BY <1>1 DEF Leave, IInv, TypeOK
  <2> QED
    BY <1>1, <2>1, DisbandMemberStep DEF Leave
<1>2. ASSUME NEW u \in Players, NEW v \in Players, Remove(u, v) PROVE IInv'
  BY <1>2, DisbandMemberStep DEF Remove
<1>3. ASSUME NEW u \in Players, Disband(u) PROVE IInv'
  BY <1>3, DisbandPartyStep DEF Disband, Leads
<1>4. CASE Command
  BY <1>1, <1>2, <1>3, <1>4, FormStep, InviteStep, JoinStep, ChangeLeaderStep,
     EnterStep, NetDeadStep, QuitStep, DestStep DEF Command
<1>5. CASE UNCHANGED vars
  BY <1>5 DEF vars, IInv, TypeOK, PartiesAgree, MembersAgree, LeadersAgree,
              InvitationsTimed, Leads, Exists
<1> QED
  BY <1>4, <1>5, ExpireStep, TickStep DEF Next

\* The inductive invariant of the party daemon and the bodies.
THEOREM PartyInvariant == Spec => []IInv
BY InitIInv, NextIInv, PTL DEF Spec

\* The daemon's mappings and the bodies' property keep their shape.
THEOREM PartyTypes == Spec => []TypeOK
BY PartyInvariant, PTL DEF IInv

\* Bodies and daemon agree who leads whom, for any number of players and
\* parties: nobody is in two, or follows one who does not know him.
THEOREM PartiesAlwaysAgree == Spec => []PartiesAgree
BY PartyInvariant, PTL DEF IInv

\* Every invitation has a call_out that will withdraw it, but those of a party
\* that was handed over.
THEOREM InvitationsExpire == Spec => []InvitationsTimed
BY PartyInvariant, PTL DEF IInv
=============================================================================
