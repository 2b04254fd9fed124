------------------------------ MODULE Economy ------------------------------
(***************************************************************************)
(* Money: the purses of bodies (property "wealth", std/living.c), coins    *)
(* (std/coins.c) given, dropped, taken and put into containers, the bank   *)
(* and its cards (std/bank.c, std/bank_card.c), the exchange               *)
(* (std/exchange.c), the shop (std/shop.c), and what death, saving and     *)
(* crashes do to it all (std/user.c).                                      *)
(*                                                                         *)
(* Purse and balance are part of the body's file.  A coin weighs one unit  *)
(* of the body's capacity.  Out of the model are money that other objects  *)
(* give for nothing (credit()), containers that are carried, and the size  *)
(* of containers: one may be too small for any coins.                      *)
(***************************************************************************)
EXTENDS Integers, SequencesExt, FiniteSetsExt

CONSTANTS
    Users,
    Types,        \* of coins
    Kinds,        \* COINTYPES: the list of them, the highest first
    Value,        \* COINVALS: Value[t] of a coin, in the lowest
    Goods,        \* what the shop sells
    Price,        \* Price[g]: its "value", [type, num]
    MaxCapacity,  \* what a body can carry
    Start,        \* Start[u]: the purse u starts with
    MaxWorth,     \* bound: money in the world
    MaxMoved      \* bound: coins moved at a time

\* coins_carried(), of a purse
Coins(p) == SumFunction(p)
None == "storeroom"

ASSUME EconomyAssumption ==
    /\ IsFiniteSet(Users) /\ IsFiniteSet(Goods) /\ None \notin Users
    /\ Kinds \in Seq(Types)
    /\ \A t \in Types : \E i \in DOMAIN Kinds : Kinds[i] = t
    /\ \A t \in Types : Value[t] \in Nat \ {0}
    /\ \A i, j \in DOMAIN Kinds : i < j =>
          /\ Value[Kinds[i]] > Value[Kinds[j]]
          /\ Value[Kinds[i]] % Value[Kinds[j]] = 0
    /\ \A g \in Goods : Price[g].type \in Types /\ Price[g].num \in Nat \ {0}
    /\ MaxCapacity \in Nat /\ MaxWorth \in Nat /\ MaxMoved \in Nat
    /\ Start \in [Users -> [Types -> Nat]]
    /\ \A u \in Users : Coins(Start[u]) <= MaxCapacity

VARIABLES
    here,         \* whose bodies are in the game
    dead,         \* whose accounts are marked dead: they are ghosts
    purse,        \* "wealth" of each body
    bank,         \* "bank_balance" of each body
    capacity,     \* "capacity" of each body
    file,         \* the bodies' files: [purse, bank]
    floor,        \* coins in the room
    box,          \* coins in a container, or corpse, there
    owner         \* owner[g]: who carries g; else it is in the storeroom

vars == <<here, dead, purse, bank, capacity, file, floor, box, owner>>

Alive == here \ dead
NoCoins == [t \in Types |-> 0]

\* member_array() of t in the list; the kinds above t, upwards, and those
\* below, downwards
Place(t) == CHOOSE i \in DOMAIN Kinds : Kinds[i] = t
Higher(t) == [i \in 1 .. Place(t) - 1 |-> Kinds[Place(t) - i]]
Lower(t) == [i \in 1 .. Len(Kinds) - Place(t) |-> Kinds[Place(t) + i]]

Init ==
    /\ here = Users /\ dead = {}
    /\ purse = Start
    /\ bank = [u \in Users |-> NoCoins]
    /\ capacity = [u \in Users |-> MaxCapacity - Coins(Start[u])]
    /\ file = [u \in Users |-> [purse |-> Start[u], bank |-> NoCoins]]
    /\ floor = NoCoins /\ box = NoCoins
    /\ owner = [g \in Goods |-> None]

\* total_wealth()
Total(p) == MapThenSumSet(LAMBDA t : p[t] * Value[t], Types)

\* u pays pay[t] of each kind t; what is less than 0 he gets.
Pay(u, pay) ==
    /\ purse' = [purse EXCEPT ![u] = [t \in Types |-> @[t] - pay[t]]]
    /\ capacity' = [capacity EXCEPT ![u] = @ + Coins(pay)]
Only(t, n) == [NoCoins EXCEPT ![t] = n]
Fits(u, n) == capacity[u] >= n

-----------------------------------------------------------------------------
(* Coins from hand to hand and in the room.                                *)

\* give: the coins are taken from the purse, moved, and put back if they are
\* too heavy for the other.
\* Mutant: they are put back although the other has them.
GivenBack(u, v, t, n) ==
    /\ purse' = [purse EXCEPT ![v][t] = @ + n]
    /\ capacity' = [capacity EXCEPT ![v] = @ - n]
\* Mutant: they are set in the other's purse, and weigh nothing.
GivenUnweighed(u, v, t, n) ==
    /\ purse' = [purse EXCEPT ![u][t] = @ - n, ![v][t] = @ + n]
    /\ capacity' = [capacity EXCEPT ![u] = @ + n]
Given(u, v, t, n) ==
    /\ purse' = [purse EXCEPT ![u][t] = @ - n, ![v][t] = @ + n]
    /\ capacity' = [capacity EXCEPT ![u] = @ + n, ![v] = @ - n]
Give(u, v, t, n) ==
    /\ u \in Alive /\ v \in Alive \ {u}
    /\ n <= purse[u][t] /\ Fits(v, n)
    /\ Given(u, v, t, n)
    /\ UNCHANGED <<here, dead, bank, file, floor, box, owner>>

\* drop
Drop(u, t, n) ==
    /\ u \in Alive /\ n <= purse[u][t]
    /\ Pay(u, Only(t, n))
    /\ floor' = [floor EXCEPT ![t] = @ + n]
    /\ UNCHANGED <<here, dead, bank, file, box, owner>>

\* get
Get(u, t, n) ==
    /\ u \in Alive /\ n <= floor[t] /\ Fits(u, n)
    /\ Pay(u, Only(t, -n))
    /\ floor' = [floor EXCEPT ![t] = @ - n]
    /\ UNCHANGED <<here, dead, bank, file, box, owner>>

\* put_into(), of a container that has room
PutInto(u, t, n) ==
    /\ u \in Alive /\ n <= purse[u][t]
    /\ Pay(u, Only(t, n))
    /\ box' = [box EXCEPT ![t] = @ + n]
    /\ UNCHANGED <<here, dead, bank, file, floor, owner>>

\* get_from(): that the coins were too heavy is not noticed.
GetFrom(u, t, n) ==
    /\ u \in Alive /\ n <= box[t]
    /\ IF Fits(u, n) THEN Pay(u, Only(t, -n)) ELSE UNCHANGED <<purse, capacity>>
    /\ box' = [box EXCEPT ![t] = @ - n]
    /\ UNCHANGED <<here, dead, bank, file, floor, owner>>

\* A corpse decays; what was in it lies in the room.
Decay ==
    /\ box # NoCoins
    /\ floor' = [t \in Types |-> floor[t] + box[t]]
    /\ box' = NoCoins
    /\ UNCHANGED <<here, dead, purse, bank, capacity, file, owner>>

-----------------------------------------------------------------------------
(* The exchange and the bank.                                              *)

\* change(): n coins of kind s, for coins of kind t and the change in s
Back(s, t, n) == ((n * Value[s]) % Value[t]) \div Value[s]
Change(u, s, t, n) ==
    LET new == (n * Value[s]) \div Value[t]
    IN  /\ u \in Alive /\ n <= purse[u][s]
        /\ s # t        \* or nothing changes
        /\ new # 0
        /\ capacity[u] > new + Back(s, t, n) - n
        /\ Pay(u, [Only(s, n - Back(s, t, n)) EXCEPT ![t] = -new])
        /\ UNCHANGED <<here, dead, bank, file, floor, box, owner>>

\* open_account(), a skill from a guild, a drink: coins for good
Spend(u, t, n) ==
    /\ u \in Alive /\ n <= purse[u][t]
    /\ Pay(u, Only(t, n))
    /\ UNCHANGED <<here, dead, bank, file, floor, box, owner>>

\* deposit(), with the card of w, which w may have given him: add_val()
\* finds the balance only while w is in the game.
Deposit(u, w, t, n) ==
    /\ u \in Alive /\ n <= purse[u][t]
    /\ Pay(u, Only(t, n))
    /\ bank' = IF w \in Alive THEN [bank EXCEPT ![w][t] = @ + n] ELSE bank
    /\ UNCHANGED <<here, dead, file, floor, box, owner>>

\* withdraw(): n coins of kind t, for as many of a kind of which there are
\* enough, t itself first, and of which n coins are worth a whole number
Covers(w, t, n, s) ==
    /\ (n * Value[t]) % Value[s] = 0
    /\ bank[w][s] >= (n * Value[t]) \div Value[s]
Withdraw(u, w, t, n) ==
    /\ u \in Alive /\ w \in Alive
    /\ Fits(u, n)
    /\ LET tried == <<t>> \o Kinds
           can   == {i \in DOMAIN tried : Covers(w, t, n, tried[i])}
           s     == tried[Min(can)]
       IN  /\ can # {}
           /\ bank' = [bank EXCEPT ![w][s] = @ - ((n * Value[t]) \div Value[s])]
    /\ Pay(u, Only(t, -n))
    /\ UNCHANGED <<here, dead, file, floor, box, owner>>

-----------------------------------------------------------------------------
(* The shop.                                                               *)

\* What buy() tries, in this order, for n coins of kind t: these; for each
\* higher kind that and t without change, first much of the higher and then
\* much of t; all of t and a lower kind; a higher kind with change in t.
Changed(t, n, s) == (n * Value[t] + Value[s] - 1) \div Value[s]

Mixed(t, n, s, new) ==
    [Only(s, new) EXCEPT ![t] = (n * Value[t] - new * Value[s]) \div Value[t]]

OffersUp(t, n, k, s) ==
    LET rest == (n - k) * Value[t]
        b    == rest \div Value[s]
        more == IF n * Value[t] - b * Value[s] > k * Value[t] THEN 1 ELSE 0
    IN  <<Mixed(t, n, s, (n * Value[t]) \div Value[s]), Mixed(t, n, s, b + more)>>

OfferDown(t, n, k, s) ==
    [Only(s, ((n - k) * Value[t]) \div Value[s]) EXCEPT ![t] = k]

OfferChange(t, n, s) ==
    [Only(s, Changed(t, n, s)) EXCEPT
        ![t] = -((Changed(t, n, s) * Value[s] - n * Value[t]) \div Value[t])]

Offers(t, n, k) ==
    LET up   == Higher(t)
        down == Lower(t)
    IN  IF k >= n THEN <<Only(t, n)>>
        ELSE FlattenSeq([i \in DOMAIN up |-> OffersUp(t, n, k, up[i])])
             \o [i \in DOMAIN down |-> OfferDown(t, n, k, down[i])]
             \o [i \in DOMAIN up |-> OfferChange(t, n, up[i])]

\* Which of them he has the coins for
Affordable(p, offers) ==
    {i \in DOMAIN offers : \A s \in Types : p[s] >= offers[i][s]}

\* buy(), with the first of them; if the good, of weight 1, is too heavy, he has
\* his money back.
Buy(u, g) ==
    /\ u \in Alive /\ owner[g] = None
    /\ LET t      == Price[g].type
           n      == Price[g].num
           offers == Offers(t, n, purse[u][t])
           can    == Affordable(purse[u], offers)
           pay    == offers[Min(can)]
       IN  /\ can # {}
           /\ capacity[u] + Coins(pay) >= 1
           /\ purse' = [purse EXCEPT ![u] = [s \in Types |-> @[s] - pay[s]]]
           /\ capacity' = [capacity EXCEPT ![u] = @ + Coins(pay) - 1]
    /\ owner' = [owner EXCEPT ![g] = u]
    /\ UNCHANGED <<here, dead, bank, file, floor, box>>

\* sell(): three quarters of the price, in its kind and the next lower one;
\* at least one of the lowest.  Too heavy, and he has the good again.
Sold(t, n) ==
    IF Lower(t) = <<>> THEN Only(t, IF (n * 3) \div 4 = 0 THEN 1 ELSE (n * 3) \div 4)
    ELSE LET s   == Lower(t)[1]
             sum == (n * Value[t] * 3) \div 4
         IN  [Only(t, sum \div Value[t]) EXCEPT ![s] = (sum % Value[t]) \div Value[s]]

Sell(u, g) ==
    LET gain   == Sold(Price[g].type, Price[g].num)
        weight == Coins(gain)
    IN  /\ u \in Alive /\ owner[g] = u
        /\ capacity[u] + 1 >= weight
        /\ purse' = [purse EXCEPT ![u] = [t \in Types |-> @[t] + gain[t]]]
        /\ capacity' = [capacity EXCEPT ![u] = @ + 1 - weight]
        /\ owner' = [owner EXCEPT ![g] = None]
        /\ UNCHANGED <<here, dead, bank, file, floor, box>>

-----------------------------------------------------------------------------
(* Bodies and their files.                                                 *)

Written(u) == [file EXCEPT ![u] = [purse |-> purse[u], bank |-> bank[u]]]
LosesGoods(S) == [g \in Goods |-> IF owner[g] \in S THEN None ELSE owner[g]]

\* A body that is not there has nothing, here.
Emptied(S) ==
    /\ purse' = [u \in Users |-> IF u \in S THEN NoCoins ELSE purse[u]]
    /\ bank' = [u \in Users |-> IF u \in S THEN NoCoins ELSE bank[u]]
    /\ capacity' = [u \in Users |-> IF u \in S THEN 0 ELSE capacity[u]]
    /\ owner' = LosesGoods(S)

\* A body made from its file
Restored(u) ==
    /\ purse' = [purse EXCEPT ![u] = file[u].purse]
    /\ bank' = [bank EXCEPT ![u] = file[u].bank]
    /\ capacity' = [capacity EXCEPT ![u] = MaxCapacity - Coins(file[u].purse)]

\* save_data(), by autosave, the save command or net_dead()
Save(u) ==
    /\ u \in Alive
    /\ file' = Written(u)
    /\ UNCHANGED <<here, dead, purse, bank, capacity, floor, box, owner>>

\* quit(); what the body carries it drops.
Quit(u) ==
    /\ u \in here
    /\ here' = here \ {u}
    /\ file' = IF u \in Alive THEN Written(u) ELSE file
    /\ Emptied({u})
    /\ UNCHANGED <<dead, floor, box>>

\* A dead one enters as a ghost.
Login(u) ==
    /\ u \notin here
    /\ here' = here \cup {u}
    /\ IF u \in dead THEN UNCHANGED <<purse, bank, capacity>> ELSE Restored(u)
    /\ UNCHANGED <<dead, file, floor, box, owner>>

\* die(): the coins move to the corpse, kind by kind, if it can hold them.
\* The body goes without being saved (its euid is 0 in that call_out).
Die(u) ==
    /\ u \in Alive
    /\ \E S \in SUBSET Types :
          box' = [t \in Types |-> IF t \in S THEN box[t] + purse[u][t] ELSE box[t]]
    /\ dead' = dead \cup {u}
    /\ Emptied({u})
    /\ UNCHANGED <<here, file, floor>>

\* revive(), of a ghost
Revive(u) ==
    /\ u \in here \cap dead
    /\ dead' = dead \ {u}
    /\ Restored(u)
    /\ UNCHANGED <<here, file, floor, box, owner>>

Crash ==
    /\ here' = {}
    /\ Emptied(Users)
    /\ floor' = NoCoins /\ box' = NoCoins
    /\ UNCHANGED <<dead, file>>

-----------------------------------------------------------------------------
(* What there is: bodies in the game have what they carry and their        *)
(* balance, the others what is in their files.                             *)
Costs == [g \in Goods |-> Price[g].num * Value[Price[g].type]]
Owned(u) == {g \in Goods : owner[g] = u}
Wealth(u) == IF u \in Alive
             THEN Total(purse[u]) + Total(bank[u])
                  + SumFunctionOnSet(Costs, Owned(u))
             ELSE Total(file[u].purse) + Total(file[u].bank)
Worth == SumFunction([u \in Users |-> Wealth(u)]) + Total(floor) + Total(box)

Amounts == 1 .. MaxMoved

Money ==
    \E u \in Users, t \in Types, n \in Amounts :
       \/ \E v \in Users : Give(u, v, t, n)
       \/ Drop(u, t, n)
       \/ Get(u, t, n)
       \/ PutInto(u, t, n)
       \/ GetFrom(u, t, n)
       \/ \E s \in Types : Change(u, s, t, n)
       \/ Spend(u, t, n)
       \/ \E w \in Users : Deposit(u, w, t, n)
       \/ \E w \in Users : Withdraw(u, w, t, n)

Next ==
    \/ Money
    \/ Decay
    \/ \E u \in Users, g \in Goods : Buy(u, g)
    \/ \E u \in Users, g \in Goods : Sell(u, g)
    \/ \E u \in Users : Save(u)
    \/ \E u \in Users : Quit(u)
    \/ \E u \in Users : Login(u)
    \/ \E u \in Users : Revive(u)
    \/ ((\E u \in Users : Die(u)) \/ Crash) /\ Worth' <= MaxWorth

Spec == Init /\ [][Next]_vars

-----------------------------------------------------------------------------
\* Money, and what was bought for it, becomes more only by death (the file
\* keeps what lies by the corpse) and by a crash (one file is older than
\* another): never by giving, changing, buying and selling, by the bank, by
\* coins that do not fit, or by leaving the game and coming back.
NoMoneyMade ==
    [][Worth' <= Worth \/ Crash \/ \E u \in Users : Die(u)]_vars

\* The shape of the state; no purse, no balance and no capacity is less than
\* nothing.
TypeOK ==
    /\ here \subseteq Users /\ dead \subseteq Users
    /\ purse \in [Users -> [Types -> Nat]]
    /\ bank \in [Users -> [Types -> Nat]]
    /\ capacity \in [Users -> Nat]
    /\ file \in [Users -> [purse : [Types -> Nat], bank : [Types -> Nat]]]
    /\ floor \in [Types -> Nat] /\ box \in [Types -> Nat]
    /\ owner \in [Goods -> Users \cup {None}]

\* What a body can still carry and what it carries make up what it can carry
\* at all, after every transfer, done or refused; and no purse holds less
\* than nothing.
EncumbranceTrue ==
    \A u \in Alive :
       /\ capacity[u] + Coins(purse[u]) + Cardinality(Owned(u)) = MaxCapacity
       /\ capacity[u] >= 0
       /\ \A t \in Types : purse[u][t] >= 0 /\ bank[u][t] >= 0

\* Who is not in the game, or is dead, has none of the shop's goods; and what
\* a file says a body has, it can carry.
OnlyTheLivingOwn == \A g \in Goods : owner[g] \in Alive \cup {None}
FilesFit == \A u \in Users : Coins(file[u].purse) <= MaxCapacity

IInv == TypeOK /\ EncumbranceTrue /\ OnlyTheLivingOwn /\ FilesFit
=============================================================================
