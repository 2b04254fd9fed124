------------------------------ MODULE Session ------------------------------
(***************************************************************************)
(* Login, reconnection, displacement, death and departure of users: the    *)
(* login daemon (adm/daemons/logind.c, newuserd.c), the connection object  *)
(* (std/connection.c) and the session side of the bodies (std/user.c,      *)
(* std/body.c, std/ghost.c).                                               *)
(*                                                                         *)
(* The driver runs one callback at a time.  What interleaves is callbacks: *)
(* each socket has at most one pending input_to, objects have call_outs,   *)
(* and sockets break at any time.  A callback is one action.  An LPC       *)
(* runtime error ends a callback and keeps what it did so far.             *)
(*                                                                         *)
(* A reference to a destructed object reads as 0 in LPC, so destructing an *)
(* object here replaces every reference to it by None at once.             *)
(*                                                                         *)
(* Left out: the guest account, hibernation, "su", e-mail registration     *)
(* passwords, immortal wizards, data files that cannot be read, and users  *)
(* with "hushlogin" (their complete_setup() runs in setup()'s callback).   *)
(***************************************************************************)
EXTENDS Naturals, FiniteSets

CONSTANTS
    Sock,      \* telnet sockets
    Conn,      \* pool of connection objects (bound: how many can exist)
    Body,      \* pool of body objects (bound: how many can exist)
    Name,      \* account names
    OldName,   \* the accounts that exist when the mud starts
    Wizard,    \* accounts with the wizard flag
    Admin,     \* accounts in the adminaccess group
    MaxUsers,  \* MAX_USERS of include/login.h
    MaxTries,  \* tries at the password, 3 in get_password()
    MaxPw,     \* passwords are 1..MaxPw, the initial one is 1 (bound)
    None       \* LPC's 0 as an object or a string

ASSUME SessionAssumption ==
    /\ None \notin Sock \cup Conn \cup Body \cup Name
    /\ Conn \cap Body = {}
    /\ OldName \subseteq Name
    /\ Admin \subseteq Wizard /\ Wizard \subseteq Name
    /\ MaxPw \in Nat \ {0} /\ MaxTries \in Nat \ {0} /\ MaxUsers \in Nat
    /\ IsFiniteSet(Sock) /\ {"out", "statue"} \cap Sock = {}

VARIABLES
    at,     \* at[s]: the object socket s is interactive in, or None
    k,      \* k[s]: the pending input_to of socket s
    conn,   \* conn[c]: connection object
    body,   \* body[b]: user body or ghost
    cfile,  \* cfile[n]: data file of the connection; pw = 0: no file
    ufile   \* the names whose body has a data file

vars == <<at, k, conn, body, cfile, ufile>>

-----------------------------------------------------------------------------
(* Shapes of the state *)

Prompts == {"none", "get_name", "get_password", "exec_old_copy", "choice",
            "new_pass", "get_real_name", "complete_setup", "newpass"}

LoginPrompts == Prompts \ {"none", "complete_setup", "newpass"}

\* A pending input_to: the function, the object it carries, the retry count
\* and the name being chosen.
Cont == {r \in [f : Prompts, ob : Conn \cup Body \cup {None}, n : 0 .. MaxTries,
                nm : Name \cup {None}] :
            /\ r.ob \in Body => r.f = "complete_setup"
            /\ r.ob \in Conn => r.f \in LoginPrompts \cup {"newpass"}
            /\ r.f = "choice" => r.nm \in Name}
NoCont == [f |-> "none", ob |-> None, n |-> 0, nm |-> None]
Ask(f, o) == [f |-> f, ob |-> o, n |-> 0, nm |-> None]
Retry(f, o, n) == [f |-> f, ob |-> o, n |-> n, nm |-> None]

\* name, password, dead and body_ob of std/connection.c; timer: check_status
\* is scheduled; pend: a call_out that will call remove() is scheduled.
ConnRec == [live : BOOLEAN, name : Name \cup {None}, body : Body \cup {None},
            pw : 0 .. MaxPw, dead : BOOLEAN, timer : BOOLEAN, pend : BOOLEAN]
NoConn == [live |-> FALSE, name |-> None, body |-> None, pw |-> 0,
           dead |-> FALSE, timer |-> FALSE, pend |-> FALSE]

\* env: the body has an environment; once: it is known to find_player() (it
\* has a living name and O_ONCE_INTERACTIVE); dump: call_user_dump is
\* scheduled; dying: call_out("remove", 0) is scheduled.
BodyRec == [kind : {"none", "user", "ghost"}, name : Name \cup {None},
            link : Conn \cup {None}, env : BOOLEAN, once : BOOLEAN,
            heart : BOOLEAN, dump : BOOLEAN, dying : BOOLEAN]
NoBody == [kind |-> "none", name |-> None, link |-> None, env |-> FALSE,
           once |-> FALSE, heart |-> FALSE, dump |-> FALSE, dying |-> FALSE]

Interactive(o) == \E s \in Sock : at[s] = o
FreeConn == {c \in Conn : ~conn[c].live}
FreeBody == {b \in Body : body[b].kind = "none"}

\* A user body that init_setup() has registered and that is connected via c.
PlayingBody(n, c) == [NoBody EXCEPT !.kind = "user", !.name = n, !.link = c,
                                    !.once = TRUE, !.heart = TRUE]
GhostOf(n, c) == [NoBody EXCEPT !.kind = "ghost", !.name = n, !.link = c,
                                !.env = TRUE, !.once = TRUE, !.heart = TRUE]

\* save_data_conn(): nothing is written without a name and a password.
Saved(files, r) ==
    IF r.name = None \/ r.pw = 0 THEN files
    ELSE [files EXCEPT ![r.name] = [pw |-> r.pw, dead |-> r.dead]]

\* What destructing the objects in gone does to the sockets, the pending
\* input_to's, the connections and the bodies.
Closed(a, gone) == [s \in Sock |-> IF a[s] \in gone THEN None ELSE a[s]]
Forgotten(kk, a, gone) ==
    [s \in Sock |-> IF a[s] \in gone THEN NoCont
                    ELSE IF kk[s].ob \in gone THEN [kk[s] EXCEPT !.ob = None]
                    ELSE kk[s]]
ConnsLess(cs, gone) ==
    [c \in Conn |-> IF c \in gone THEN NoConn
                    ELSE IF cs[c].body \in gone THEN [cs[c] EXCEPT !.body = None]
                    ELSE cs[c]]
BodiesLess(bs, gone) ==
    [b \in Body |-> IF b \in gone THEN NoBody
                    ELSE IF bs[b].link \in gone THEN [bs[b] EXCEPT !.link = None]
                    ELSE bs[b]]
Destruct(gone) ==
    /\ at' = Closed(at, gone)
    /\ k' = Forgotten(k, at, gone)
    /\ conn' = ConnsLess(conn, gone)
    /\ body' = BodiesLess(body, gone)

\* exec(to, from): the socket, with its pending input_to, changes objects.
Moved(from, to) == [s \in Sock |-> IF at[s] = from THEN to ELSE at[s]]

\* connection::remove() refuses in a callback of a user's input, unless that
\* user (this_player(1)) is an admin; from a call_out, a heart_beat or
\* net_dead() it does not refuse.
MayRemove(n) == n \in Admin
\* link_data("dead") of a body.
LinkDead(b) == body[b].link # None /\ conn[body[b].link].dead
\* Mutant: nothing removes the connection of a body.
LinkOfKept(b) == {}
LinkOf(b) == {body[b].link} \ {None}
LinkIf(b, may) == IF may THEN LinkOf(b) ELSE {}

\* The files after body b set a property of its link, which saves it.
SavedVia(files, b) ==
    LET l == body[b].link
    IN  IF l # None /\ conn[l].body = b THEN Saved(files, conn[l]) ELSE files
SavedLink(files, b) ==
    IF body[b].link = None THEN files ELSE Saved(files, conn[body[b].link])

UserOf(o) == IF o \in Body THEN body[o].name ELSE conn[o].name

Init ==
    /\ at = [s \in Sock |-> None]
    /\ k = [s \in Sock |-> NoCont]
    /\ conn = [c \in Conn |-> NoConn]
    /\ body = [b \in Body |-> NoBody]
    /\ cfile = [n \in Name |-> [pw |-> IF n \in OldName THEN 1 ELSE 0,
                                dead |-> FALSE]]
    /\ ufile = OldName

-----------------------------------------------------------------------------
(* Login prompts *)

\* Input for prompt f arrives on socket s; c is the connection it carries.
At(s, f, c) == at[s] # None /\ k[s].f = f /\ k[s].ob = c /\ c \in Conn

\* master::connect() and connection::logon(): a new telnet link.
Connect(s) ==
    /\ at[s] = None
    /\ \E c \in FreeConn :
          /\ at' = [at EXCEPT ![s] = c]
          /\ k' = [k EXCEPT ![s] = Ask("get_name", c)]
          /\ conn' = [conn EXCEPT ![c] = [NoConn EXCEPT !.live = TRUE,
                                                        !.timer = TRUE]]
    /\ UNCHANGED <<body, cfile, ufile>>

\* remove_user(): the connection is removed by a call_out of 0 seconds.
RemoveUser(s, c) ==
    /\ k' = [k EXCEPT ![s] = NoCont]
    /\ conn' = [conn EXCEPT ![c].pend = TRUE]
    /\ UNCHANGED <<at, body, cfile, ufile>>

\* Mutant: an off-by-one in the test of MAX_USERS.
FullLate(n) == n \notin Admin /\ Cardinality({s \in Sock : at[s] # None}) > MaxUsers + 1
Users == {s \in Sock : at[s] # None}
Full(n) == n \notin Admin /\ Cardinality(Users) > MaxUsers

\* get_name(): "quit" or a full mud.
GetNameRefused(s, c) ==
    /\ At(s, "get_name", c)
    /\ RemoveUser(s, c)

\* get_name() of an account that exists: its data file is restored into the
\* connection and its password is asked for.
GetName(s, c, n) ==
    /\ At(s, "get_name", c)
    /\ ~Full(n)
    /\ cfile[n].pw # 0
    /\ conn' = [conn EXCEPT ![c].name = n, ![c].pw = cfile[n].pw,
                            ![c].dead = cfile[n].dead]
    /\ k' = [k EXCEPT ![s] = Retry("get_password", c, 1)]
    /\ UNCHANGED <<at, body, cfile, ufile>>

\* get_name() of a name that has no data file.
GetNewName(s, c, n) ==
    /\ At(s, "get_name", c)
    /\ ~Full(n)
    /\ cfile[n].pw = 0
    /\ k' = [k EXCEPT ![s] = [Ask("choice", c) EXCEPT !.nm = n]]
    /\ UNCHANGED <<at, conn, body, cfile, ufile>>

\* Mutant: a retry count that is compared with the wrong operator.
TooManyLate(n) == n > MaxTries
TooMany(n) == n >= MaxTries

\* get_password(), wrong password: some tries are allowed, and the last
\* failure is recorded in passwd_fail, which saves the connection.
WrongPassword(s, c) ==
    /\ At(s, "get_password", c)
    /\ IF TooMany(k[s].n)
         THEN /\ k' = [k EXCEPT ![s] = NoCont]
              /\ conn' = [conn EXCEPT ![c].pend = TRUE]
              /\ cfile' = Saved(cfile, conn[c])
         ELSE /\ k' = [k EXCEPT ![s].n = @ + 1]
              /\ UNCHANGED <<conn, cfile>>
    /\ UNCHANGED <<at, body, ufile>>

\* login_new_copy(): a new body, in the state a of the sockets, kk of the
\* input_to's, cs of the connections, bs of the bodies and fs of the files.
\* enter_world() saves the connection if it has a login failure to report.
LoginNewCopy(s, c, a, kk, cs, bs, fs) ==
    /\ \E b \in FreeBody :
         IF conn[c].name \in ufile
           THEN /\ at' = [a EXCEPT ![s] = b]
                /\ k' = [kk EXCEPT ![s] = Ask("complete_setup", b)]
                /\ conn' = [cs EXCEPT ![c].body = b]
                /\ body' = [bs EXCEPT ![b] = PlayingBody(conn[c].name, c)]
                /\ cfile' \in {fs, Saved(fs, conn[c])}
           ELSE \* the body has no data file; ob->remove() in the user's input
                LET gone == IF MayRemove(conn[c].name) THEN {c} ELSE {}
                IN  /\ at' = Closed(a, gone)
                    /\ k' = [Forgotten(kk, a, gone) EXCEPT ![s] = NoCont]
                    /\ conn' = ConnsLess([cs EXCEPT ![c].body = b], gone)
                    /\ body' = [bs EXCEPT ![b].kind = "user"]
                    /\ cfile' = IF gone = {} THEN fs ELSE Saved(fs, conn[c])
    /\ UNCHANGED ufile

\* find_player(): the objects with this living name that are or were users.
Players(n) == {b \in Body : body[b].once /\ body[b].name = n}

\* get_password(), right password, nobody of that name in the game.
EnterAfresh(s, c) ==
    /\ At(s, "get_password", c)
    /\ Players(conn[c].name) = {}
    /\ LoginNewCopy(s, c, at, k, conn, body, cfile)

\* Mutant: body->remove() is forgotten.
LimboKept(b, c) == {}
LimboGone(b, c) == {b} \cup LinkIf(b, MayRemove(conn[c].name))

\* get_password(), right password: a body without an environment ("login
\* limbo") is destructed, whoever is in it, and a new body is made.
EnterFromLimbo(s, c) ==
    /\ At(s, "get_password", c)
    /\ \E b \in Players(conn[c].name) :
          LET gone == LimboGone(b, c)
          IN  /\ ~body[b].env
              /\ LoginNewCopy(s, c, Closed(at, gone), Forgotten(k, at, gone),
                    ConnsLess(conn, gone), BodiesLess(body, gone),
                    IF MayRemove(conn[c].name) THEN SavedLink(cfile, b)
                                               ELSE cfile)

\* Mutant: restart_heart() is not called.
RestartedNot(r) == r
\* restart_heart() of a body.
Restarted(r) == [r EXCEPT !.heart = TRUE, !.dump = FALSE]

\* get_password(), right password, net-dead body in the game: connect() and
\* restart_heart().
Reconnect(s, c) ==
    /\ At(s, "get_password", c)
    /\ \E b \in Players(conn[c].name) :
          /\ body[b].env /\ ~Interactive(b)
          /\ at' = [at EXCEPT ![s] = b]
          /\ k' = [k EXCEPT ![s] = NoCont]
          /\ conn' = [conn EXCEPT ![c].body = b]
          /\ body' = [body EXCEPT ![b] = Restarted([body[b] EXCEPT !.link = c])]
    /\ cfile' = Saved(cfile, conn[c])
    /\ UNCHANGED ufile

\* get_password(), right password, body in the game and connected: ask
\* whether to throw the other one out.
AskToDisplace(s, c) ==
    /\ At(s, "get_password", c)
    /\ \E b \in Players(conn[c].name) :
          /\ body[b].env /\ Interactive(b)
          /\ k' = [k EXCEPT ![s] = Ask("exec_old_copy", c)]
          /\ conn' = [conn EXCEPT ![c].body = b]
    /\ cfile' = Saved(cfile, conn[c])
    /\ UNCHANGED <<at, body, ufile>>

\* Mutant: the exec() of the body's old socket is forgotten.
DisplacedNot(b, t) == at
\* Where the sockets are after exec(tmp, BODY_OB).
Displaced(b, t) == Moved(b, t)

\* exec_old_copy(), "y".  The sockets of the body move to a new connection t,
\* which is removed only if this is an admin; the body's setup() runs again
\* when the address differs, and leaves its prompt on the new socket.
ThrowOut(s, c, b, t, setup) ==
    LET may  == MayRemove(conn[c].name)
        gone == IF may THEN {t} \cup LinkOf(b) ELSE {}
        old  == [conn EXCEPT ![t] = [NoConn EXCEPT !.live = TRUE]]
        linked == [body EXCEPT ![b].link = c, ![b].heart = @ \/ setup]
        a    == [Displaced(b, t) EXCEPT ![s] = b]
        kk   == [k EXCEPT ![s] = IF setup THEN Ask("complete_setup", b)
                                          ELSE NoCont]
    IN  /\ at' = Closed(a, gone)
        /\ k' = Forgotten(kk, a, gone)
        /\ conn' = ConnsLess(old, gone)
        /\ body' = BodiesLess(linked, gone)
        /\ cfile' = IF may THEN SavedLink(cfile, b) ELSE cfile

ExecOldCopyYes(s, c) ==
    /\ At(s, "exec_old_copy", c)
    /\ LET b == conn[c].body IN
         \/ /\ b # None /\ Interactive(b)
            /\ \E t \in FreeConn, setup \in BOOLEAN :
                 /\ setup => body[b].kind = "user"
                 /\ ThrowOut(s, c, b, t, setup)
         \/ \* exec() of a body that has gone net-dead is an error
            /\ b # None /\ ~Interactive(b)
            /\ \E t \in FreeConn :
                 conn' = [conn EXCEPT ![t] = [NoConn EXCEPT !.live = TRUE]]
            /\ k' = [k EXCEPT ![s] = NoCont]
            /\ UNCHANGED <<at, body, cfile>>
         \/ \* query_link() of a body that is gone is an error
            /\ b = None
            /\ k' = [k EXCEPT ![s] = NoCont]
            /\ UNCHANGED <<at, conn, body, cfile>>
    /\ UNCHANGED ufile

\* exec_old_copy(), any other answer: a wizard gets a second body; for the
\* others user->remove() is called in the user's input; wizardp() of a body
\* that is gone is an error.
ExecOldCopyNo(s, c) ==
    /\ At(s, "exec_old_copy", c)
    /\ LET b == conn[c].body IN
         \/ /\ b # None /\ body[b].name \in Wizard
            /\ LoginNewCopy(s, c, at, k, conn, body, cfile)
         \/ /\ b # None => body[b].name \notin Wizard
            /\ k' = [k EXCEPT ![s] = NoCont]
            /\ UNCHANGED <<at, conn, body, cfile, ufile>>

-----------------------------------------------------------------------------
(* New accounts *)

\* choice(): "no", or the name is banned.
ChooseAgain(s, c) ==
    /\ At(s, "choice", c)
    /\ k' = [k EXCEPT ![s] = Ask("get_name", c)]
    /\ UNCHANGED <<at, conn, body, cfile, ufile>>

\* choice() from a banned site; the third bad answer to a prompt of
\* newuserd.c.
Rejected(s, c) ==
    /\ \E f \in {"choice", "new_pass", "get_real_name"} : At(s, f, c)
    /\ RemoveUser(s, c)

\* choice(), "yes", and create_new_user(): the name and a new body.
Choice(s, c) ==
    /\ At(s, "choice", c)
    /\ \E b \in FreeBody :
          /\ body' = [body EXCEPT ![b].kind = "user", ![b].name = k[s].nm]
          /\ conn' = [conn EXCEPT ![c].name = k[s].nm, ![c].body = b]
    /\ k' = [k EXCEPT ![s] = Ask("new_pass", c)]
    /\ UNCHANGED <<at, cfile, ufile>>

\* new_pass() and new_pass2(): the password is set, which saves the account.
NewPass(s, c, p) ==
    /\ At(s, "new_pass", c)
    /\ conn' = [conn EXCEPT ![c].pw = p]
    /\ cfile' = Saved(cfile, conn'[c])
    /\ k' = [k EXCEPT ![s] = Ask("get_real_name", c)]
    /\ UNCHANGED <<at, body, ufile>>

\* new_gender(), new_race(), new_email() and get_real_name(): connect() and
\* setup() of the new body, then both data files are written, the body's
\* only if it has a name.
GetRealName(s, c) ==
    /\ At(s, "get_real_name", c)
    /\ LET b == conn[c].body IN
         /\ at' = [at EXCEPT ![s] = b]
         /\ k' = [k EXCEPT ![s] = Ask("complete_setup", b)]
         /\ body' = [body EXCEPT ![b] = PlayingBody(conn[c].name, c)]
    /\ cfile' = Saved(cfile, conn[c])
    /\ ufile' = ufile \cup ({conn[c].name} \ {None})
    /\ UNCHANGED conn

-----------------------------------------------------------------------------
(* In the game *)

\* What create_ghost() and revive() share: switch_body() moves the sockets
\* of b to nb, and b is destructed at once (gone) or later.
SwitchBody(b, nb, new, dead, gone) ==
    LET l  == body[b].link
        a  == Moved(b, nb)
        cs == [conn EXCEPT ![l].body = nb, ![l].dead = dead]
        bs == [body EXCEPT ![nb] = new, ![b].link = None, ![b].once = FALSE,
                           ![b].dying = TRUE]
    IN  /\ at' = a
        /\ conn' = ConnsLess(cs, gone)
        /\ body' = BodiesLess(bs, gone)
        /\ cfile' = Saved(cfile, cs[l])

\* complete_setup(): the body enters the game, as a ghost if it died before.
CompleteSetup(s) ==
    /\ k[s].f = "complete_setup"
    /\ LET b == k[s].ob
           kk == [k EXCEPT ![s] = NoCont]
       IN
         \/ /\ b = None
            /\ k' = kk
            /\ UNCHANGED <<at, conn, body, cfile>>
         \/ /\ b # None
            /\ ~LinkDead(b)
            /\ k' = kk
            /\ body' = [body EXCEPT ![b].env = TRUE]
            /\ cfile' = SavedVia(cfile, b)
            /\ UNCHANGED <<at, conn>>
         \/ /\ b # None
            /\ LinkDead(b)
            /\ \E g \in FreeBody :
                 SwitchBody(b, g, GhostOf(body[b].name, body[b].link), TRUE, {b})
            /\ k' = Forgotten(kk, at', {b})
    /\ UNCHANGED ufile

\* die() of a connected user: switches to a ghost, and removes the dead body
\* by a call_out of 0 seconds.  A body without a link gets no further than
\* its corpse.
Die(b) ==
    /\ body[b].kind = "user" /\ body[b].env
    /\ body[b].link # None /\ ~LinkDead(b)
    /\ \E g \in FreeBody :
         SwitchBody(b, g, GhostOf(body[b].name, body[b].link), TRUE, {})
    /\ UNCHANGED <<k, ufile>>

\* The call_out of die(): user.c's remove().
RemoveDead(b) ==
    /\ body[b].dying
    /\ Destruct({b})
    /\ UNCHANGED <<cfile, ufile>>

\* revive(), by prayer or by another's spell: the ghost's user gets a body.
Revive(g) ==
    /\ body[g].kind = "ghost" /\ LinkDead(g)
    /\ \E b \in FreeBody :
         SwitchBody(g, b,
             [PlayingBody(body[g].name, body[g].link) EXCEPT !.env = TRUE], FALSE, {g})
    /\ k' = Forgotten(k, at', {g})
    /\ UNCHANGED ufile

\* quit() of a user or a ghost, typed: link->remove() is called in the
\* user's input, then the body is destructed, which closes the socket.
Quit(s) ==
    /\ at[s] \in Body /\ k[s] = NoCont
    /\ LET b == at[s]
           may == MayRemove(body[b].name)
       IN  /\ Destruct({b} \cup LinkIf(b, may))
           /\ cfile' = IF may THEN SavedLink(cfile, b)
                       ELSE IF body[b].kind = "user" THEN SavedVia(cfile, b)
                       ELSE cfile
    /\ UNCHANGED ufile

\* heart_beat(): quit() of an idle user, outside of any input.
IdleDump(b) ==
    /\ body[b].kind = "user" /\ body[b].heart
    /\ Interactive(b)
    /\ body[b].name \notin Wizard
    /\ Destruct({b} \cup LinkOf(b))
    /\ cfile' = SavedLink(cfile, b)
    /\ UNCHANGED ufile

-----------------------------------------------------------------------------
(* Broken links and timers *)

\* remove_interactive() of the driver while the user is at a login prompt.
HangUp(s) ==
    /\ at[s] \in Conn
    /\ at' = [at EXCEPT ![s] = None]
    /\ k' = [k EXCEPT ![s] = NoCont]
    /\ UNCHANGED <<conn, body, cfile, ufile>>

\* Mutant: LINKDEAD_DUMP is not scheduled.
NetDeadUnswept(r) == [r EXCEPT !.heart = FALSE]
\* The body after net_dead(): only a user's schedules call_user_dump.
NetDeadBody(r) == [r EXCEPT !.heart = FALSE, !.dump = r.kind = "user"]

\* remove_interactive() and net_dead() of a user or a ghost.
NetDead(s) ==
    /\ at[s] \in Body
    /\ LET b == at[s]
           a == [at EXCEPT ![s] = None]
           kk == [k EXCEPT ![s] = NoCont]
           bs == [body EXCEPT ![b] = NetDeadBody(@)]
       IN  /\ at' = Closed(a, LinkOf(b))
           /\ k' = Forgotten(kk, a, LinkOf(b))
           /\ conn' = ConnsLess(conn, LinkOf(b))
           /\ body' = BodiesLess(bs, LinkOf(b))
           /\ cfile' = SavedLink(cfile, b)
    /\ UNCHANGED ufile

\* call_user_dump("linkdead") by call_out: quit() of a net-dead user.
Sweep(b) ==
    /\ body[b].dump
    /\ Destruct({b} \cup LinkOf(b))
    /\ cfile' = SavedLink(cfile, b)
    /\ UNCHANGED ufile

\* remove() of a connection outside of any input: save and destruct.
RemoveConn(c) ==
    /\ Destruct({c})
    /\ cfile' = Saved(cfile, conn[c])
    /\ UNCHANGED ufile

BodyConnected(c) == conn[c].body # None /\ Interactive(conn[c].body)

\* Mutant: a connection that is still at a login prompt is left alone.
LoginOverLate(c) == ~Interactive(c) /\ ~BodyConnected(c)
LoginOver(c) == Interactive(c) \/ ~BodyConnected(c)

\* check_status(), five minutes after logon().
CheckStatus(c) ==
    /\ conn[c].timer
    /\ IF LoginOver(c)
         THEN RemoveConn(c)
         ELSE /\ conn' = [conn EXCEPT ![c].timer = FALSE]
              /\ UNCHANGED <<at, k, body, cfile, ufile>>

\* The call_out of remove_user().
CallOutRemove(c) ==
    /\ conn[c].pend
    /\ RemoveConn(c)

\* connection::clean_up(), called by the driver half an hour after the last
\* use, when every timer of the login has expired.
CleanUp(c) ==
    /\ conn[c].live /\ ~conn[c].timer /\ ~conn[c].pend
    /\ IF BodyConnected(c)
         THEN /\ cfile' = Saved(cfile, conn[c])
              /\ UNCHANGED <<at, k, conn, body, ufile>>
         ELSE RemoveConn(c)

\* Mutant: the driver cleans up before the login is over.
BodyCleanUpEarly(b) ==
    /\ body[b].kind # "none"
    /\ ~body[b].once /\ ~body[b].env
    /\ Destruct({b})
    /\ UNCHANGED <<cfile, ufile>>
\* clean_up() of std/object/ob_logic.c: a body that never was a user.
BodyCleanUp(b) ==
    /\ body[b].kind # "none"
    /\ ~body[b].once /\ ~body[b].env
    /\ \A c \in Conn : conn[c].body = b => ~conn[c].timer
    /\ Destruct({b})
    /\ UNCHANGED <<cfile, ufile>>

-----------------------------------------------------------------------------
(* The passwd command *)

\* cmd_passwd() and oldpass(): the right old password was given.
Passwd(s) ==
    /\ at[s] \in Body /\ k[s] = NoCont
    /\ body[at[s]].kind = "user" /\ body[at[s]].env
    /\ body[at[s]].link # None
    /\ k' = [k EXCEPT ![s] = Ask("newpass", body[at[s]].link)]
    /\ UNCHANGED <<at, conn, body, cfile, ufile>>

\* newpass() and npass2(): p is the new password, or 0 when it is rejected.
\* Both end in link->clean_up(), in the user's input.
Newpass(s, p) ==
    /\ k[s].f = "newpass"
    /\ LET l == k[s].ob
           r == IF p = 0 THEN conn[l] ELSE [conn[l] EXCEPT !.pw = p]
           kk == [k EXCEPT ![s] = NoCont]
           set == [conn EXCEPT ![l] = r]
           gone == IF BodyConnected(l) \/ ~MayRemove(UserOf(at[s])) THEN {}
                   ELSE {l}
       IN  IF l = None
             THEN /\ k' = kk
                  /\ UNCHANGED <<at, conn, body, cfile>>
             ELSE /\ at' = Closed(at, gone)
                  /\ k' = Forgotten(kk, at, gone)
                  /\ conn' = ConnsLess(set, gone)
                  /\ body' = BodiesLess(body, gone)
                  /\ cfile' = IF p # 0 \/ BodyConnected(l) \/ gone # {}
                              THEN Saved(cfile, r) ELSE cfile
    /\ UNCHANGED ufile

-----------------------------------------------------------------------------
\* The driver stops: objects and links are lost, data files stay.
Crash ==
    /\ at' = [s \in Sock |-> None]
    /\ k' = [s \in Sock |-> NoCont]
    /\ conn' = [c \in Conn |-> NoConn]
    /\ body' = [b \in Body |-> NoBody]
    /\ UNCHANGED <<cfile, ufile>>

LoginStep(s, c) ==
    \/ GetNameRefused(s, c)
    \/ \E n \in Name : GetName(s, c, n) \/ GetNewName(s, c, n)
    \/ WrongPassword(s, c)
    \/ EnterAfresh(s, c)
    \/ EnterFromLimbo(s, c)
    \/ Reconnect(s, c)
    \/ AskToDisplace(s, c)
    \/ ExecOldCopyYes(s, c)
    \/ ExecOldCopyNo(s, c)
    \/ ChooseAgain(s, c)
    \/ Rejected(s, c)
    \/ Choice(s, c)
    \/ \E p \in 1 .. MaxPw : NewPass(s, c, p)
    \/ GetRealName(s, c)

SocketStep(s) ==
    \/ Connect(s)
    \/ \E c \in Conn : LoginStep(s, c)
    \/ CompleteSetup(s)
    \/ Quit(s)
    \/ HangUp(s)
    \/ NetDead(s)
    \/ Passwd(s)
    \/ \E p \in 0 .. MaxPw : Newpass(s, p)

BodyStep(b) ==
    Die(b) \/ RemoveDead(b) \/ Revive(b) \/ IdleDump(b) \/ Sweep(b) \/ BodyCleanUp(b)

ConnStep(c) == CheckStatus(c) \/ CallOutRemove(c) \/ CleanUp(c)

Next ==
    \/ \E s \in Sock : SocketStep(s)
    \/ \E b \in Body : BodyStep(b)
    \/ \E c \in Conn : ConnStep(c)
    \/ Crash

\* The driver runs the call_outs that are due; users and the driver's clean
\* up of unused objects need not act.
Fairness ==
    /\ \A c \in Conn : WF_vars(CheckStatus(c)) /\ WF_vars(CallOutRemove(c))
    /\ \A b \in Body : WF_vars(RemoveDead(b)) /\ WF_vars(Sweep(b))

Spec == Init /\ [][Next]_vars
FairSpec == Spec /\ Fairness
-----------------------------------------------------------------------------
(* Properties *)

\* The state has the shape the program gives it.
TypeOK ==
    /\ at \in [Sock -> Conn \cup Body \cup {None}]
    /\ k \in [Sock -> Cont]
    /\ conn \in [Conn -> ConnRec]
    /\ body \in [Body -> BodyRec]
    /\ cfile \in [Name -> [pw : 0 .. MaxPw, dead : BOOLEAN]]
    /\ ufile \subseteq Name

\* Every exec() hands the socket over: however users throw each other out,
\* die, revive and break off, no two sockets are interactive in one object.
SocketsApart ==
    \A s, t \in Sock : at[s] # None /\ at[s] = at[t] => s = t

\* A user body that has lost its link is always waiting for the sweep of
\* net_dead(), and a body that has a link never is.
SweepArmed ==
    \A b \in Body : body[b].dump <=> /\ body[b].kind = "user"
                                     /\ body[b].once
                                     /\ ~Interactive(b)

\* query_link() of a body, if any, is a connection whose body_ob is that
\* body, and the body is interactive: what switch_body() needs for a death.
LinkCoherent ==
    \A b \in Body : body[b].link # None =>
        Interactive(b) /\ conn[body[b].link].body = b

\* The accounts that exist at the start and have no second bodies.
Old == OldName \ Wizard
\* An existing account of a player, not a wizard, has one body at a time.
OneBodyPerName ==
    \A n \in Old : Cardinality(Players(n)) <= 1

\* A body someone plays in heals, ages and is watched for idleness.
HeartOnWhenPlaying ==
    \A b \in Body : Interactive(b) => body[b].heart

\* MAX_USERS bounds the links that got past get_name().
Admitted == {s \in Sock : at[s] \in Body \/ k[s].f \notin {"none", "get_name"}}
UsersBounded == Admin = {} => Cardinality(Admitted) <= MaxUsers

\* Where each link is, and who plays each of those accounts.  Who plays another
\* account, a new one or a wizard's, is aside.
Phase(s) ==
    IF at[s] = None THEN "closed"
    ELSE IF at[s] \in Body /\ body[at[s]].name \in Old THEN "in"
    ELSE IF k[s].f \in LoginPrompts THEN "login" ELSE "aside"
PlayedBy(n) ==
    IF Players(n) = {} THEN "out"
    ELSE LET b == CHOOSE b \in Players(n) : TRUE
         IN  IF Interactive(b) THEN CHOOSE s \in Sock : at[s] = b ELSE "statue"

P == INSTANCE Presence WITH Player <- Old, Link <- Sock,
        Out <- "out", Statue <- "statue",
        phase <- [s \in Sock |-> Phase(s)],
        who <- [n \in Old |-> PlayedBy(n)]

\* Logging in, throwing out, dying, breaking off and quitting implement
\* Presence.
ImplementsPresence == P!Spec

\* Nobody stays at the login prompts: five minutes after logon() the link is
\* closed or has become a body.
LoginEnds ==
    \A c \in Conn : conn[c].timer /\ Interactive(c) ~> ~Interactive(c)

\* A user body in the game that nobody plays, net-dead or dead, is played
\* again or removed.
StatuesLeave ==
    \A b \in Body :
        body[b].kind = "user" /\ body[b].env /\ ~Interactive(b)
            ~> body[b].kind # "user" \/ Interactive(b)

-----------------------------------------------------------------------------
(* The invariant the safety properties follow from *)

\* A login prompt is answered in the connection that it carries, whose timer
\* is running.
PromptsHere ==
    \A s \in Sock : k[s].f \in LoginPrompts =>
        at[s] = k[s].ob /\ k[s].ob \in Conn /\ conn[k[s].ob].timer

\* Objects that do not exist are blank, and nothing refers to them; who is
\* interactive in a body is known to find_player() there.
NoDangling ==
    /\ \A c \in Conn : ~conn[c].live => conn[c] = NoConn
    /\ \A b \in Body : body[b].kind = "none" => body[b] = NoBody
    /\ \A c \in Conn : conn[c].body # None => body[conn[c].body].kind # "none"
    /\ \A s \in Sock : at[s] \in Conn => conn[at[s]].live
    /\ \A s \in Sock : at[s] \in Body => body[at[s]].once
    /\ \A s \in Sock : k[s].ob \in Conn => conn[k[s].ob].live
    /\ \A s \in Sock : k[s].ob \in Body => body[k[s].ob].kind # "none"

\* A connection that links a body is not interactive itself.
LinksIdle ==
    \A b \in Body : body[b].link # None =>
        conn[body[b].link].live /\ ~Interactive(body[b].link)

\* The bodies of accounts that are being made are there, nobody has played
\* them, and no two are the same.
Making(s) == k[s].f \in {"new_pass", "get_real_name"}
MadeBy(s) == conn[k[s].ob].body
NewBodies ==
    /\ \A s \in Sock : Making(s) =>
          MadeBy(s) # None /\ ~body[MadeBy(s)].once /\ ~body[MadeBy(s)].dying
    /\ \A s, t \in Sock : Making(s) /\ Making(t) /\ MadeBy(s) = MadeBy(t) => s = t

IInv ==
    /\ TypeOK /\ SocketsApart /\ SweepArmed /\ LinkCoherent
    /\ HeartOnWhenPlaying /\ PromptsHere /\ NoDangling /\ LinksIdle /\ NewBodies

-----------------------------------------------------------------------------
(* What the documentation says, and the code does not do *)

\* include/body.h:22: a linkdead statue is removed after LINKDEAD_DUMP
\* seconds.  A net-dead ghost is not.
LinkdeadRemoved ==
    \A b \in Body : body[b].once /\ ~Interactive(b)
                      ~> ~body[b].once \/ Interactive(b)

\* _passwd.c:127: the passwd command changes the password.  The connection
\* object of an earlier login, still alive, saves the old one again.
PasswordStays ==
    [][\A n \in Name :
          cfile[n].pw # 0 /\ cfile'[n].pw # cfile[n].pw
              => \E s \in Sock : k[s].f = "newpass" /\ k'[s].f # "newpass"]_vars

\* ghost.c:45: revive() takes a ghost back to its body.  It refuses when the
\* connection does not say dead: a login that read the account before the
\* death takes over the ghost with dead = 0.
GhostCanRevive ==
    \A b \in Body : body[b].kind = "ghost" /\ Interactive(b) => LinkDead(b)
=============================================================================
