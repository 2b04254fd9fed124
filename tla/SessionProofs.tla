--------------------------- MODULE SessionProofs ---------------------------
(***************************************************************************)
(* What holds of Session for any sockets, objects and accounts.            *)
(*                                                                         *)
(* First its types and its inductive invariant, IInv.  Many steps first    *)
(* move sockets and links about and then destruct some objects, which puts *)
(* the last references in order.  Sound(gone, ...) is the invariant in     *)
(* such a moment: it holds apart from the objects in gone that are about   *)
(* to be destructed.  Removed shows that destructing them makes it whole;  *)
(* each step has a lemma that it keeps Sound.                              *)
(*                                                                         *)
(* Then who plays which account: an old player's account has one body,     *)
(* MAX_USERS bounds the links past the first prompt, and Session           *)
(* implements Presence.  All of that builds on IInv, of the state before   *)
(* and of the state after a step.                                          *)
(***************************************************************************)
EXTENDS Session, FiniteSetTheorems, TLAPS

-----------------------------------------------------------------------------
(* The operators that the actions are built from keep the shape of what    *)
(* they work on.                                                           *)

Objects == Conn \cup Body \cup {None}
Places == [Sock -> Objects]
Prompting == [Sock -> Cont]
Connections == [Conn -> ConnRec]
Bodies == [Body -> BodyRec]
Files == [Name -> [pw : 0 .. MaxPw, dead : BOOLEAN]]

\* The prompts the code asks are prompts, and NoCont is one.
LEMMA ContShapes ==
    /\ NoCont \in Cont
    /\ \A c \in Conn : /\ Ask("get_name", c) \in Cont
                       /\ Ask("exec_old_copy", c) \in Cont
                       /\ Ask("new_pass", c) \in Cont
                       /\ Ask("get_real_name", c) \in Cont
                       /\ Ask("newpass", c) \in Cont
    /\ \A b \in Body \cup {None} : Ask("complete_setup", b) \in Cont
BY SessionAssumption
   DEF NoCont, Ask, Cont, Prompts, LoginPrompts

LEMMA BlankShapes ==
    /\ NoConn \in ConnRec /\ NoBody \in BodyRec
    /\ [NoConn EXCEPT !.live = TRUE] \in ConnRec
    /\ [NoConn EXCEPT !.live = TRUE, !.timer = TRUE] \in ConnRec
<1>1. NoConn \in ConnRec /\ NoBody \in BodyRec
  BY SessionAssumption DEF NoConn, NoBody, ConnRec, BodyRec
<1>2. \A r \in ConnRec : [r EXCEPT !.live = TRUE] \in ConnRec
                          /\ [r EXCEPT !.timer = TRUE] \in ConnRec
  BY DEF ConnRec
<1>3. [NoConn EXCEPT !.live = TRUE] \in ConnRec
  BY <1>1, <1>2
<1>4. [NoConn EXCEPT !.live = TRUE, !.timer = TRUE] \in ConnRec
  BY <1>2, <1>3
<1> QED
  BY <1>1, <1>3, <1>4

LEMMA BodyShapes ==
    ASSUME NEW n \in Name \cup {None}, NEW c \in Conn
    PROVE  PlayingBody(n, c) \in BodyRec /\ GhostOf(n, c) \in BodyRec
BY BlankShapes DEF PlayingBody, GhostOf, NoBody, BodyRec

\* Setting a variable of one connection or body.
LEMMA ConnFields ==
    ASSUME NEW c \in Conn
    PROVE  \A cs \in Connections :
              /\ \A x \in Name \cup {None} : [cs EXCEPT ![c].name = x] \in Connections
              /\ \A x \in Body \cup {None} : [cs EXCEPT ![c].body = x] \in Connections
              /\ \A x \in 0 .. MaxPw : [cs EXCEPT ![c].pw = x] \in Connections
              /\ \A x \in BOOLEAN : /\ [cs EXCEPT ![c].dead = x] \in Connections
                                    /\ [cs EXCEPT ![c].timer = x] \in Connections
                                    /\ [cs EXCEPT ![c].pend = x] \in Connections
              /\ \A x \in ConnRec : [cs EXCEPT ![c] = x] \in Connections
BY DEF Connections, ConnRec

LEMMA BodyFields ==
    ASSUME NEW b \in Body
    PROVE  \A bs \in Bodies :
              /\ \A x \in Name \cup {None} : [bs EXCEPT ![b].name = x] \in Bodies
              /\ \A x \in Conn \cup {None} : [bs EXCEPT ![b].link = x] \in Bodies
              /\ \A x \in {"none", "user", "ghost"} : [bs EXCEPT ![b].kind = x] \in Bodies
              /\ \A x \in BOOLEAN : /\ [bs EXCEPT ![b].env = x] \in Bodies
                                    /\ [bs EXCEPT ![b].once = x] \in Bodies
                                    /\ [bs EXCEPT ![b].heart = x] \in Bodies
                                    /\ [bs EXCEPT ![b].dying = x] \in Bodies
              /\ \A x \in BodyRec : [bs EXCEPT ![b] = x] \in Bodies
BY DEF Bodies, BodyRec

\* save_data_conn() keeps the data files well formed.
LEMMA SavedShape ==
    ASSUME NEW files \in Files, NEW r \in ConnRec
    PROVE  Saved(files, r) \in Files
BY DEF Saved, Files, ConnRec

\* Destructing objects leaves sockets, prompts, connections and bodies.
LEMMA DestructShapes ==
    ASSUME NEW gone,
           NEW a \in Places, NEW kk \in Prompting,
           NEW cs \in Connections, NEW bs \in Bodies
    PROVE  /\ Closed(a, gone) \in Places
           /\ Forgotten(kk, a, gone) \in Prompting
           /\ ConnsLess(cs, gone) \in Connections
           /\ BodiesLess(bs, gone) \in Bodies
<1>1. Closed(a, gone) \in Places
  BY DEF Closed, Places, Objects
<1>2. Forgotten(kk, a, gone) \in Prompting
  BY ContShapes, SessionAssumption DEF Forgotten, Prompting, Cont
<1>3. ConnsLess(cs, gone) \in Connections
  BY BlankShapes DEF ConnsLess, Connections, ConnRec
<1>4. BodiesLess(bs, gone) \in Bodies
  BY BlankShapes DEF BodiesLess, Bodies, BodyRec
<1> QED
  BY <1>1, <1>2, <1>3, <1>4

\* The files after a body has set a property of its connection, or removed it.
LEMMA SavedLinkShapes ==
    ASSUME TypeOK, NEW b \in Body, NEW files \in Files
    PROVE  SavedVia(files, b) \in Files /\ SavedLink(files, b) \in Files
BY SavedShape, SessionAssumption
   DEF SavedVia, SavedLink, TypeOK, BodyRec

\* login_new_copy() keeps the shape of the state.
LEMMA LoginNewCopyShape ==
    ASSUME TypeOK, NEW s \in Sock, NEW c \in Conn,
           NEW a \in Places, NEW kk \in Prompting,
           NEW cs \in Connections, NEW bs \in Bodies, NEW fs \in Files,
           LoginNewCopy(s, c, a, kk, cs, bs, fs)
    PROVE  TypeOK'
<1> PICK b \in FreeBody :
        IF conn[c].name \in ufile
          THEN /\ at' = [a EXCEPT ![s] = b]
               /\ k' = [kk EXCEPT ![s] = Ask("complete_setup", b)]
               /\ conn' = [cs EXCEPT ![c].body = b]
               /\ body' = [bs EXCEPT ![b] = PlayingBody(conn[c].name, c)]
               /\ cfile' \in {fs, Saved(fs, conn[c])}
          ELSE LET gone == IF MayRemove(conn[c].name) THEN {c} ELSE {}
               IN  /\ at' = Closed(a, gone)
                   /\ k' = [Forgotten(kk, a, gone) EXCEPT ![s] = NoCont]
                   /\ conn' = ConnsLess([cs EXCEPT ![c].body = b], gone)
                   /\ body' = [bs EXCEPT ![b].kind = "user"]
                   /\ cfile' = IF gone = {} THEN fs ELSE Saved(fs, conn[c])
  BY DEF LoginNewCopy
<1> DEFINE gone == IF MayRemove(conn[c].name) THEN {c} ELSE {}
           cb == [cs EXCEPT ![c].body = b]
<1>1. b \in Body
  BY DEF FreeBody
<1>2. cb \in Connections
  BY <1>1 DEF Connections, ConnRec
<1>3. conn[c] \in ConnRec /\ conn[c].name \in Name \cup {None}
  BY DEF TypeOK, ConnRec
<1>4. Saved(fs, conn[c]) \in Files
  BY <1>3, SavedShape
<1>5. ufile' \subseteq Name
  BY DEF LoginNewCopy, TypeOK
<1>6. CASE conn[c].name \in ufile
  <2>1. at' \in Places
    BY <1>1, <1>6 DEF Places, Objects
  <2>2. k' \in Prompting
    BY <1>1, <1>6, ContShapes DEF Prompting
  <2>3. conn' \in Connections
    BY <1>2, <1>6
  <2>4. body' \in Bodies
    <3>1. PlayingBody(conn[c].name, c) \in BodyRec
      BY <1>3, BodyShapes
    <3> QED
      BY <1>1, <1>6, <3>1 DEF Bodies
  <2>5. cfile' \in Files
    BY <1>4, <1>6
  <2> QED
    BY <1>5, <2>1, <2>2, <2>3, <2>4, <2>5
    DEF TypeOK, Places, Objects, Prompting, Connections, Bodies, Files
<1>7. CASE conn[c].name \notin ufile
  <2>1. at' \in Places /\ k' \in Prompting /\ conn' \in Connections
    <3>1. /\ Closed(a, gone) \in Places
          /\ Forgotten(kk, a, gone) \in Prompting
          /\ ConnsLess(cb, gone) \in Connections
      BY <1>2, DestructShapes
    <3>2. [Forgotten(kk, a, gone) EXCEPT ![s] = NoCont] \in Prompting
      BY <3>1, ContShapes DEF Prompting
    <3> QED
      BY <1>7, <3>1, <3>2
  <2>2. body' \in Bodies
    BY <1>1, <1>7 DEF Bodies, BodyRec
  <2>3. cfile' \in Files
    BY <1>4, <1>7
  <2> QED
    BY <1>5, <2>1, <2>2, <2>3
    DEF TypeOK, Places, Objects, Prompting, Connections, Bodies, Files
<1> QED
  BY <1>6, <1>7

\* switch_body() keeps the shape of the state.
LEMMA SwitchShapes ==
    ASSUME TypeOK, NEW b \in Body, NEW nb \in Body, NEW new \in BodyRec,
           NEW dead \in BOOLEAN, body[b].link # None
    PROVE  /\ body[b].link \in Conn
           /\ Moved(b, nb) \in Places
           /\ [conn EXCEPT ![body[b].link].body = nb, ![body[b].link].dead = dead]
                 \in Connections
           /\ [body EXCEPT ![nb] = new, ![b].link = None, ![b].once = FALSE,
                           ![b].dying = TRUE] \in Bodies
<1>1. body[b].link \in Conn
  BY DEF TypeOK, BodyRec
<1>2. Moved(b, nb) \in Places
  BY DEF TypeOK, Moved, Places, Objects
<1>3. [conn EXCEPT ![body[b].link].body = nb, ![body[b].link].dead = dead] \in Connections
  BY <1>1 DEF TypeOK, Connections, ConnRec
<1>4. [body EXCEPT ![nb] = new, ![b].link = None, ![b].once = FALSE,
                   ![b].dying = TRUE] \in Bodies
  <2>1. [body EXCEPT ![nb] = new] \in Bodies
    BY DEF TypeOK, Bodies
  <2>2. \A x \in Bodies : /\ [x EXCEPT ![b].link = None] \in Bodies
                          /\ [x EXCEPT ![b].once = FALSE] \in Bodies
                          /\ [x EXCEPT ![b].dying = TRUE] \in Bodies
    BY DEF Bodies, BodyRec
  <2> QED
    BY <2>1, <2>2
<1> QED
  BY <1>1, <1>2, <1>3, <1>4

LEMMA SwitchBodyShape ==
    ASSUME TypeOK, NEW b \in Body, NEW nb \in Body, NEW new \in BodyRec,
           NEW dead \in BOOLEAN, NEW gone,
           body[b].link # None, SwitchBody(b, nb, new, dead, gone)
    PROVE  at' \in Places /\ conn' \in Connections /\ body' \in Bodies
             /\ cfile' \in Files
<1> DEFINE l  == body[b].link
           a  == Moved(b, nb)
           cs == [conn EXCEPT ![l].body = nb, ![l].dead = dead]
           bs == [body EXCEPT ![nb] = new, ![b].link = None, ![b].once = FALSE,
                              ![b].dying = TRUE]
<1>1. l \in Conn /\ a \in Places /\ cs \in Connections /\ bs \in Bodies
  BY SwitchShapes
<1>2. cfile' \in Files
  <2>1. cs[l] \in ConnRec
    BY <1>1 DEF Connections
  <2>2. cfile \in Files
    BY DEF TypeOK, Files
  <2> QED
    BY <2>1, <2>2, SavedShape DEF SwitchBody
<1>3. k \in Prompting
  BY DEF TypeOK, Prompting
<1>4. /\ at' = a
      /\ conn' = ConnsLess(cs, gone)
      /\ body' = BodiesLess(bs, gone)
  BY DEF SwitchBody
<1> HIDE DEF a, cs, bs, l
<1> QED
  BY <1>1, <1>2, <1>3, <1>4, DestructShapes

-----------------------------------------------------------------------------
(* Every step keeps the shape of the state. *)

LEMMA Typed ==
    TypeOK <=> /\ at \in Places /\ k \in Prompting /\ conn \in Connections
               /\ body \in Bodies /\ cfile \in Files /\ ufile \subseteq Name
BY DEF TypeOK, Places, Objects, Prompting, Connections, Bodies, Files

LEMMA TypedNext ==
    TypeOK' <=> /\ at' \in Places /\ k' \in Prompting /\ conn' \in Connections
                /\ body' \in Bodies /\ cfile' \in Files /\ ufile' \subseteq Name
BY DEF TypeOK, Places, Objects, Prompting, Connections, Bodies, Files

LEMMA DestructTyped ==
    ASSUME TypeOK, NEW gone, Destruct(gone)
    PROVE  at' \in Places /\ k' \in Prompting /\ conn' \in Connections /\ body' \in Bodies
BY Typed, DestructShapes DEF Destruct

LEMMA InitTyped == Init => TypeOK
<1> SUFFICES ASSUME Init PROVE TypeOK
  OBVIOUS
<1> QED
  BY ContShapes, BlankShapes, SessionAssumption DEF Init, TypeOK

\* The prompts of the login daemon that open, close or ask again.
LEMMA PromptTyped ==
    ASSUME TypeOK, NEW s \in Sock, NEW c \in Conn,
           \/ GetNameRefused(s, c) \/ WrongPassword(s, c)
           \/ ChooseAgain(s, c) \/ Rejected(s, c)
    PROVE  TypeOK'
<1>1. conn[c] \in ConnRec /\ [conn EXCEPT ![c].pend = TRUE] \in Connections
  BY DEF TypeOK, Connections, ConnRec
<1>2. RemoveUser(s, c) => TypeOK'
  BY <1>1, ContShapes, Typed, TypedNext DEF RemoveUser, Prompting
<1>3. CASE WrongPassword(s, c)
  <2>1. cfile' \in Files /\ conn' \in Connections
    BY <1>1, <1>3, SavedShape, Typed DEF WrongPassword
  <2>2. k' \in Prompting
    <3>1. CASE TooMany(k[s].n)
      BY <1>3, <3>1, ContShapes, Typed DEF WrongPassword, Prompting
    <3>2. CASE ~TooMany(k[s].n)
      <4>1. k[s] \in Cont /\ k[s].n + 1 \in 0 .. MaxTries
        BY <3>2, SessionAssumption DEF TypeOK, TooMany, Cont
      <4>2. [k[s] EXCEPT !.n = @ + 1] \in Cont
        BY <4>1 DEF Cont
      <4> QED
        BY <1>3, <3>2, <4>2, Typed DEF WrongPassword, Prompting
    <3> QED
      BY <3>1, <3>2
  <2> QED
    BY <1>3, <2>1, <2>2, Typed, TypedNext DEF WrongPassword
<1>4. CASE ChooseAgain(s, c)
  BY <1>4, ContShapes, Typed, TypedNext DEF ChooseAgain, Prompting
<1> QED
  BY <1>2, <1>3, <1>4 DEF GetNameRefused, Rejected

LEMMA NameTyped ==
    ASSUME TypeOK, NEW s \in Sock, NEW c \in Conn, NEW n \in Name,
           GetName(s, c, n) \/ GetNewName(s, c, n)
    PROVE  TypeOK'
<1>1. CASE GetName(s, c, n)
  <2>1. Retry("get_password", c, 1) \in Cont
    BY SessionAssumption DEF Retry, Cont, Prompts, LoginPrompts
  <2>2. cfile[n].pw \in 0 .. MaxPw /\ cfile[n].dead \in BOOLEAN
    BY DEF TypeOK
  <2>3. conn' \in Connections
    BY <1>1, <2>2, ConnFields, Typed DEF GetName
  <2> QED
    BY <1>1, <2>1, <2>3, Typed, TypedNext DEF GetName, Prompting
<1>2. CASE GetNewName(s, c, n)
  <2>1. [Ask("choice", c) EXCEPT !.nm = n] \in Cont
    BY SessionAssumption DEF Ask, Cont, Prompts, LoginPrompts
  <2> QED
    BY <1>2, <2>1, Typed, TypedNext DEF GetNewName, Prompting
<1> QED
  BY <1>1, <1>2

LEMMA EnterTyped ==
    ASSUME TypeOK, NEW s \in Sock, NEW c \in Conn,
           EnterAfresh(s, c) \/ EnterFromLimbo(s, c)
    PROVE  TypeOK'
<1>1. CASE EnterAfresh(s, c)
  BY <1>1, LoginNewCopyShape, Typed DEF EnterAfresh
<1>2. CASE EnterFromLimbo(s, c)
  <2> PICK b \in Players(conn[c].name) :
        LoginNewCopy(s, c, Closed(at, LimboGone(b, c)),
            Forgotten(k, at, LimboGone(b, c)), ConnsLess(conn, LimboGone(b, c)),
            BodiesLess(body, LimboGone(b, c)),
            IF MayRemove(conn[c].name) THEN SavedLink(cfile, b) ELSE cfile)
    BY <1>2 DEF EnterFromLimbo
  <2>1. b \in Body
    BY DEF Players
  <2>2. (IF MayRemove(conn[c].name) THEN SavedLink(cfile, b) ELSE cfile) \in Files
    BY <2>1, SavedLinkShapes, Typed
  <2> QED
    BY <2>2, LoginNewCopyShape, DestructShapes, Typed
<1> QED
  BY <1>1, <1>2

LEMMA ReconnectTyped ==
    ASSUME TypeOK, NEW s \in Sock, NEW c \in Conn,
           Reconnect(s, c) \/ AskToDisplace(s, c)
    PROVE  TypeOK'
<1>1. PICK b \in Body : /\ conn' = [conn EXCEPT ![c].body = b]
                        /\ \/ /\ Reconnect(s, c)
                              /\ at' = [at EXCEPT ![s] = b]
                              /\ k' = [k EXCEPT ![s] = NoCont]
                              /\ body' = [body EXCEPT ![b] =
                                            Restarted([body[b] EXCEPT !.link = c])]
                           \/ /\ k' = [k EXCEPT ![s] = Ask("exec_old_copy", c)]
                              /\ UNCHANGED <<at, body>>
  BY DEF Reconnect, AskToDisplace, Players
<1>2. conn' \in Connections /\ k' \in Prompting
  BY <1>1, ConnFields, ContShapes, Typed DEF Prompting
<1>3. cfile' \in Files /\ ufile' = ufile
  <2>1. conn[c] \in ConnRec
    BY DEF TypeOK
  <2> QED
    BY <2>1, SavedShape, Typed DEF Reconnect, AskToDisplace
<1>4. at' \in Places
  BY <1>1, Typed DEF Places, Objects
<1>5. body' \in Bodies
  <2>1. Restarted([body[b] EXCEPT !.link = c]) \in BodyRec
    BY DEF Restarted, TypeOK, BodyRec
  <2> QED
    BY <1>1, <2>1, Typed DEF Bodies
<1> QED
  BY <1>2, <1>3, <1>4, <1>5, Typed, TypedNext

LEMMA ThrowOutTyped ==
    ASSUME TypeOK, NEW s \in Sock, NEW c \in Conn, NEW b \in Body, NEW t \in Conn,
           NEW setup \in BOOLEAN, ThrowOut(s, c, b, t, setup), UNCHANGED ufile
    PROVE  TypeOK'
<1> DEFINE gone == IF MayRemove(conn[c].name) THEN {t} \cup LinkOf(b) ELSE {}
           old  == [conn EXCEPT ![t] = [NoConn EXCEPT !.live = TRUE]]
           linked == [body EXCEPT ![b].link = c, ![b].heart = @ \/ setup]
           a    == [Displaced(b, t) EXCEPT ![s] = b]
           kk   == [k EXCEPT ![s] = IF setup THEN Ask("complete_setup", b)
                                             ELSE NoCont]
<1>1. /\ at' = Closed(a, gone)
      /\ k' = Forgotten(kk, a, gone)
      /\ conn' = ConnsLess(old, gone)
      /\ body' = BodiesLess(linked, gone)
      /\ cfile' \in Files
  BY SavedLinkShapes, Typed DEF ThrowOut
<1>2. a \in Places
  BY DEF TypeOK, Displaced, Moved, Places, Objects
<1>3. kk \in Prompting
  BY ContShapes, Typed DEF Prompting
<1>4. old \in Connections
  <2>1. [NoConn EXCEPT !.live = TRUE] \in ConnRec
    BY BlankShapes
  <2> QED
    BY <2>1, ConnFields, Typed
<1>5. linked \in Bodies
  <2>1. linked = [[body EXCEPT ![b].link = c] EXCEPT ![b].heart = body[b].heart \/ setup]
    BY DEF TypeOK, BodyRec
  <2>2. [body EXCEPT ![b].link = c] \in Bodies
    BY BodyFields, Typed
  <2>3. (body[b].heart \/ setup) \in BOOLEAN
    OBVIOUS
  <2> QED
    BY <2>1, <2>2, <2>3, BodyFields
<1> HIDE DEF a, kk, old, linked, gone
<1> QED
  BY <1>1, <1>2, <1>3, <1>4, <1>5, DestructShapes, Typed, TypedNext

LEMMA ExecOldCopyTyped ==
    ASSUME TypeOK, NEW s \in Sock, NEW c \in Conn,
           ExecOldCopyYes(s, c) \/ ExecOldCopyNo(s, c)
    PROVE  TypeOK'
<1>1. conn[c].body \in Body \cup {None}
  BY DEF TypeOK, ConnRec
<1>2. CASE ExecOldCopyYes(s, c)
  <2> DEFINE b == conn[c].body
  <2>1. CASE b # None /\ Interactive(b)
    <3>1. PICK t \in FreeConn, setup \in BOOLEAN : ThrowOut(s, c, b, t, setup)
      BY <1>2, <2>1 DEF ExecOldCopyYes
    <3> QED
      BY <1>1, <1>2, <2>1, <3>1, ThrowOutTyped DEF FreeConn, ExecOldCopyYes
  <2>2. CASE ~(b # None /\ Interactive(b))
    <3>1. /\ k' = [k EXCEPT ![s] = NoCont]
          /\ UNCHANGED <<at, body, cfile, ufile>>
          /\ \/ UNCHANGED conn
             \/ \E t \in FreeConn : conn' = [conn EXCEPT ![t] = [NoConn EXCEPT !.live = TRUE]]
      BY <1>2, <2>2 DEF ExecOldCopyYes
    <3>2. conn' \in Connections
      <4>1. [NoConn EXCEPT !.live = TRUE] \in ConnRec
        BY BlankShapes
      <4> QED
        BY <3>1, <4>1, Typed DEF FreeConn, Connections
    <3> QED
      BY <3>1, <3>2, ContShapes, Typed, TypedNext DEF Prompting
  <2> QED
    BY <2>1, <2>2
<1>3. CASE ExecOldCopyNo(s, c)
  <2>1. CASE LoginNewCopy(s, c, at, k, conn, body, cfile)
    BY <2>1, LoginNewCopyShape, Typed
  <2>2. CASE ~LoginNewCopy(s, c, at, k, conn, body, cfile)
    BY <1>3, <2>2, ContShapes, Typed, TypedNext DEF ExecOldCopyNo, Prompting
  <2> QED
    BY <2>1, <2>2
<1> QED
  BY <1>2, <1>3

LEMMA NewAccountTyped ==
    ASSUME TypeOK, NEW s \in Sock, NEW c \in Conn,
           \/ Choice(s, c)
           \/ \E p \in 1 .. MaxPw : NewPass(s, c, p)
           \/ GetRealName(s, c)
    PROVE  TypeOK'
<1>1. CASE Choice(s, c)
  <2>1. k[s].nm \in Name
    BY <1>1 DEF Choice, At, TypeOK, Cont
  <2>2. PICK b \in Body :
           /\ body' = [body EXCEPT ![b].kind = "user", ![b].name = k[s].nm]
           /\ conn' = [conn EXCEPT ![c].name = k[s].nm, ![c].body = b]
    BY <1>1 DEF Choice, FreeBody
  <2>3. body' \in Bodies
    BY <2>1, <2>2, BodyFields, Typed
  <2>4. conn' \in Connections
    BY <2>1, <2>2, ConnFields, Typed
  <2> QED
    BY <1>1, <2>3, <2>4, ContShapes, Typed, TypedNext DEF Choice, Prompting
<1>2. ASSUME NEW p \in 1 .. MaxPw, NewPass(s, c, p) PROVE TypeOK'
  <2>0. p \in 0 .. MaxPw
    BY SessionAssumption
  <2>1. conn' \in Connections
    BY <1>2, <2>0, ConnFields, Typed DEF NewPass
  <2>2. cfile' \in Files
    <3>1. conn'[c] \in ConnRec
      BY <2>1 DEF Connections
    <3> QED
      BY <1>2, <3>1, SavedShape, Typed DEF NewPass
  <2> QED
    BY <1>2, <2>1, <2>2, ContShapes, Typed, TypedNext DEF NewPass, Prompting
<1>3. CASE GetRealName(s, c)
  <2> DEFINE b == conn[c].body
  <2>1. b \in Body \cup {None} /\ conn[c].name \in Name \cup {None} /\ conn[c] \in ConnRec
    BY DEF TypeOK, ConnRec
  <2>2. PlayingBody(conn[c].name, c) \in BodyRec
    BY <2>1, BodyShapes
  <2>3. body' \in Bodies
    BY <1>3, <2>2, BodyFields, Typed DEF GetRealName, Bodies
  <2>4. cfile' \in Files /\ ufile' \subseteq Name
    BY <1>3, <2>1, SavedShape, Typed DEF GetRealName
  <2>5. at' \in Places /\ k' \in Prompting
    BY <1>3, <2>1, ContShapes, Typed DEF GetRealName, Places, Objects, Prompting
  <2> QED
    BY <1>3, <2>3, <2>4, <2>5, Typed, TypedNext DEF GetRealName
<1> QED
  BY <1>1, <1>2, <1>3

LEMMA ConnectTyped ==
    ASSUME TypeOK, NEW s \in Sock, Connect(s)
    PROVE  TypeOK'
<1>1. PICK c \in FreeConn :
        /\ at' = [at EXCEPT ![s] = c]
        /\ k' = [k EXCEPT ![s] = Ask("get_name", c)]
        /\ conn' = [conn EXCEPT ![c] = [NoConn EXCEPT !.live = TRUE, !.timer = TRUE]]
  BY DEF Connect
<1>2. c \in Conn
  BY DEF FreeConn
<1>3. at' \in Places /\ k' \in Prompting
  BY <1>1, <1>2, ContShapes, Typed DEF Places, Objects, Prompting
<1>4. conn' \in Connections
  BY <1>1, <1>2, BlankShapes, Typed DEF Connections
<1> QED
  BY <1>3, <1>4, Typed, TypedNext DEF Connect

LEMMA CompleteSetupTyped ==
    ASSUME TypeOK, NEW s \in Sock, CompleteSetup(s)
    PROVE  TypeOK'
<1> DEFINE b == k[s].ob
           kk == [k EXCEPT ![s] = NoCont]
<1>1. b \in Body \cup {None} /\ kk \in Prompting
  BY ContShapes, SessionAssumption, Typed
  DEF CompleteSetup, Prompting, Cont, LoginPrompts
<1>2. CASE b = None
  BY <1>1, <1>2, Typed, TypedNext DEF CompleteSetup
<1>3. CASE b # None /\ ~LinkDead(b)
  <2>1. body' = [body EXCEPT ![b].env = TRUE] /\ cfile' = SavedVia(cfile, b)
          /\ k' = kk /\ UNCHANGED <<at, conn, ufile>>
    BY <1>3 DEF CompleteSetup
  <2>2. body' \in Bodies /\ cfile' \in Files
    BY <1>1, <1>3, <2>1, BodyFields, SavedLinkShapes, Typed
  <2> QED
    BY <1>1, <2>1, <2>2, Typed, TypedNext
<1>4. CASE b # None /\ LinkDead(b)
  <2>1. PICK g \in FreeBody :
          /\ SwitchBody(b, g, GhostOf(body[b].name, body[b].link), TRUE, {b})
          /\ k' = Forgotten(kk, at', {b})
    BY <1>4 DEF CompleteSetup
  <2>2. g \in Body /\ b \in Body /\ body[b].link \in Conn
          /\ body[b].name \in Name \cup {None}
    BY <1>1, <1>4 DEF FreeBody, LinkDead, TypeOK, BodyRec
  <2>3. GhostOf(body[b].name, body[b].link) \in BodyRec
    BY <2>2, BodyShapes
  <2>4. at' \in Places /\ conn' \in Connections /\ body' \in Bodies /\ cfile' \in Files
    BY <1>4, <2>1, <2>2, <2>3, SwitchBodyShape DEF LinkDead
  <2>5. k' \in Prompting
    BY <1>1, <2>1, <2>4, DestructShapes, Typed
  <2> QED
    BY <2>4, <2>5, Typed, TypedNext DEF CompleteSetup
<1> QED
  BY <1>2, <1>3, <1>4

LEMMA DieReviveTyped ==
    ASSUME TypeOK, NEW b \in Body, Die(b) \/ Revive(b)
    PROVE  TypeOK'
<1>1. body[b].link \in Conn /\ body[b].link # None
        /\ body[b].name \in Name \cup {None}
  BY DEF Die, Revive, LinkDead, TypeOK, BodyRec
<1>2. PlayingBody(body[b].name, body[b].link) \in BodyRec
        /\ GhostOf(body[b].name, body[b].link) \in BodyRec
  BY <1>1, BodyShapes
<1>3. CASE Die(b)
  <2>1. PICK g \in FreeBody :
          SwitchBody(b, g, GhostOf(body[b].name, body[b].link), TRUE, {})
    BY <1>3 DEF Die
  <2>2. at' \in Places /\ conn' \in Connections /\ body' \in Bodies /\ cfile' \in Files
    BY <1>1, <1>2, <2>1, SwitchBodyShape DEF FreeBody
  <2> QED
    BY <1>3, <2>2, Typed, TypedNext DEF Die
<1>4. CASE Revive(b)
  <2> DEFINE new == [PlayingBody(body[b].name, body[b].link) EXCEPT !.env = TRUE]
  <2>1. PICK nb \in FreeBody : SwitchBody(b, nb, new, FALSE, {b})
    BY <1>4 DEF Revive
  <2>2. new \in BodyRec
    BY <1>2 DEF BodyRec
  <2>3. at' \in Places /\ conn' \in Connections /\ body' \in Bodies /\ cfile' \in Files
    BY <1>1, <2>1, <2>2, SwitchBodyShape DEF FreeBody
  <2>4. k' \in Prompting
    BY <1>4, <2>3, DestructShapes, Typed DEF Revive
  <2> QED
    BY <1>4, <2>3, <2>4, Typed, TypedNext DEF Revive
<1> QED
  BY <1>3, <1>4

\* Every way a body or its connection is removed.
LEMMA RemovalTyped ==
    ASSUME TypeOK, NEW gone, Destruct(gone), cfile' \in Files, UNCHANGED ufile
    PROVE  TypeOK'
BY DestructTyped, Typed, TypedNext

LEMMA LeaveTyped ==
    ASSUME TypeOK, NEW b \in Body,
           \/ RemoveDead(b) \/ BodyCleanUp(b) \/ IdleDump(b) \/ Sweep(b)
           \/ \E s \in Sock : at[s] = b /\ Quit(s)
    PROVE  TypeOK'
<1>1. SavedLink(cfile, b) \in Files /\ SavedVia(cfile, b) \in Files /\ cfile \in Files
  BY SavedLinkShapes, Typed
<1>2. CASE RemoveDead(b) \/ BodyCleanUp(b)
  BY <1>1, <1>2, RemovalTyped DEF RemoveDead, BodyCleanUp
<1>3. CASE IdleDump(b) \/ Sweep(b)
  BY <1>1, <1>3, RemovalTyped DEF IdleDump, Sweep
<1>4. ASSUME NEW s \in Sock, at[s] = b, Quit(s)
      PROVE  TypeOK'
  <2>1. cfile' \in Files
    BY <1>1, <1>4 DEF Quit
  <2> QED
    BY <1>4, <2>1, RemovalTyped DEF Quit
<1> QED
  BY <1>2, <1>3, <1>4

\* net_dead() leaves the shape of a body.
LEMMA DeadShape == \A r \in BodyRec : NetDeadBody(r) \in BodyRec
<1> SUFFICES ASSUME NEW r \in BodyRec PROVE NetDeadBody(r) \in BodyRec
  OBVIOUS
<1>1. (r.kind = "user") \in BOOLEAN
  OBVIOUS
<1>2. \A x \in BOOLEAN : [r EXCEPT !.heart = FALSE, !.dump = x] \in BodyRec
  BY DEF BodyRec
<1> QED
  BY <1>1, <1>2 DEF NetDeadBody

LEMMA BreakTyped ==
    ASSUME TypeOK, NEW s \in Sock, HangUp(s) \/ NetDead(s)
    PROVE  TypeOK'
<1> DEFINE a == [at EXCEPT ![s] = None]
           kk == [k EXCEPT ![s] = NoCont]
<1>1. a \in Places /\ kk \in Prompting
  BY ContShapes, Typed DEF Places, Objects, Prompting
<1>2. CASE HangUp(s)
  BY <1>1, <1>2, Typed, TypedNext DEF HangUp
<1>3. CASE NetDead(s)
  <2> DEFINE b == at[s]
             bs == [body EXCEPT ![b] = NetDeadBody(@)]
  <2>1. /\ b \in Body
        /\ at' = Closed(a, LinkOf(b)) /\ k' = Forgotten(kk, a, LinkOf(b))
        /\ conn' = ConnsLess(conn, LinkOf(b)) /\ body' = BodiesLess(bs, LinkOf(b))
        /\ cfile' = SavedLink(cfile, b) /\ UNCHANGED ufile
    BY <1>3 DEF NetDead
  <2>2. bs \in Bodies
    <3>1. body \in [Body -> BodyRec]
      BY Typed DEF Bodies
    <3>2. NetDeadBody(body[b]) \in BodyRec
      BY <2>1, <3>1, DeadShape
    <3> QED
      BY <2>1, <3>1, <3>2 DEF Bodies
  <2>3. cfile' \in Files
    BY <2>1, SavedLinkShapes, Typed
  <2> HIDE DEF a, kk, b, bs
  <2> QED
    BY <1>1, <2>1, <2>2, <2>3, DestructShapes, Typed, TypedNext
<1> QED
  BY <1>2, <1>3

LEMMA ConnStepTyped ==
    ASSUME TypeOK, NEW c \in Conn, ConnStep(c)
    PROVE  TypeOK'
<1>1. Saved(cfile, conn[c]) \in Files
  BY SavedShape, Typed DEF Connections
<1>2. CASE RemoveConn(c)
  BY <1>1, <1>2, RemovalTyped DEF RemoveConn
<1>3. CASE ~RemoveConn(c)
  <2>1. conn' \in Connections
    BY <1>3, ConnFields, Typed DEF ConnStep, CheckStatus, CallOutRemove, CleanUp
  <2> QED
    BY <1>1, <1>3, <2>1, Typed, TypedNext DEF ConnStep, CheckStatus, CallOutRemove, CleanUp
<1> QED
  BY <1>2, <1>3

LEMMA PasswordTyped ==
    ASSUME TypeOK, NEW s \in Sock,
           Passwd(s) \/ \E p \in 0 .. MaxPw : Newpass(s, p)
    PROVE  TypeOK'
<1>1. CASE Passwd(s)
  <2>1. body[at[s]].link \in Conn
    BY <1>1 DEF Passwd, TypeOK, BodyRec
  <2> QED
    BY <1>1, <2>1, ContShapes, Typed, TypedNext DEF Passwd, Prompting
<1>2. ASSUME NEW p \in 0 .. MaxPw, Newpass(s, p)
      PROVE  TypeOK'
  <2> DEFINE l == k[s].ob
             r == IF p = 0 THEN conn[l] ELSE [conn[l] EXCEPT !.pw = p]
             kk == [k EXCEPT ![s] = NoCont]
             set == [conn EXCEPT ![l] = r]
             gone == IF BodyConnected(l) \/ ~MayRemove(UserOf(at[s])) THEN {} ELSE {l}
  <2>1. l \in Conn \cup {None} /\ kk \in Prompting
    BY <1>2, ContShapes, Typed DEF Newpass, Prompting, Cont
  <2>2. CASE l = None
    BY <1>2, <2>1, <2>2, Typed, TypedNext DEF Newpass
  <2>3. CASE l # None
    <3>1. /\ at' = Closed(at, gone) /\ k' = Forgotten(kk, at, gone)
          /\ conn' = ConnsLess(set, gone) /\ body' = BodiesLess(body, gone)
          /\ cfile' \in {Saved(cfile, r), cfile} /\ UNCHANGED ufile
      BY <1>2, <2>3 DEF Newpass
    <3>2. r \in ConnRec /\ set \in Connections
      <4>1. conn[l] \in ConnRec
        BY <2>1, <2>3, Typed DEF Connections
      <4>2. r \in ConnRec
        BY <4>1 DEF ConnRec
      <4> QED
        BY <2>1, <2>3, <4>2, ConnFields, Typed
    <3>3. cfile' \in Files
      BY <3>1, <3>2, SavedShape, Typed
    <3> HIDE DEF l, r, kk, set, gone
    <3> QED
      BY <2>1, <3>1, <3>2, <3>3, DestructShapes, Typed, TypedNext
  <2> QED
    BY <2>2, <2>3
<1> QED
  BY <1>1, <1>2

LEMMA CrashTyped == TypeOK /\ Crash => TypeOK'
BY ContShapes, BlankShapes, Typed, TypedNext
   DEF Crash, Places, Objects, Prompting, Connections, Bodies

LEMMA TypedStep == TypeOK /\ [Next]_vars => TypeOK'
<1> SUFFICES ASSUME TypeOK, [Next]_vars PROVE TypeOK'
  OBVIOUS
<1>1. ASSUME NEW s \in Sock, SocketStep(s) PROVE TypeOK'
  <2>1. ASSUME NEW c \in Conn, LoginStep(s, c) PROVE TypeOK'
    BY <2>1, PromptTyped, NameTyped, EnterTyped, ReconnectTyped, ExecOldCopyTyped,
       NewAccountTyped DEF LoginStep
  <2>2. CASE Quit(s)
    BY <2>2, LeaveTyped DEF Quit
  <2> QED
    BY <1>1, <2>1, <2>2, ConnectTyped, CompleteSetupTyped, BreakTyped, PasswordTyped
    DEF SocketStep
<1>2. ASSUME NEW b \in Body, BodyStep(b) PROVE TypeOK'
  BY <1>2, DieReviveTyped, LeaveTyped DEF BodyStep
<1>3. ASSUME NEW c \in Conn, ConnStep(c) PROVE TypeOK'
  BY <1>3, ConnStepTyped
<1>4. CASE UNCHANGED vars
  BY <1>4, Typed, TypedNext DEF vars
<1> QED
  BY <1>1, <1>2, <1>3, <1>4, CrashTyped DEF Next

\* However users come, go, die and displace each other, sockets, prompts,
\* connections, bodies and data files keep the shape the program gives them.
THEOREM TypeCorrect == Spec => []TypeOK
<1>1. Init => TypeOK
  BY InitTyped
<1>2. TypeOK /\ [Next]_vars => TypeOK'
  BY TypedStep
<1> QED
  BY <1>1, <1>2, PTL DEF Spec

-----------------------------------------------------------------------------
(* The invariant, of sockets a, prompts kk, connections cs and bodies bs *)

In(a, o) == \E s \in Sock : a[s] = o

\* One socket per object.
Apart(a) == \A s, t \in Sock : a[s] # None /\ a[s] = a[t] => s = t

\* The sweep is armed for the user bodies that nobody is in, and the heart
\* beats of the bodies that somebody is in.
Timers(gone, a, bs) ==
    \A b \in Body \ gone :
        /\ bs[b].dump <=> bs[b].kind = "user" /\ bs[b].once /\ ~In(a, b)
        /\ In(a, b) => bs[b].heart

\* Bodies and their connections agree.
Links(gone, a, cs, bs) ==
    \A b \in Body \ gone : bs[b].link \notin gone \cup {None} =>
        /\ In(a, b) /\ ~In(a, bs[b].link)
        /\ cs[bs[b].link].live /\ cs[bs[b].link].body = b

\* A login prompt is answered in the connection it carries.
Asked(gone, a, kk, cs) ==
    \A s \in Sock : a[s] \notin gone /\ kk[s].f \in LoginPrompts =>
        a[s] = kk[s].ob /\ kk[s].ob \in Conn /\ cs[kk[s].ob].timer

\* Objects that are not there are blank.
Blank(gone, cs, bs) ==
    /\ \A c \in Conn \ gone : ~cs[c].live => cs[c] = NoConn
    /\ \A b \in Body \ gone : bs[b].kind = "none" => bs[b] = NoBody

\* Nothing refers to an object that is not there.
Refs(gone, a, kk, cs, bs) ==
    /\ \A c \in Conn \ gone : cs[c].body \notin gone \cup {None} =>
                                  bs[cs[c].body].kind # "none"
    /\ \A s \in Sock : /\ a[s] \in Conn \ gone => cs[a[s]].live
                       /\ a[s] \in Body \ gone => bs[a[s]].once
    /\ \A s \in Sock : a[s] \notin gone =>
          /\ kk[s].ob \in Conn \ gone => cs[kk[s].ob].live
          /\ kk[s].ob \in Body \ gone => bs[kk[s].ob].kind # "none"

\* The bodies of new accounts are there, unplayed and distinct.
Makes(p) == p.f \in {"new_pass", "get_real_name"}
Made(p, cs) == cs[p.ob].body
Fresh(gone, a, kk, cs, bs) ==
    \A s \in Sock : a[s] \notin gone /\ Makes(kk[s]) =>
        /\ Made(kk[s], cs) \notin gone \cup {None}
        /\ ~bs[Made(kk[s], cs)].once /\ ~bs[Made(kk[s], cs)].dying
Distinct(gone, a, kk, cs) ==
    \A s, t \in Sock :
        (/\ a[s] \notin gone /\ Makes(kk[s])
         /\ a[t] \notin gone /\ Makes(kk[t])
         /\ Made(kk[s], cs) = Made(kk[t], cs)) => s = t

Sound(gone, a, kk, cs, bs) ==
    /\ Apart(a) /\ Timers(gone, a, bs) /\ Links(gone, a, cs, bs)
    /\ Asked(gone, a, kk, cs) /\ Blank(gone, cs, bs)
    /\ Refs(gone, a, kk, cs, bs) /\ Fresh(gone, a, kk, cs, bs)
    /\ Distinct(gone, a, kk, cs)

Shaped(a, kk, cs, bs) ==
    a \in Places /\ kk \in Prompting /\ cs \in Connections /\ bs \in Bodies

\* IInv is Sound with nothing about to be destructed.
LEMMA InvIsSound ==
    ASSUME TypeOK
    PROVE  IInv <=> Sound({}, at, k, conn, body)
<1>1. conn \in Connections /\ body \in Bodies /\ k \in Prompting /\ at \in Places
  BY Typed
<1>2. \A o : In(at, o) <=> Interactive(o)
  BY DEF In, Interactive
<1>3. Apart(at) <=> SocketsApart
  BY DEF Apart, SocketsApart
<1>4. Timers({}, at, body) <=> SweepArmed /\ HeartOnWhenPlaying
  BY <1>2 DEF Timers, SweepArmed, HeartOnWhenPlaying
<1>5. Links({}, at, conn, body) <=> LinkCoherent /\ LinksIdle
  BY <1>2 DEF Links, LinkCoherent, LinksIdle
<1>6. Asked({}, at, k, conn) <=> PromptsHere
  BY DEF Asked, PromptsHere
<1>7. Blank({}, conn, body) /\ Refs({}, at, k, conn, body) <=> NoDangling
  BY DEF Blank, Refs, NoDangling
<1>8. Fresh({}, at, k, conn, body) /\ Distinct({}, at, k, conn) <=> NewBodies
  <2>1. \A s \in Sock : /\ Makes(k[s]) <=> Making(s)
                        /\ Made(k[s], conn) = MadeBy(s)
    BY DEF Makes, Making, Made, MadeBy
  <2> QED
    BY <2>1 DEF Fresh, Distinct, NewBodies
<1> QED
  BY <1>3, <1>4, <1>5, <1>6, <1>7, <1>8 DEF IInv, Sound

LEMMA InvIsSoundNext ==
    ASSUME TypeOK'
    PROVE  IInv' <=> Sound({}, at', k', conn', body')
<1>2. \A o : In(at', o) <=> Interactive(o)'
  BY DEF In, Interactive
<1>3. Apart(at') <=> SocketsApart'
  BY DEF Apart, SocketsApart
<1>4. Timers({}, at', body') <=> SweepArmed' /\ HeartOnWhenPlaying'
  BY <1>2 DEF Timers, SweepArmed, HeartOnWhenPlaying
<1>5. Links({}, at', conn', body') <=> LinkCoherent' /\ LinksIdle'
  BY <1>2 DEF Links, LinkCoherent, LinksIdle
<1>6. Asked({}, at', k', conn') <=> PromptsHere'
  BY DEF Asked, PromptsHere
<1>7. Blank({}, conn', body') /\ Refs({}, at', k', conn', body') <=> NoDangling'
  BY DEF Blank, Refs, NoDangling
<1>8. Fresh({}, at', k', conn', body') /\ Distinct({}, at', k', conn') <=> NewBodies'
  <2>1. \A s \in Sock : /\ Makes(k'[s]) <=> Making(s)'
                        /\ Made(k'[s], conn') = MadeBy(s)'
    BY DEF Makes, Making, Made, MadeBy
  <2> QED
    BY <2>1 DEF Fresh, Distinct, NewBodies
<1> QED
  BY <1>3, <1>4, <1>5, <1>6, <1>7, <1>8 DEF IInv, Sound

-----------------------------------------------------------------------------
(* Destructing objects *)

\* destruct() makes the invariant whole.
LEMMA Removed ==
    ASSUME NEW gone, None \notin gone,
           NEW a, NEW kk, NEW cs, NEW bs, Shaped(a, kk, cs, bs),
           Sound(gone, a, kk, cs, bs)
    PROVE  Sound({}, Closed(a, gone), Forgotten(kk, a, gone),
                 ConnsLess(cs, gone), BodiesLess(bs, gone))
<1> DEFINE a2 == Closed(a, gone)
           k2 == Forgotten(kk, a, gone)
           c2 == ConnsLess(cs, gone)
           b2 == BodiesLess(bs, gone)
<1>0. a \in Places /\ kk \in Prompting /\ cs \in Connections /\ bs \in Bodies
  BY DEF Shaped
<1>1. \A s \in Sock : a2[s] = IF a[s] \in gone THEN None ELSE a[s]
  BY DEF Closed
<1>2. \A s \in Sock : /\ a[s] \in gone => k2[s] = NoCont
                      /\ a[s] \notin gone => /\ k2[s].f = kk[s].f
                                             /\ k2[s].ob = IF kk[s].ob \in gone THEN None
                                                           ELSE kk[s].ob
  BY <1>0 DEF Forgotten, Prompting, Cont
<1>3. \A c \in Conn : /\ c \in gone => c2[c] = NoConn
                      /\ c \notin gone =>
                            /\ c2[c].live = cs[c].live /\ c2[c].timer = cs[c].timer
                            /\ c2[c].body = IF cs[c].body \in gone THEN None
                                            ELSE cs[c].body
                            /\ cs[c].body \notin gone => c2[c] = cs[c]
  BY <1>0 DEF ConnsLess, Connections, ConnRec
<1>4. \A b \in Body : /\ b \in gone => b2[b] = NoBody
                      /\ b \notin gone =>
                            /\ b2[b].kind = bs[b].kind /\ b2[b].once = bs[b].once
                            /\ b2[b].dump = bs[b].dump /\ b2[b].heart = bs[b].heart
                            /\ b2[b].dying = bs[b].dying
                            /\ b2[b].link = IF bs[b].link \in gone THEN None
                                            ELSE bs[b].link
                            /\ bs[b].link \notin gone => b2[b] = bs[b]
  BY <1>0 DEF BodiesLess, Bodies, BodyRec
<1>5. /\ ~NoConn.live /\ NoConn.body = None
      /\ NoBody.kind = "none" /\ NoBody.link = None /\ ~NoBody.once
      /\ ~NoBody.dump /\ NoCont.f = "none" /\ NoCont.ob = None
  BY DEF NoConn, NoBody, NoCont
<1>6. \A o \in Conn \cup Body : In(a2, o) <=> o \notin gone /\ In(a, o)
  BY <1>1, SessionAssumption DEF In
<1>7. Apart(a2)
  BY <1>1 DEF Sound, Apart
<1>8. Timers({}, a2, b2)
  BY <1>4, <1>5, <1>6 DEF Sound, Timers
<1>9. Links({}, a2, c2, b2)
  <2> SUFFICES ASSUME NEW b \in Body, b2[b].link # None
               PROVE  /\ In(a2, b) /\ ~In(a2, b2[b].link)
                      /\ c2[b2[b].link].live /\ c2[b2[b].link].body = b
    BY DEF Links
  <2>1. b \notin gone /\ bs[b].link \notin gone \cup {None} /\ b2[b].link = bs[b].link
    BY <1>4, <1>5
  <2>2. bs[b].link \in Conn
    BY <1>0, <2>1 DEF Bodies, BodyRec
  <2>3. /\ In(a, b) /\ ~In(a, bs[b].link)
        /\ cs[bs[b].link].live /\ cs[bs[b].link].body = b
    BY <2>1 DEF Sound, Links
  <2> QED
    BY <1>3, <1>6, <2>1, <2>2, <2>3
<1>10. Asked({}, a2, k2, c2)
  BY <1>1, <1>2, <1>3, <1>5 DEF Sound, Asked, LoginPrompts
<1>11. Blank({}, c2, b2)
  <2>1. ASSUME NEW c \in Conn, ~c2[c].live PROVE c2[c] = NoConn
    BY <1>3, <1>5, <2>1 DEF Sound, Blank
  <2>2. ASSUME NEW b \in Body, b2[b].kind = "none" PROVE b2[b] = NoBody
    BY <1>4, <1>5, <2>2 DEF Sound, Blank
  <2> QED
    BY <2>1, <2>2 DEF Blank
<1>12. Refs({}, a2, k2, c2, b2)
  <2>1. ASSUME NEW c \in Conn, c2[c].body # None
        PROVE  b2[c2[c].body].kind # "none"
    <3>1. c \notin gone /\ cs[c].body \notin gone \cup {None} /\ c2[c].body = cs[c].body
      BY <1>3, <1>5, <2>1
    <3>2. cs[c].body \in Body
      BY <1>0, <3>1 DEF Connections, ConnRec
    <3> QED
      BY <1>4, <3>1, <3>2 DEF Sound, Refs
  <2>2. ASSUME NEW s \in Sock
        PROVE  /\ a2[s] \in Conn => c2[a2[s]].live
               /\ a2[s] \in Body => b2[a2[s]].once
    BY <1>1, <1>3, <1>4, SessionAssumption DEF Sound, Refs
  <2>3. ASSUME NEW s \in Sock
        PROVE  /\ k2[s].ob \in Conn => c2[k2[s].ob].live
               /\ k2[s].ob \in Body => b2[k2[s].ob].kind # "none"
    BY <1>2, <1>3, <1>4, <1>5, SessionAssumption DEF Sound, Refs
  <2> QED
    BY <2>1, <2>2, <2>3 DEF Refs
<1>13. Fresh({}, a2, k2, c2, b2) /\ Distinct({}, a2, k2, c2)
  <2>1. ASSUME NEW s \in Sock, Makes(k2[s])
        PROVE  /\ a[s] \notin gone /\ Makes(kk[s])
               /\ Made(kk[s], cs) \in Body \ gone
               /\ Made(k2[s], c2) = Made(kk[s], cs)
    <3>1. a[s] \notin gone /\ Makes(kk[s])
      BY <1>2, <1>5, <2>1 DEF Makes
    <3>2. a[s] = kk[s].ob /\ kk[s].ob \in Conn
      BY <3>1 DEF Sound, Asked, Makes, LoginPrompts, Prompts
    <3>3. Made(kk[s], cs) \notin gone \cup {None}
      BY <3>1 DEF Sound, Fresh
    <3>4. Made(kk[s], cs) \in Body \cup {None}
      BY <1>0, <3>2 DEF Made, Connections, ConnRec
    <3> QED
      BY <1>2, <1>3, <3>1, <3>2, <3>3, <3>4 DEF Made
  <2>2. ASSUME NEW s \in Sock, Makes(k2[s])
        PROVE  /\ Made(k2[s], c2) # None
               /\ ~b2[Made(k2[s], c2)].once /\ ~b2[Made(k2[s], c2)].dying
    <3>1. a[s] \notin gone /\ Makes(kk[s]) /\ Made(kk[s], cs) \in Body \ gone
            /\ Made(k2[s], c2) = Made(kk[s], cs)
      BY <2>1, <2>2
    <3>2. ~bs[Made(kk[s], cs)].once /\ ~bs[Made(kk[s], cs)].dying
      BY <3>1 DEF Sound, Fresh
    <3> QED
      BY <1>4, <3>1, <3>2, SessionAssumption
  <2>3. ASSUME NEW s \in Sock, NEW t \in Sock, Makes(k2[s]), Makes(k2[t]),
               Made(k2[s], c2) = Made(k2[t], c2)
        PROVE  s = t
    BY <2>1, <2>3 DEF Sound, Distinct
  <2>4. Fresh({}, a2, k2, c2, b2)
    BY <2>2 DEF Fresh
  <2>5. Distinct({}, a2, k2, c2)
    <3> HIDE DEF a2, k2, c2
    <3> QED
      BY <2>3 DEF Distinct
  <2> QED
    BY <2>4, <2>5
<1> QED
  BY <1>7, <1>8, <1>9, <1>10, <1>11, <1>12, <1>13 DEF Sound

\* What is whole is sound apart from objects that no new account needs.
LEMMA Apartness ==
    ASSUME NEW gone, NEW a, NEW kk, NEW cs, NEW bs,
           Sound({}, a, kk, cs, bs),
           \A s \in Sock : a[s] \notin gone /\ Makes(kk[s]) => Made(kk[s], cs) \notin gone
    PROVE  Sound(gone, a, kk, cs, bs)
<1>1. Timers(gone, a, bs) /\ Links(gone, a, cs, bs)
  BY DEF Sound, Timers, Links
<1>2. Asked(gone, a, kk, cs) /\ Blank(gone, cs, bs)
  BY DEF Sound, Asked, Blank
<1>3. Refs(gone, a, kk, cs, bs)
  BY DEF Sound, Refs
<1>4. Fresh(gone, a, kk, cs, bs)
  BY DEF Sound, Fresh
<1>5. Distinct(gone, a, kk, cs)
  BY DEF Sound, Distinct
<1> QED
  BY <1>1, <1>2, <1>3, <1>4, <1>5 DEF Sound

-----------------------------------------------------------------------------
(* Objects from the pools, and the moves of one socket *)

\* Nothing refers to a connection that does not exist.
LEMMA UnusedConn ==
    ASSUME NEW a, NEW kk, NEW cs, NEW bs, Shaped(a, kk, cs, bs),
           Sound({}, a, kk, cs, bs), NEW c \in Conn, ~cs[c].live
    PROVE  /\ cs[c] = NoConn /\ ~In(a, c)
           /\ \A b \in Body : bs[b].link # c
           /\ \A s \in Sock : kk[s].ob # c
BY SessionAssumption DEF Sound, Blank, Refs, Links, In

\* Nothing refers to a body that does not exist.
LEMMA UnusedBody ==
    ASSUME NEW a, NEW kk, NEW cs, NEW bs, Shaped(a, kk, cs, bs),
           Sound({}, a, kk, cs, bs), NEW b \in Body, bs[b].kind = "none"
    PROVE  /\ bs[b] = NoBody /\ ~In(a, b)
           /\ \A c \in Conn : cs[c].body # b
           /\ \A s \in Sock : kk[s].ob # b
<1>1. bs[b] = NoBody /\ ~NoBody.once
  BY DEF Sound, Blank, NoBody
<1>2. \A c \in Conn : cs[c].body # b
  BY SessionAssumption DEF Sound, Refs
<1>3. \A s \in Sock : kk[s].ob # b /\ a[s] # b
  BY <1>1 DEF Sound, Refs
<1> QED
  BY <1>1, <1>2, <1>3 DEF In

\* A socket at a login prompt has the connection that the prompt carries.
LEMMA AtPrompt ==
    ASSUME NEW a, NEW kk, NEW cs, NEW bs, Shaped(a, kk, cs, bs),
           Sound({}, a, kk, cs, bs), NEW s \in Sock, Makes(kk[s])
    PROVE  a[s] = kk[s].ob /\ kk[s].ob \in Conn
BY DEF Sound, Asked, Makes, LoginPrompts, Prompts

\* The prompt of a socket that is interactive in connection c, and the data of
\* c, change.
LEMMA PromptSound ==
    ASSUME NEW a, NEW kk, NEW cs, NEW bs, Shaped(a, kk, cs, bs),
           Sound({}, a, kk, cs, bs),
           NEW s \in Sock, NEW c \in Conn, a[s] = c,
           NEW p \in Cont, p.ob \in {c, None},
           p.f \in LoginPrompts => p.ob = c,
           NEW r \in ConnRec, r.live,
           p.f \in LoginPrompts => r.timer,
           r.body # None => bs[r.body].kind # "none",
           Makes(p) => /\ r.body # None /\ ~bs[r.body].once /\ ~bs[r.body].dying
                       /\ \A t \in Sock \ {s} : Makes(kk[t]) => Made(kk[t], cs) # r.body
    PROVE  Sound({}, a, [kk EXCEPT ![s] = p], [cs EXCEPT ![c] = r], bs)
<1> DEFINE k2 == [kk EXCEPT ![s] = p]
           c2 == [cs EXCEPT ![c] = r]
<1>0. a \in Places /\ kk \in Prompting /\ cs \in Connections /\ bs \in Bodies
  BY DEF Shaped
<1>1. k2[s] = p /\ \A t \in Sock \ {s} : k2[t] = kk[t]
  BY <1>0 DEF Prompting
<1>2. c2[c] = r /\ \A d \in Conn \ {c} : c2[d] = cs[d]
  BY <1>0 DEF Connections
<1>3. In(a, c) /\ \A t \in Sock \ {s} : a[t] # c
  BY SessionAssumption DEF In, Sound, Apart
<1>4. Apart(a) /\ Timers({}, a, bs)
  BY DEF Sound
<1>5. Links({}, a, c2, bs)
  <2> SUFFICES ASSUME NEW b \in Body, bs[b].link # None
               PROVE  /\ In(a, b) /\ ~In(a, bs[b].link)
                      /\ c2[bs[b].link].live /\ c2[bs[b].link].body = b
    BY DEF Links
  <2>1. /\ In(a, b) /\ ~In(a, bs[b].link)
        /\ cs[bs[b].link].live /\ cs[bs[b].link].body = b
    BY DEF Sound, Links
  <2>2. bs[b].link \in Conn \ {c}
    BY <1>0, <1>3, <2>1 DEF Bodies, BodyRec
  <2> QED
    BY <1>2, <2>1, <2>2
<1>6. Asked({}, a, k2, c2)
  BY <1>1, <1>2, <1>3 DEF Sound, Asked
<1>7. Blank({}, c2, bs)
  BY <1>2 DEF Sound, Blank
<1>8. Refs({}, a, k2, c2, bs)
  <2>1. \A d \in Conn : c2[d].body # None => bs[c2[d].body].kind # "none"
    BY <1>2 DEF Sound, Refs
  <2>2. \A t \in Sock : /\ a[t] \in Conn => c2[a[t]].live
                        /\ a[t] \in Body => bs[a[t]].once
    BY <1>2 DEF Sound, Refs
  <2>3. \A t \in Sock : /\ k2[t].ob \in Conn => c2[k2[t].ob].live
                        /\ k2[t].ob \in Body => bs[k2[t].ob].kind # "none"
    BY <1>1, <1>2, SessionAssumption DEF Sound, Refs
  <2> QED
    BY <2>1, <2>2, <2>3 DEF Refs
<1>9. \A t \in Sock \ {s} : Makes(kk[t]) => Made(k2[t], c2) = Made(kk[t], cs)
  <2> SUFFICES ASSUME NEW t \in Sock \ {s}, Makes(kk[t])
               PROVE  Made(k2[t], c2) = Made(kk[t], cs)
    OBVIOUS
  <2>1. kk[t].ob \in Conn \ {c}
    BY <1>3, AtPrompt
  <2> QED
    BY <1>1, <1>2, <2>1 DEF Made
<1>10. Makes(p) => Made(k2[s], c2) = r.body
  BY <1>1, <1>2 DEF Made, Makes, LoginPrompts, Prompts
<1>11. Fresh({}, a, k2, c2, bs) /\ Distinct({}, a, k2, c2)
  <2> HIDE DEF k2, c2
  <2>1. Fresh({}, a, k2, c2, bs)
    BY <1>1, <1>9, <1>10 DEF Sound, Fresh
  <2>2. Distinct({}, a, k2, c2)
    BY <1>1, <1>9, <1>10 DEF Sound, Distinct
  <2> QED
    BY <2>1, <2>2
<1> QED
  BY <1>4, <1>5, <1>6, <1>7, <1>8, <1>11 DEF Sound

\* A connection from the pool, at a fresh start or for a displaced socket.
LEMMA NewConnSound ==
    ASSUME NEW a, NEW kk, NEW cs, NEW bs, Shaped(a, kk, cs, bs),
           Sound({}, a, kk, cs, bs), NEW c \in Conn, ~cs[c].live,
           NEW r \in ConnRec, r.live, r.body = None
    PROVE  Sound({}, a, kk, [cs EXCEPT ![c] = r], bs)
<1> DEFINE c2 == [cs EXCEPT ![c] = r]
<1>0. a \in Places /\ kk \in Prompting /\ cs \in Connections /\ bs \in Bodies
  BY DEF Shaped
<1>1. c2[c] = r /\ \A d \in Conn \ {c} : c2[d] = cs[d]
  BY <1>0 DEF Connections
<1>2. ~In(a, c) /\ (\A b \in Body : bs[b].link # c) /\ (\A s \in Sock : kk[s].ob # c)
  BY UnusedConn
<1>3. Links({}, a, c2, bs)
  BY <1>0, <1>1, <1>2 DEF Sound, Links, Bodies, BodyRec
<1>4. Asked({}, a, kk, c2)
  BY <1>1, <1>2 DEF Sound, Asked
<1>5. Blank({}, c2, bs) /\ Refs({}, a, kk, c2, bs)
  BY <1>1, <1>2 DEF Sound, Blank, Refs
<1>6. \A s \in Sock : Makes(kk[s]) => Made(kk[s], c2) = Made(kk[s], cs)
  BY <1>1, <1>2, AtPrompt DEF Made
<1>7. Fresh({}, a, kk, c2, bs) /\ Distinct({}, a, kk, c2)
  <2> HIDE DEF c2
  <2> QED
    BY <1>6 DEF Sound, Fresh, Distinct
<1> QED
  BY <1>3, <1>4, <1>5, <1>7 DEF Sound

\* exec(): a socket moves from connection c to body b, which has nobody in it
\* and is not being made for anybody else; r is the body then.
LEMMA TakesOver ==
    ASSUME NEW a, NEW kk, NEW cs, NEW bs, Shaped(a, kk, cs, bs),
           Sound({}, a, kk, cs, bs),
           NEW s \in Sock, NEW c \in Conn, a[s] = c,
           NEW b \in Body, ~In(a, b),
           \A t \in Sock \ {s} : Makes(kk[t]) => Made(kk[t], cs) # b,
           NEW r \in BodyRec, r.kind # "none", r.link = c, r.once, r.heart, ~r.dump,
           NEW p \in Cont, p.f \notin LoginPrompts, p.ob \in {b, None}
    PROVE  Sound({}, [a EXCEPT ![s] = b], [kk EXCEPT ![s] = p],
                 [cs EXCEPT ![c].body = b], [bs EXCEPT ![b] = r])
<1> DEFINE a2 == [a EXCEPT ![s] = b]
           k2 == [kk EXCEPT ![s] = p]
           c2 == [cs EXCEPT ![c].body = b]
           b2 == [bs EXCEPT ![b] = r]
<1>0. a \in Places /\ kk \in Prompting /\ cs \in Connections /\ bs \in Bodies
  BY DEF Shaped
<1>1. /\ a2[s] = b /\ \A t \in Sock \ {s} : a2[t] = a[t]
      /\ k2[s] = p /\ \A t \in Sock \ {s} : k2[t] = kk[t]
  BY <1>0 DEF Prompting, Places
<1>2. /\ c2[c].body = b /\ c2[c].live = cs[c].live /\ c2[c].timer = cs[c].timer
      /\ \A d \in Conn \ {c} : c2[d] = cs[d]
      /\ b2[b] = r /\ \A d \in Body \ {b} : b2[d] = bs[d]
  BY <1>0 DEF Connections, ConnRec, Bodies
<1>3. In(a, c) /\ (\A t \in Sock \ {s} : a[t] # c) /\ cs[c].live
  BY SessionAssumption DEF In, Sound, Apart, Refs
<1>4. /\ In(a2, b) /\ ~In(a2, c)
      /\ \A o \in (Conn \cup Body) \ {b, c} : In(a2, o) <=> In(a, o)
  BY <1>1, <1>3, SessionAssumption DEF In
<1>5. Apart(a2)
  BY <1>1 DEF Sound, Apart, In
<1>6. Timers({}, a2, b2)
  <2>1. ASSUME NEW d \in Body \ {b}
        PROVE  b2[d] = bs[d] /\ (In(a2, d) <=> In(a, d))
    BY <1>2, <1>4, SessionAssumption
  <2>2. ASSUME NEW d \in Body
        PROVE  /\ b2[d].dump <=> b2[d].kind = "user" /\ b2[d].once /\ ~In(a2, d)
               /\ In(a2, d) => b2[d].heart
    <3>1. CASE d = b
      BY <1>2, <1>4, <3>1
    <3>2. CASE d # b
      BY <2>1, <3>2 DEF Sound, Timers
    <3> QED
      BY <3>1, <3>2
  <2> QED
    BY <2>2 DEF Timers
<1>7. Links({}, a2, c2, b2)
  <2> SUFFICES ASSUME NEW d \in Body, b2[d].link # None
               PROVE  /\ In(a2, d) /\ ~In(a2, b2[d].link)
                      /\ c2[b2[d].link].live /\ c2[b2[d].link].body = d
    BY DEF Links
  <2>1. CASE d = b
    BY <1>2, <1>3, <1>4, <2>1
  <2>2. CASE d # b
    <3>1. /\ In(a, d) /\ ~In(a, bs[d].link)
          /\ cs[bs[d].link].live /\ cs[bs[d].link].body = d
      BY <1>2, <2>2 DEF Sound, Links
    <3>2. bs[d].link \in Conn \ {c}
      BY <1>0, <1>2, <1>3, <2>2, <3>1 DEF Bodies, BodyRec
    <3> DEFINE e == bs[d].link
    <3>3. b2[d].link = e /\ c2[e] = cs[e]
      BY <1>2, <2>2, <3>2
    <3>4. d # c /\ e # b /\ d \in Conn \cup Body /\ e \in Conn \cup Body
      BY <3>2, SessionAssumption
    <3>5. (In(a2, d) <=> In(a, d)) /\ (In(a2, e) <=> In(a, e))
      BY <1>4, <2>2, <3>2, <3>4
    <3> HIDE DEF e, a2, b2, c2
    <3>6. In(a, d) /\ ~In(a, e) /\ cs[e].live /\ cs[e].body = d
      BY <3>1 DEF e
    <3> QED
      BY <3>3, <3>5, <3>6
  <2> QED
    BY <2>1, <2>2
<1>8. Asked({}, a2, k2, c2)
  BY <1>1, <1>2, <1>3 DEF Sound, Asked
<1>9. Blank({}, c2, b2)
  BY <1>2, <1>3 DEF Sound, Blank
<1>10. Refs({}, a2, k2, c2, b2)
  <2>1. \A d \in Conn : c2[d].body # None => b2[c2[d].body].kind # "none"
    <3> SUFFICES ASSUME NEW d \in Conn, c2[d].body # None
                 PROVE  b2[c2[d].body].kind # "none"
      OBVIOUS
    <3>1. CASE c2[d].body = b
      BY <1>2, <3>1
    <3>2. CASE c2[d].body # b
      <4>1. c2[d].body = cs[d].body /\ cs[d].body \in Body \ {b}
        BY <1>0, <1>2, <3>2 DEF Connections, ConnRec
      <4> QED
        BY <1>2, <4>1 DEF Sound, Refs
    <3> QED
      BY <3>1, <3>2
  <2>2. \A t \in Sock : /\ a2[t] \in Conn => c2[a2[t]].live
                        /\ a2[t] \in Body => b2[a2[t]].once
    BY <1>1, <1>2, <1>3, SessionAssumption DEF Sound, Refs
  <2>3. \A t \in Sock : /\ k2[t].ob \in Conn => c2[k2[t].ob].live
                        /\ k2[t].ob \in Body => b2[k2[t].ob].kind # "none"
    BY <1>1, <1>2, <1>3, SessionAssumption DEF Sound, Refs
  <2> QED
    BY <2>1, <2>2, <2>3 DEF Refs
<1>11. ~Makes(p)
  BY DEF Makes, LoginPrompts, Prompts
<1>12. \A t \in Sock : Makes(k2[t]) =>
          t # s /\ Makes(kk[t]) /\ Made(k2[t], c2) = Made(kk[t], cs)
  <2> SUFFICES ASSUME NEW t \in Sock, Makes(k2[t])
               PROVE  t # s /\ Makes(kk[t]) /\ Made(k2[t], c2) = Made(kk[t], cs)
    OBVIOUS
  <2>1. t # s /\ k2[t] = kk[t]
    BY <1>1, <1>11
  <2>2. kk[t].ob \in Conn \ {c}
    BY <1>3, <2>1, AtPrompt
  <2> QED
    BY <1>2, <2>1, <2>2 DEF Made
<1>13. Fresh({}, a2, k2, c2, b2) /\ Distinct({}, a2, k2, c2)
  <2>1. \A t \in Sock : Makes(k2[t]) =>
           Made(k2[t], c2) # None /\ ~b2[Made(k2[t], c2)].once /\ ~b2[Made(k2[t], c2)].dying
    <3> SUFFICES ASSUME NEW t \in Sock, Makes(k2[t])
                 PROVE  /\ Made(k2[t], c2) # None
                        /\ ~b2[Made(k2[t], c2)].once /\ ~b2[Made(k2[t], c2)].dying
      OBVIOUS
    <3>1. /\ t # s /\ Makes(kk[t]) /\ Made(k2[t], c2) = Made(kk[t], cs)
          /\ Made(kk[t], cs) # b
      BY <1>12
    <3>2. Made(kk[t], cs) \in Body \cup {None}
      BY <1>0, <3>1, AtPrompt DEF Made, Connections, ConnRec
    <3> QED
      BY <1>2, <3>1, <3>2 DEF Sound, Fresh
  <2> HIDE DEF a2, k2, c2, b2
  <2> QED
    BY <1>12, <2>1 DEF Sound, Fresh, Distinct
<1> QED
  BY <1>5, <1>6, <1>7, <1>8, <1>9, <1>10, <1>13 DEF Sound

\* Prompts are answered, forgotten or replaced by ones that are not of the login.
LEMMA Cleared ==
    ASSUME NEW a, NEW kk, NEW cs, NEW bs, Shaped(a, kk, cs, bs),
           Sound({}, a, kk, cs, bs), NEW s \in Sock,
           NEW p \in Cont, p.f \notin LoginPrompts,
           p.ob \in Conn => cs[p.ob].live,
           p.ob \in Body => bs[p.ob].kind # "none"
    PROVE  Sound({}, a, [kk EXCEPT ![s] = p], cs, bs)
<1> DEFINE k2 == [kk EXCEPT ![s] = p]
<1>1. k2[s] = p /\ \A t \in Sock \ {s} : k2[t] = kk[t]
  BY DEF Shaped, Prompting
<1>2. ~Makes(p)
  BY DEF Makes, LoginPrompts, Prompts
<1> HIDE DEF k2
<1>3. Asked({}, a, k2, cs)
  BY <1>1 DEF Sound, Asked
<1>4. Refs({}, a, k2, cs, bs)
  BY <1>1 DEF Sound, Refs
<1>5. Fresh({}, a, k2, cs, bs) /\ Distinct({}, a, k2, cs)
  BY <1>1, <1>2 DEF Sound, Fresh, Distinct
<1> QED
  BY <1>3, <1>4, <1>5 DEF Sound, k2

LEMMA NothingAsked ==
    ASSUME NEW a, NEW kk, NEW cs, NEW bs, Shaped(a, kk, cs, bs),
           Sound({}, a, kk, cs, bs), NEW s \in Sock
    PROVE  Sound({}, a, [kk EXCEPT ![s] = NoCont], cs, bs)
<1>1. /\ NoCont \in Cont /\ NoCont.f \notin LoginPrompts
      /\ NoCont.ob \notin Conn /\ NoCont.ob \notin Body
  BY ContShapes, SessionAssumption DEF NoCont, LoginPrompts
<1> QED
  BY <1>1, Cleared

\* Bodies change in a way the invariant does not tell.
LEMMA SameBodies ==
    ASSUME NEW a, NEW kk, NEW cs, NEW bs, Sound({}, a, kk, cs, bs), NEW b2,
           cs \in Connections, kk \in Prompting, a \in Places,
           \A d \in Body : /\ b2[d].kind = bs[d].kind /\ b2[d].once = bs[d].once
                           /\ b2[d].dump = bs[d].dump /\ b2[d].heart = bs[d].heart
                           /\ b2[d].link = bs[d].link /\ b2[d].dying = bs[d].dying
                           /\ bs[d].kind = "none" => b2[d] = bs[d]
    PROVE  Sound({}, a, kk, cs, b2)
<1>1. Timers({}, a, b2) /\ Links({}, a, cs, b2)
  BY DEF Sound, Timers, Links
<1>2. Blank({}, cs, b2)
  BY DEF Sound, Blank
<1>3. Refs({}, a, kk, cs, b2)
  BY DEF Sound, Refs, Connections, ConnRec
<1>4. \A s \in Sock : Makes(kk[s]) => Made(kk[s], cs) \in Body
  <2> SUFFICES ASSUME NEW s \in Sock, Makes(kk[s]) PROVE Made(kk[s], cs) \in Body
    OBVIOUS
  <2>1. kk[s].ob \in Conn
    BY DEF Sound, Asked, Makes, LoginPrompts, Prompts
  <2> QED
    BY <2>1 DEF Sound, Fresh, Made, Connections, ConnRec
<1>5. Fresh({}, a, kk, cs, b2)
  BY <1>4 DEF Sound, Fresh
<1> QED
  BY <1>1, <1>2, <1>3, <1>5 DEF Sound

\* Connections change in a way the invariant does not tell.
LEMMA SameConns ==
    ASSUME NEW a, NEW kk, NEW cs, NEW bs, Sound({}, a, kk, cs, bs), NEW c2,
           Shaped(a, kk, cs, bs),
           \A d \in Conn : /\ c2[d].live = cs[d].live /\ c2[d].body = cs[d].body
                           /\ In(a, d) => c2[d].timer = cs[d].timer
                           /\ ~cs[d].live => c2[d] = cs[d]
    PROVE  Sound({}, a, kk, c2, bs)
<1>1. Links({}, a, c2, bs)
  BY DEF Sound, Links, Shaped, Bodies, BodyRec
<1>2. Asked({}, a, kk, c2)
  BY DEF Sound, Asked, In
<1>3. Blank({}, c2, bs) /\ Refs({}, a, kk, c2, bs)
  BY DEF Sound, Blank, Refs
<1>4. \A s \in Sock : Makes(kk[s]) => Made(kk[s], c2) = Made(kk[s], cs)
  BY AtPrompt DEF Made
<1>5. Fresh({}, a, kk, c2, bs) /\ Distinct({}, a, kk, c2)
  BY <1>4 DEF Sound, Fresh, Distinct
<1> QED
  BY <1>1, <1>2, <1>3, <1>5 DEF Sound

\* A body from the pool that nobody plays yet.
LEMMA NewBodySound ==
    ASSUME NEW a, NEW kk, NEW cs, NEW bs, Shaped(a, kk, cs, bs),
           Sound({}, a, kk, cs, bs), NEW b \in Body, bs[b].kind = "none",
           NEW r \in BodyRec, r.kind # "none", r.link = None, ~r.once, ~r.dump
    PROVE  Sound({}, a, kk, cs, [bs EXCEPT ![b] = r])
<1> DEFINE b2 == [bs EXCEPT ![b] = r]
<1>0. a \in Places /\ kk \in Prompting /\ cs \in Connections /\ bs \in Bodies
  BY DEF Shaped
<1>1. b2[b] = r /\ \A d \in Body \ {b} : b2[d] = bs[d]
  BY <1>0 DEF Bodies
<1>2. ~In(a, b) /\ (\A c \in Conn : cs[c].body # b) /\ (\A s \in Sock : kk[s].ob # b)
  BY UnusedBody
<1> HIDE DEF b2
<1>3. Timers({}, a, b2) /\ Links({}, a, cs, b2)
  BY <1>1, <1>2 DEF Sound, Timers, Links
<1>4. Blank({}, cs, b2)
  BY <1>1 DEF Sound, Blank
<1>5. Refs({}, a, kk, cs, b2)
  <2>1. \A c \in Conn : cs[c].body # None => cs[c].body \in Body \ {b}
    BY <1>0, <1>2 DEF Connections, ConnRec
  <2> QED
    BY <1>1, <1>2, <2>1 DEF Sound, Refs, In
<1>6. \A s \in Sock : Makes(kk[s]) => Made(kk[s], cs) \in (Body \cup {None}) \ {b}
  BY <1>0, <1>2, AtPrompt DEF Made, Connections, ConnRec
<1>7. Fresh({}, a, kk, cs, b2)
  BY <1>1, <1>6 DEF Sound, Fresh
<1> QED
  BY <1>3, <1>4, <1>5, <1>7 DEF Sound, b2

-----------------------------------------------------------------------------
(* The moves of a body's socket *)

LEMMA Now ==
    ASSUME IInv
    PROVE  /\ TypeOK /\ Shaped(at, k, conn, body) /\ Sound({}, at, k, conn, body)
           /\ at \in Places /\ k \in Prompting /\ conn \in Connections /\ body \in Bodies
<1>1. TypeOK
  BY DEF IInv
<1> QED
  BY <1>1, Typed, InvIsSound DEF Shaped

\* Which body an account that is being made has.
LEMMA MadeBodies ==
    ASSUME IInv, NEW s \in Sock, Makes(k[s])
    PROVE  /\ at[s] = k[s].ob /\ k[s].ob \in Conn
           /\ Made(k[s], conn) \in Body
           /\ ~body[Made(k[s], conn)].once /\ ~body[Made(k[s], conn)].dying
           /\ ~In(at, Made(k[s], conn))
<1>1. Shaped(at, k, conn, body) /\ Sound({}, at, k, conn, body) /\ conn \in Connections
  BY Now
<1>2. at[s] = k[s].ob /\ k[s].ob \in Conn
  BY <1>1, AtPrompt
<1>3. Made(k[s], conn) \in Body \cup {None}
  BY <1>1, <1>2 DEF Made, Connections, ConnRec
<1>4. Made(k[s], conn) # None /\ ~body[Made(k[s], conn)].once
        /\ ~body[Made(k[s], conn)].dying
  BY <1>1 DEF Sound, Fresh
<1>5. \A t \in Sock : at[t] \in Body => body[at[t]].once
  BY <1>1 DEF Sound, Refs
<1> QED
  BY <1>2, <1>3, <1>4, <1>5 DEF In

\* A body that has a connection.
LEMMA LinkedBody ==
    ASSUME IInv, NEW b \in Body, body[b].link # None
    PROVE  /\ body[b].link \in Conn
           /\ In(at, b) /\ ~In(at, body[b].link)
           /\ conn[body[b].link].live /\ conn[body[b].link].body = b
           /\ body[b].once /\ body[b].kind # "none" /\ ~body[b].dump
<1>1. Sound({}, at, k, conn, body) /\ body \in Bodies
  BY Now
<1>2. body[b].link \in Conn
  BY <1>1 DEF Bodies, BodyRec
<1>3. /\ In(at, b) /\ ~In(at, body[b].link)
      /\ conn[body[b].link].live /\ conn[body[b].link].body = b
  BY <1>1 DEF Sound, Links
<1>4. body[b].once
  BY <1>1, <1>3 DEF Sound, Refs, In
<1>5. body[b].kind # "none"
  BY <1>1 DEF Sound, Blank, NoBody
<1>6. ~body[b].dump
  BY <1>1, <1>3 DEF Sound, Timers
<1> QED
  BY <1>2, <1>3, <1>4, <1>5, <1>6

\* switch_body(): the socket of b and its connection go over to nb.
LEMMA SwitchedTo ==
    ASSUME IInv, NEW b \in Body, body[b].link # None,
           NEW nb \in Body, body[nb].kind = "none",
           NEW r \in BodyRec, r.kind # "none", r.link = body[b].link,
           r.once, r.heart, ~r.dump,
           NEW kk, \A t \in Sock : kk[t] \in {k[t], NoCont},
           NEW a, \A t \in Sock : a[t] = IF at[t] = b THEN nb ELSE at[t],
           NEW cs, /\ cs[body[b].link].live = conn[body[b].link].live
                   /\ cs[body[b].link].body = nb
                   /\ cs[body[b].link].timer = conn[body[b].link].timer
                   /\ \A d \in Conn \ {body[b].link} : cs[d] = conn[d],
           NEW bs, /\ bs[nb] = r /\ bs[b].kind = body[b].kind
                   /\ bs[b].dump = body[b].dump /\ bs[b].link = None /\ ~bs[b].once
                   /\ \A d \in Body \ {b, nb} : bs[d] = body[d]
    PROVE  /\ Sound({}, a, kk, cs, bs)
           /\ \A t \in Sock : Makes(kk[t]) => Made(kk[t], cs) # b
<1> DEFINE l == body[b].link
<1>0. /\ TypeOK /\ Shaped(at, k, conn, body) /\ Sound({}, at, k, conn, body)
      /\ at \in Places /\ k \in Prompting /\ conn \in Connections /\ body \in Bodies
  BY Now
<1>1. /\ l \in Conn /\ In(at, b) /\ ~In(at, l) /\ conn[l].live /\ conn[l].body = b
      /\ body[b].once /\ body[b].kind # "none" /\ ~body[b].dump
  BY LinkedBody
<1>2. ~In(at, nb) /\ nb # b /\ \A t \in Sock : k[t].ob # nb
  BY <1>0, <1>1, UnusedBody
<1>3. \A t \in Sock : a[t] = IF at[t] = b THEN nb ELSE at[t]
  OBVIOUS
<1>4. /\ cs[l].live /\ cs[l].body = nb
      /\ cs[l].timer = conn[l].timer
      /\ \A d \in Conn \ {l} : cs[d] = conn[d]
  BY <1>1
<1>5. /\ bs[nb] = r /\ bs[b].kind = body[b].kind /\ bs[b].dump = body[b].dump
      /\ bs[b].link = None /\ ~bs[b].once
      /\ \A d \in Body \ {b, nb} : bs[d] = body[d]
  OBVIOUS
<1>l. l = body[b].link /\ r.link = l
  OBVIOUS
<1> HIDE DEF l
<1>6. /\ In(a, nb) /\ ~In(a, b)
      /\ \A o \in (Conn \cup Body) \ {b, nb} : In(a, o) <=> In(at, o)
  BY <1>1, <1>2, <1>3 DEF In
<1>7. Apart(a)
  BY <1>0, <1>2, <1>3, SessionAssumption DEF Sound, Apart, In
<1>8. Timers({}, a, bs)
  <2>1. ASSUME NEW d \in Body \ {b, nb}
        PROVE  bs[d] = body[d] /\ (In(a, d) <=> In(at, d))
    BY <1>5, <1>6
  <2>2. ASSUME NEW d \in Body
        PROVE  /\ bs[d].dump <=> bs[d].kind = "user" /\ bs[d].once /\ ~In(a, d)
               /\ In(a, d) => bs[d].heart
    <3>1. CASE d = b \/ d = nb
      BY <1>1, <1>5, <1>6, <3>1
    <3>2. CASE d # b /\ d # nb
      BY <1>0, <2>1, <3>2 DEF Sound, Timers
    <3> QED
      BY <3>1, <3>2
  <2> QED
    BY <2>2 DEF Timers
<1>9. Links({}, a, cs, bs)
  <2> SUFFICES ASSUME NEW d \in Body, bs[d].link # None
               PROVE  /\ In(a, d) /\ ~In(a, bs[d].link)
                      /\ cs[bs[d].link].live /\ cs[bs[d].link].body = d
    BY DEF Links
  <2>1. CASE d = nb
    BY <1>1, <1>4, <1>5, <1>6, <2>1, SessionAssumption
  <2>2. CASE d # nb
    <3>1. d # b /\ bs[d] = body[d]
      BY <1>5, <2>2
    <3>2. /\ body[d].link \in Conn /\ In(at, d) /\ ~In(at, body[d].link)
          /\ conn[body[d].link].live /\ conn[body[d].link].body = d
      BY <3>1, LinkedBody
    <3>3. body[d].link # l
      BY <1>1, <3>1, <3>2
    <3> QED
      BY <1>4, <1>6, <2>2, <3>1, <3>2, <3>3, SessionAssumption
  <2> QED
    BY <2>1, <2>2
<1>10. \A t \in Sock : kk[t].f # "none" => kk[t] = k[t]
  BY DEF NoCont
<1>11. \A t \in Sock : k[t].f \in LoginPrompts =>
          /\ at[t] = k[t].ob /\ k[t].ob \in Conn \ {l} /\ conn[k[t].ob].timer
          /\ a[t] = at[t]
  BY <1>0, <1>1, <1>3, SessionAssumption DEF Sound, Asked, In
<1>12. Asked({}, a, kk, cs)
  BY <1>4, <1>10, <1>11 DEF Asked, LoginPrompts
<1>13. Blank({}, cs, bs)
  BY <1>0, <1>1, <1>4, <1>5 DEF Sound, Blank
<1>14. Refs({}, a, kk, cs, bs)
  <2>1. \A d \in Body : body[d].kind # "none" => bs[d].kind # "none"
    BY <1>5
  <2>2. ASSUME NEW d \in Conn, cs[d].body # None
        PROVE  bs[cs[d].body].kind # "none"
    <3>1. CASE d = l
      BY <1>4, <1>5, <3>1
    <3>2. CASE d # l
      <4>1. cs[d].body = conn[d].body /\ conn[d].body \in Body
        BY <1>0, <1>4, <2>2, <3>2 DEF Connections, ConnRec
      <4> QED
        BY <1>0, <2>1, <2>2, <4>1 DEF Sound, Refs
    <3> QED
      BY <3>1, <3>2
  <2>3. ASSUME NEW t \in Sock
        PROVE  /\ a[t] \in Conn => cs[a[t]].live
               /\ a[t] \in Body => bs[a[t]].once
    BY <1>0, <1>1, <1>3, <1>4, <1>5, SessionAssumption DEF Sound, Refs
  <2>4. ASSUME NEW t \in Sock
        PROVE  /\ kk[t].ob \in Conn => cs[kk[t].ob].live
               /\ kk[t].ob \in Body => bs[kk[t].ob].kind # "none"
    <3>1. CASE kk[t] = k[t]
      BY <1>0, <1>4, <2>1, <3>1 DEF Sound, Refs
    <3>2. CASE kk[t] = NoCont
      BY <3>2, SessionAssumption DEF NoCont
    <3> QED
      BY <3>1, <3>2
  <2> QED
    BY <2>2, <2>3, <2>4 DEF Refs
<1>15. \A t \in Sock : Makes(kk[t]) =>
          /\ Makes(k[t]) /\ Made(kk[t], cs) = Made(k[t], conn)
          /\ Made(k[t], conn) \in Body \ {b, nb}
  <2> SUFFICES ASSUME NEW t \in Sock, Makes(kk[t])
               PROVE  /\ Makes(k[t]) /\ Made(kk[t], cs) = Made(k[t], conn)
                      /\ Made(k[t], conn) \in Body \ {b, nb}
    OBVIOUS
  <2>1. Makes(k[t]) /\ kk[t] = k[t]
    BY <1>10 DEF Makes
  <2>2. k[t].ob \in Conn \ {l} /\ Made(k[t], conn) \in Body /\ ~body[Made(k[t], conn)].once
    BY <1>11, <2>1, MadeBodies DEF Makes, LoginPrompts, Prompts
  <2>3. Made(k[t], conn) # nb
    BY <1>0, <2>2, UnusedBody DEF Made
  <2> QED
    BY <1>1, <1>4, <2>1, <2>2, <2>3 DEF Made
<1>16. Fresh({}, a, kk, cs, bs) /\ Distinct({}, a, kk, cs)
  <2>1. \A t \in Sock : Makes(kk[t]) =>
           /\ Made(kk[t], cs) # None
           /\ ~bs[Made(kk[t], cs)].once /\ ~bs[Made(kk[t], cs)].dying
    BY <1>5, <1>15, MadeBodies, SessionAssumption
  <2>2. \A s, t \in Sock : Makes(kk[s]) /\ Makes(kk[t]) /\ Made(kk[s], cs) = Made(kk[t], cs)
                              => s = t
    BY <1>0, <1>15 DEF Sound, Distinct
  <2> QED
    BY <2>1, <2>2 DEF Fresh, Distinct
<1> QED
  BY <1>7, <1>8, <1>9, <1>12, <1>13, <1>14, <1>15, <1>16 DEF Sound

\* switch_body() and what is destructed in the same callback.
LEMMA SwitchStep ==
    ASSUME IInv, NEW b \in Body, body[b].link # None,
           NEW nb \in Body, body[nb].kind = "none",
           NEW r \in BodyRec, r.kind # "none", r.link = body[b].link,
           r.once, r.heart, ~r.dump,
           NEW dead \in BOOLEAN, NEW gone \in {{}, {b}},
           NEW kk \in Prompting, \A t \in Sock : kk[t] \in {k[t], NoCont},
           SwitchBody(b, nb, r, dead, gone), k' = Forgotten(kk, at', gone)
    PROVE  Sound({}, at', k', conn', body')
<1> DEFINE l == body[b].link
           a == Moved(b, nb)
           cs == [conn EXCEPT ![l].body = nb, ![l].dead = dead]
           bs == [body EXCEPT ![nb] = r, ![b].link = None, ![b].once = FALSE,
                              ![b].dying = TRUE]
<1>1. /\ TypeOK /\ at \in Places /\ conn \in Connections /\ body \in Bodies
      /\ l \in Conn /\ body[b].kind # "none"
  BY Now, LinkedBody
<1>2. nb # b
  BY <1>1
<1>3. a \in Places /\ cs \in Connections /\ bs \in Bodies
  BY <1>1, SwitchShapes
<1>4. \A t \in Sock : a[t] = IF at[t] = b THEN nb ELSE at[t]
  BY DEF Moved
<1>5. /\ cs[l].live = conn[l].live /\ cs[l].body = nb /\ cs[l].timer = conn[l].timer
      /\ \A d \in Conn \ {l} : cs[d] = conn[d]
  BY <1>1 DEF Connections, ConnRec
<1>6. /\ bs[nb] = r /\ bs[b].kind = body[b].kind /\ bs[b].dump = body[b].dump
      /\ bs[b].link = None /\ ~bs[b].once
      /\ \A d \in Body \ {b, nb} : bs[d] = body[d]
  BY <1>1, <1>2 DEF Bodies, BodyRec
<1>7. /\ at' = a /\ k' = Forgotten(kk, a, gone)
      /\ conn' = ConnsLess(cs, gone) /\ body' = BodiesLess(bs, gone)
  BY DEF SwitchBody
<1> HIDE DEF a, cs, bs
<1>8. /\ Sound({}, a, kk, cs, bs)
      /\ \A t \in Sock : Makes(kk[t]) => Made(kk[t], cs) # b
  BY <1>4, <1>5, <1>6, SwitchedTo, SMTT(60)
<1>9. Sound(gone, a, kk, cs, bs)
  BY <1>8, Apartness
<1>10. Closed(a, gone) = a
  BY <1>2, <1>3, <1>4 DEF Closed, Places
<1>11. None \notin gone
  BY SessionAssumption
<1>12. Sound({}, Closed(a, gone), Forgotten(kk, a, gone),
             ConnsLess(cs, gone), BodiesLess(bs, gone))
  <2>1. Shaped(a, kk, cs, bs)
    BY <1>3 DEF Shaped
  <2> QED
    BY <1>9, <1>11, <2>1, Removed
<1> QED
  BY <1>7, <1>10, <1>12

LEMMA CompleteSetupSound ==
    ASSUME IInv, NEW s \in Sock, CompleteSetup(s)
    PROVE  Sound({}, at', k', conn', body')
<1> DEFINE b == k[s].ob
           kk == [k EXCEPT ![s] = NoCont]
<1>1. /\ TypeOK /\ Sound({}, at, k, conn, body) /\ Shaped(at, k, conn, body)
      /\ at \in Places /\ k \in Prompting /\ conn \in Connections /\ body \in Bodies
  BY Now
<1>2. /\ b \in Body \cup {None} /\ kk \in Prompting
      /\ \A t \in Sock : kk[t] \in {k[t], NoCont}
  BY <1>1, ContShapes, SessionAssumption
  DEF CompleteSetup, Prompting, Cont, LoginPrompts
<1>3. Sound({}, at, kk, conn, body)
  BY <1>1, NothingAsked
<1>4. CASE b = None
  BY <1>3, <1>4 DEF CompleteSetup
<1>5. CASE b # None /\ ~LinkDead(b)
  <2>1. body' = [body EXCEPT ![b].env = TRUE] /\ k' = kk /\ UNCHANGED <<at, conn>>
    BY <1>5 DEF CompleteSetup
  <2>2. b \in Body /\ body[b].kind # "none"
    BY <1>1, <1>2, <1>5 DEF Sound, Refs
  <2>3. \A d \in Body : /\ body'[d].kind = body[d].kind /\ body'[d].once = body[d].once
                        /\ body'[d].dump = body[d].dump /\ body'[d].heart = body[d].heart
                        /\ body'[d].link = body[d].link /\ body'[d].dying = body[d].dying
                        /\ d # b => body'[d] = body[d]
    BY <1>1, <2>1, <2>2 DEF Bodies, BodyRec
  <2>4. \A d \in Body : body[d].kind = "none" => body'[d] = body[d]
    BY <2>2, <2>3
  <2>5. Sound({}, at, kk, conn, body')
    <3> HIDE DEF b, kk
    <3> QED
      BY <1>1, <1>2, <1>3, <2>3, <2>4, SameBodies
  <2> QED
    BY <2>1, <2>5
<1>6. CASE b # None /\ LinkDead(b)
  <2>1. PICK g \in FreeBody :
          /\ SwitchBody(b, g, GhostOf(body[b].name, body[b].link), TRUE, {b})
          /\ k' = Forgotten(kk, at', {b})
    BY <1>6 DEF CompleteSetup
  <2>2. /\ g \in Body /\ body[g].kind = "none" /\ b \in Body
        /\ body[b].link \in Conn /\ body[b].link # None
        /\ body[b].name \in Name \cup {None}
    BY <1>1, <1>2, <1>6 DEF FreeBody, LinkDead, Bodies, BodyRec
  <2>3. GhostOf(body[b].name, body[b].link) \in BodyRec
    BY <2>2, BodyShapes
  <2> DEFINE r == GhostOf(body[b].name, body[b].link)
  <2>4. r.kind # "none" /\ r.link = body[b].link /\ r.once /\ r.heart /\ ~r.dump
    BY DEF GhostOf, NoBody
  <2> HIDE DEF r, kk
  <2> QED
    BY <1>2, <2>1, <2>2, <2>3, <2>4, SwitchStep DEF r
<1> QED
  BY <1>4, <1>5, <1>6

LEMMA DieReviveSound ==
    ASSUME IInv, NEW b \in Body, Die(b) \/ Revive(b)
    PROVE  Sound({}, at', k', conn', body')
<1>1. /\ TypeOK /\ k \in Prompting /\ conn \in Connections /\ body \in Bodies
      /\ body[b].link \in Conn /\ body[b].link # None
      /\ body[b].name \in Name \cup {None}
  BY Now DEF Die, Revive, LinkDead, TypeOK, BodyRec
<1>2. PlayingBody(body[b].name, body[b].link) \in BodyRec
        /\ GhostOf(body[b].name, body[b].link) \in BodyRec
  BY <1>1, BodyShapes
<1>3. CASE Die(b)
  <2> DEFINE r == GhostOf(body[b].name, body[b].link)
  <2>1. PICK g \in FreeBody : SwitchBody(b, g, r, TRUE, {})
    BY <1>3 DEF Die
  <2>2. g \in Body /\ body[g].kind = "none"
    BY DEF FreeBody
  <2>3. r.kind # "none" /\ r.link = body[b].link /\ r.once /\ r.heart /\ ~r.dump
    BY DEF GhostOf, NoBody
  <2>4. k' = Forgotten(k, at', {})
    BY <1>1, <1>3 DEF Die, Forgotten, Prompting
  <2> HIDE DEF r
  <2>5. r \in BodyRec
    BY <1>2 DEF r
  <2> QED
    BY <1>1, <2>1, <2>2, <2>3, <2>4, <2>5, SwitchStep
<1>4. CASE Revive(b)
  <2> DEFINE r == [PlayingBody(body[b].name, body[b].link) EXCEPT !.env = TRUE]
  <2>1. PICK g \in FreeBody : SwitchBody(b, g, r, FALSE, {b})
    BY <1>4 DEF Revive
  <2>2. g \in Body /\ body[g].kind = "none" /\ k' = Forgotten(k, at', {b})
    BY <1>4 DEF FreeBody, Revive
  <2>3. r.kind # "none" /\ r.link = body[b].link /\ r.once /\ r.heart /\ ~r.dump
    BY DEF PlayingBody, NoBody
  <2>4. r \in BodyRec
    BY <1>2 DEF BodyRec
  <2> HIDE DEF r
  <2> QED
    BY <1>1, <2>1, <2>2, <2>3, <2>4, SwitchStep
<1> QED
  BY <1>3, <1>4

-----------------------------------------------------------------------------
(* Objects that are removed *)

\* What the bodies of new accounts have to do with the objects that go.
LEMMA MadeStays ==
    ASSUME IInv, NEW b \in Body, body[b].once \/ body[b].dying
    PROVE  \A t \in Sock : Makes(k[t]) => Made(k[t], conn) \notin {b} \cup Conn
BY MadeBodies, SessionAssumption

LEMMA DestructSound ==
    ASSUME IInv, NEW gone, None \notin gone,
           \A t \in Sock : Makes(k[t]) => Made(k[t], conn) \notin gone
    PROVE  Sound({}, Closed(at, gone), Forgotten(k, at, gone),
                 ConnsLess(conn, gone), BodiesLess(body, gone))
<1>1. Shaped(at, k, conn, body) /\ Sound({}, at, k, conn, body)
  BY Now
<1>2. Sound(gone, at, k, conn, body)
  BY <1>1, Apartness
<1> QED
  BY <1>1, <1>2, Removed

LEMMA RemoveConnSound ==
    ASSUME IInv, NEW c \in Conn, Destruct({c})
    PROVE  Sound({}, at', k', conn', body')
<1>1. \A t \in Sock : Makes(k[t]) => Made(k[t], conn) \notin {c}
  BY MadeBodies, SessionAssumption
<1>2. None \notin {c}
  BY SessionAssumption
<1> QED
  BY <1>1, <1>2, DestructSound DEF Destruct

LEMMA LeaveSound ==
    ASSUME IInv, NEW b \in Body,
           \/ RemoveDead(b) \/ BodyCleanUp(b) \/ IdleDump(b) \/ Sweep(b)
           \/ \E s \in Sock : at[s] = b /\ Quit(s)
    PROVE  Sound({}, at', k', conn', body')
<1>1. Sound({}, at, k, conn, body) /\ body \in Bodies
  BY Now
<1>2. LinkOf(b) \subseteq Conn
  BY <1>1 DEF LinkOf, Bodies, BodyRec
<1>3. PICK gone \in SUBSET ({b} \cup Conn) :
         /\ Destruct(gone)
         /\ body[b].once \/ body[b].dying \/ (BodyCleanUp(b) /\ gone = {b})
  <2>1. CASE RemoveDead(b) \/ BodyCleanUp(b)
    BY <2>1 DEF RemoveDead, BodyCleanUp
  <2>2. CASE IdleDump(b) \/ Sweep(b)
    <3>1. body[b].once
      BY <1>1, <2>2 DEF IdleDump, Sweep, Sound, Timers, Refs, Interactive
    <3>2. {b} \cup LinkOf(b) \subseteq {b} \cup Conn
      BY <1>2
    <3> QED
      BY <2>2, <3>1, <3>2 DEF IdleDump, Sweep
  <2>3. CASE \E s \in Sock : at[s] = b /\ Quit(s)
    <3>1. body[b].once
      BY <1>1, <2>3 DEF Sound, Refs
    <3>2. {b} \cup LinkIf(b, MayRemove(body[b].name)) \subseteq {b} \cup Conn
      BY <1>2 DEF LinkIf
    <3> QED
      BY <2>3, <3>1, <3>2 DEF Quit
  <2> QED
    BY <2>1, <2>2, <2>3
<1>4. \A t \in Sock : Makes(k[t]) => Made(k[t], conn) \notin gone
  <2>1. CASE body[b].once \/ body[b].dying
    BY <2>1, MadeStays
  <2>2. CASE BodyCleanUp(b) /\ gone = {b}
    <3>1. \A t \in Sock : Makes(k[t]) => k[t].ob \in Conn /\ conn[k[t].ob].timer
      BY <1>1 DEF Sound, Asked, Makes, LoginPrompts, Prompts
    <3> QED
      BY <2>2, <3>1 DEF BodyCleanUp, Made
  <2> QED
    BY <1>3, <2>1, <2>2
<1>5. None \notin gone
  BY SessionAssumption
<1> QED
  BY <1>3, <1>4, <1>5, DestructSound DEF Destruct

LEMMA ConnStepSound ==
    ASSUME IInv, NEW c \in Conn, ConnStep(c)
    PROVE  Sound({}, at', k', conn', body')
<1>1. /\ Sound({}, at, k, conn, body) /\ Shaped(at, k, conn, body)
      /\ conn \in Connections
  BY Now
<1>2. CASE RemoveConn(c)
  BY <1>2, RemoveConnSound DEF RemoveConn
<1>3. CASE CheckStatus(c) /\ ~LoginOver(c)
  <2>1. conn' = [conn EXCEPT ![c].timer = FALSE] /\ UNCHANGED <<at, k, body>>
    BY <1>3 DEF CheckStatus
  <2>2. ~In(at, c) /\ conn[c].live
    <3>1. ~In(at, c) /\ conn[c].timer
      BY <1>3 DEF CheckStatus, LoginOver, In, Interactive
    <3> QED
      BY <1>1, <3>1 DEF Sound, Blank, NoConn
  <2>3. \A d \in Conn : /\ conn'[d].live = conn[d].live /\ conn'[d].body = conn[d].body
                        /\ d # c => conn'[d] = conn[d]
    BY <1>1, <2>1 DEF Connections, ConnRec
  <2>4. Sound({}, at, k, conn', body)
    BY <1>1, <2>2, <2>3, SameConns
  <2> QED
    BY <2>1, <2>4
<1>4. CASE CleanUp(c) /\ UNCHANGED <<at, k, conn, body>>
  BY <1>1, <1>4
<1> QED
  BY <1>2, <1>3, <1>4 DEF ConnStep, CheckStatus, CallOutRemove, CleanUp

-----------------------------------------------------------------------------
(* Login prompts *)

\* Where input for a login prompt arrives.
LEMMA Answers ==
    ASSUME IInv, NEW s \in Sock, NEW c \in Conn, NEW f \in LoginPrompts, At(s, f, c)
    PROVE  /\ at[s] = c /\ k[s].f = f /\ k[s].ob = c
           /\ conn[c] \in ConnRec /\ conn[c].live /\ conn[c].timer
           /\ conn[c].body \in Body \cup {None}
           /\ conn[c].body # None => body[conn[c].body].kind # "none"
<1>1. Sound({}, at, k, conn, body) /\ conn \in Connections
  BY Now
<1>2. k[s].f = f /\ k[s].ob = c
  BY DEF At
<1>3. at[s] = c /\ conn[c].timer
  BY <1>1, <1>2 DEF Sound, Asked
<1>4. conn[c].live /\ (conn[c].body # None => body[conn[c].body].kind # "none")
  BY <1>1, <1>3 DEF Sound, Refs
<1>5. conn[c] \in ConnRec /\ conn[c].body \in Body \cup {None}
  BY <1>1 DEF Connections, ConnRec
<1> QED
  BY <1>2, <1>3, <1>4, <1>5

\* A prompt is answered and another one, or none, follows; new accounts apart.
LEMMA PromptStep ==
    ASSUME IInv, NEW s \in Sock, NEW c \in Conn, NEW f \in LoginPrompts, At(s, f, c),
           NEW p \in Cont, p.ob \in {c, None}, p.f \in LoginPrompts => p.ob = c,
           ~Makes(p),
           NEW r \in ConnRec, r.live, r.timer,
           r.body # None => body[r.body].kind # "none"
    PROVE  Sound({}, at, [k EXCEPT ![s] = p], [conn EXCEPT ![c] = r], body)
<1>1. at[s] = c
  BY Answers
<1>2. Shaped(at, k, conn, body) /\ Sound({}, at, k, conn, body)
  BY Now
<1> QED
  BY <1>1, <1>2, PromptSound

LEMMA PromptsSound ==
    ASSUME IInv, NEW s \in Sock, NEW c \in Conn,
           \/ GetNameRefused(s, c) \/ WrongPassword(s, c)
           \/ ChooseAgain(s, c) \/ Rejected(s, c)
           \/ \E n \in Name : GetName(s, c, n) \/ GetNewName(s, c, n)
    PROVE  Sound({}, at', k', conn', body')
<1>0. TypeOK /\ k \in Prompting /\ conn \in Connections /\ cfile \in Files
  BY Now, Typed
<1>1. PICK f \in LoginPrompts : At(s, f, c)
  BY DEF GetNameRefused, WrongPassword, ChooseAgain, Rejected, GetName, GetNewName,
         LoginPrompts, Prompts
<1>2. /\ at[s] = c /\ k[s].f = f /\ k[s].ob = c
      /\ conn[c] \in ConnRec /\ conn[c].live /\ conn[c].timer
      /\ conn[c].body # None => body[conn[c].body].kind # "none"
  BY <1>1, Answers
<1>3. ASSUME NEW p \in Cont, p.ob \in {c, None}, p.f \in LoginPrompts => p.ob = c,
             ~Makes(p), k' = [k EXCEPT ![s] = p], UNCHANGED <<at, body>>,
             NEW r \in ConnRec, r.live, r.timer, r.body = conn[c].body,
             conn' = [conn EXCEPT ![c] = r]
      PROVE  Sound({}, at', k', conn', body')
  BY <1>1, <1>2, <1>3, PromptStep
<1>4. CASE RemoveUser(s, c)
  <2> DEFINE r == [conn[c] EXCEPT !.pend = TRUE]
  <2>1. r \in ConnRec /\ r.live /\ r.timer /\ r.body = conn[c].body
    BY <1>2 DEF ConnRec
  <2>2. conn' = [conn EXCEPT ![c] = r]
    BY <1>0, <1>4 DEF RemoveUser, Connections
  <2>3. NoCont \in Cont /\ NoCont.ob = None /\ NoCont.f \notin LoginPrompts /\ ~Makes(NoCont)
    BY ContShapes DEF NoCont, LoginPrompts, Makes
  <2> HIDE DEF r
  <2> QED
    BY <1>3, <1>4, <2>1, <2>2, <2>3 DEF RemoveUser
<1>5. conn' = [conn EXCEPT ![c] = conn[c]] \/ conn' # conn
  BY <1>0 DEF Connections
<1>6. CASE WrongPassword(s, c)
  <2>1. CASE TooMany(k[s].n)
    <3>1. k' = [k EXCEPT ![s] = NoCont] /\ conn' = [conn EXCEPT ![c].pend = TRUE]
            /\ UNCHANGED <<at, body>>
      BY <1>6, <2>1 DEF WrongPassword
    <3> DEFINE r == [conn[c] EXCEPT !.pend = TRUE]
    <3>2. r \in ConnRec /\ r.live /\ r.timer /\ r.body = conn[c].body
      BY <1>2 DEF ConnRec
    <3>3. conn' = [conn EXCEPT ![c] = r]
      BY <1>0, <3>1 DEF Connections
    <3>4. NoCont \in Cont /\ NoCont.ob = None /\ NoCont.f \notin LoginPrompts /\ ~Makes(NoCont)
      BY ContShapes DEF NoCont, LoginPrompts, Makes
    <3> HIDE DEF r
    <3> QED
      BY <1>3, <3>1, <3>2, <3>3, <3>4
  <2>2. CASE ~TooMany(k[s].n)
    <3> DEFINE p == [k[s] EXCEPT !.n = @ + 1]
    <3>1. p \in Cont /\ p.ob = c /\ p.f = "get_password"
      <4>1. k[s] \in Cont /\ k[s].n + 1 \in 0 .. MaxTries
        BY <1>0, <2>2, SessionAssumption DEF TooMany, Prompting, Cont
      <4> QED
        BY <1>2, <1>6, <4>1 DEF Cont, WrongPassword, At
    <3>2. k' = [k EXCEPT ![s] = p] /\ UNCHANGED <<at, conn, body>>
      BY <1>0, <1>6, <2>2 DEF WrongPassword, Prompting
    <3>3. ~Makes(p)
      BY <3>1 DEF Makes
    <3> HIDE DEF p
    <3> QED
      BY <1>2, <1>3, <1>5, <3>1, <3>2, <3>3
  <2> QED
    BY <2>1, <2>2
<1>7. CASE ChooseAgain(s, c)
  <2> DEFINE p == Ask("get_name", c)
  <2>1. p \in Cont /\ p.ob = c /\ ~Makes(p)
    BY ContShapes DEF Ask, Makes
  <2>2. k' = [k EXCEPT ![s] = p] /\ UNCHANGED <<at, conn, body>>
    BY <1>7 DEF ChooseAgain
  <2> HIDE DEF p
  <2> QED
    BY <1>2, <1>3, <1>5, <2>1, <2>2
<1>8. ASSUME NEW n \in Name, GetName(s, c, n)
      PROVE  Sound({}, at', k', conn', body')
  <2> DEFINE p == Retry("get_password", c, 1)
             r == [conn[c] EXCEPT !.name = n, !.pw = cfile[n].pw, !.dead = cfile[n].dead]
  <2>1. p \in Cont /\ p.ob = c /\ ~Makes(p)
    BY SessionAssumption DEF Retry, Cont, Prompts, LoginPrompts, Makes
  <2>2. r \in ConnRec /\ r.live /\ r.timer /\ r.body = conn[c].body
    BY <1>0, <1>2 DEF ConnRec, Files
  <2>3. k' = [k EXCEPT ![s] = p] /\ conn' = [conn EXCEPT ![c] = r] /\ UNCHANGED <<at, body>>
    BY <1>0, <1>2, <1>8 DEF GetName, Connections, ConnRec
  <2> HIDE DEF p, r
  <2> QED
    BY <1>3, <2>1, <2>2, <2>3
<1>9. ASSUME NEW n \in Name, GetNewName(s, c, n)
      PROVE  Sound({}, at', k', conn', body')
  <2> DEFINE p == [Ask("choice", c) EXCEPT !.nm = n]
  <2>1. p \in Cont /\ p.ob = c /\ ~Makes(p)
    BY SessionAssumption DEF Ask, Cont, Prompts, LoginPrompts, Makes
  <2>2. k' = [k EXCEPT ![s] = p] /\ UNCHANGED <<at, conn, body>>
    BY <1>9 DEF GetNewName
  <2> HIDE DEF p
  <2> QED
    BY <1>2, <1>3, <1>5, <2>1, <2>2
<1> QED
  BY <1>4, <1>6, <1>7, <1>8, <1>9 DEF GetNameRefused, Rejected

LEMMA BlankBody ==
    /\ NoBody \in BodyRec /\ NoBody.link = None
    /\ ~NoBody.once /\ ~NoBody.dump /\ ~NoBody.dying
<1>1. NoBody.link = None /\ ~NoBody.once /\ ~NoBody.dump /\ ~NoBody.dying
  BY DEF NoBody
<1> QED
  BY <1>1, BlankShapes

LEMMA ChoiceSound ==
    ASSUME IInv, NEW s \in Sock, NEW c \in Conn, Choice(s, c)
    PROVE  Sound({}, at', k', conn', body')
<1>1. PICK b \in FreeBody :
        /\ body' = [body EXCEPT ![b].kind = "user", ![b].name = k[s].nm]
        /\ conn' = [conn EXCEPT ![c].name = k[s].nm, ![c].body = b]
  BY DEF Choice
<1> DEFINE r == [conn[c] EXCEPT !.name = k[s].nm, !.body = b]
           w == [body[b] EXCEPT !.kind = "user", !.name = k[s].nm]
           p == Ask("new_pass", c)
<1>2. /\ Shaped(at, k, conn, body) /\ Sound({}, at, k, conn, body)
      /\ k \in Prompting /\ conn \in Connections /\ body \in Bodies
  BY Now
<1>3. At(s, "choice", c) /\ "choice" \in LoginPrompts
  BY DEF Choice, LoginPrompts, Prompts
<1>4. at[s] = c /\ conn[c] \in ConnRec /\ conn[c].live /\ conn[c].timer
  BY <1>3, Answers
<1>5. k[s].nm \in Name
  BY <1>2, <1>3 DEF At, Prompting, Cont
<1>6. b \in Body /\ body[b].kind = "none" /\ body[b] = NoBody
        /\ \A d \in Conn : conn[d].body # b
  BY <1>2, UnusedBody DEF FreeBody
<1>7. /\ w \in BodyRec /\ w.kind # "none" /\ w.link = None
      /\ ~w.once /\ ~w.dump /\ ~w.dying
  <2>1. /\ body[b] \in BodyRec /\ body[b].link = None
        /\ ~body[b].once /\ ~body[b].dump /\ ~body[b].dying
    BY <1>6, BlankBody
  <2> QED
    BY <1>5, <2>1 DEF BodyRec
<1>8. r \in ConnRec /\ r.live /\ r.timer /\ r.body = b
  BY <1>4, <1>5, <1>6 DEF ConnRec
<1>9. /\ body' = [body EXCEPT ![b] = w] /\ conn' = [conn EXCEPT ![c] = r]
      /\ k' = [k EXCEPT ![s] = p] /\ at' = at
  BY <1>1, <1>2, <1>4, <1>6 DEF Choice, Connections, ConnRec, Bodies, BodyRec
<1>10. p \in Cont /\ p.ob = c
  BY ContShapes DEF Ask
<1> HIDE DEF r, w, p
<1>11. Sound({}, at, k, conn, body')
  BY <1>2, <1>6, <1>7, <1>9, NewBodySound
<1>12. body' \in Bodies /\ body'[b] = w
  BY <1>2, <1>6, <1>7, <1>9 DEF Bodies
<1>13. \A t \in Sock : Makes(k[t]) => Made(k[t], conn) # b
  BY <1>2, <1>6, AtPrompt DEF Made
<1>14. b # None
  BY <1>6, SessionAssumption
<1>15. Sound({}, at, [k EXCEPT ![s] = p], [conn EXCEPT ![c] = r], body')
  BY <1>2, <1>4, <1>7, <1>8, <1>10, <1>11, <1>12, <1>13, <1>14, PromptSound DEF Shaped
<1> QED
  BY <1>9, <1>15

LEMMA NewPassSound ==
    ASSUME IInv, NEW s \in Sock, NEW c \in Conn, NEW pw \in 1 .. MaxPw, NewPass(s, c, pw)
    PROVE  Sound({}, at', k', conn', body')
<1> DEFINE r == [conn[c] EXCEPT !.pw = pw]
           p == Ask("get_real_name", c)
<1>1. /\ Shaped(at, k, conn, body) /\ Sound({}, at, k, conn, body)
      /\ k \in Prompting /\ conn \in Connections
  BY Now
<1>2. At(s, "new_pass", c) /\ "new_pass" \in LoginPrompts
  BY DEF NewPass, LoginPrompts, Prompts
<1>3. /\ at[s] = c /\ k[s].f = "new_pass" /\ k[s].ob = c
      /\ conn[c] \in ConnRec /\ conn[c].live /\ conn[c].timer
      /\ conn[c].body # None => body[conn[c].body].kind # "none"
  BY <1>2, Answers
<1>4. Makes(k[s]) /\ Made(k[s], conn) = conn[c].body
  BY <1>3 DEF Makes, Made
<1>5. /\ conn[c].body # None
      /\ ~body[conn[c].body].once /\ ~body[conn[c].body].dying
      /\ \A t \in Sock \ {s} : Makes(k[t]) => Made(k[t], conn) # conn[c].body
  BY <1>1, <1>4 DEF Sound, Fresh, Distinct
<1>6. r \in ConnRec /\ r.live /\ r.timer /\ r.body = conn[c].body
  <2>1. pw \in 0 .. MaxPw
    BY SessionAssumption
  <2> QED
    BY <1>3, <2>1 DEF ConnRec
<1>7. p \in Cont /\ p.ob = c
  BY ContShapes DEF Ask
<1>8. /\ conn' = [conn EXCEPT ![c] = r] /\ k' = [k EXCEPT ![s] = p]
      /\ UNCHANGED <<at, body>>
  BY <1>1 DEF NewPass, Connections, ConnRec
<1> HIDE DEF r, p
<1>9. Sound({}, at, [k EXCEPT ![s] = p], [conn EXCEPT ![c] = r], body)
  BY <1>1, <1>3, <1>5, <1>6, <1>7, PromptSound
<1> QED
  BY <1>8, <1>9

LEMMA AskToDisplaceSound ==
    ASSUME IInv, NEW s \in Sock, NEW c \in Conn, AskToDisplace(s, c)
    PROVE  Sound({}, at', k', conn', body')
<1>1. PICK b \in Body :
         /\ body[b].once
         /\ k' = [k EXCEPT ![s] = Ask("exec_old_copy", c)]
         /\ conn' = [conn EXCEPT ![c].body = b] /\ UNCHANGED <<at, body>>
  BY DEF AskToDisplace, Players
<1> DEFINE r == [conn[c] EXCEPT !.body = b]
           p == Ask("exec_old_copy", c)
<1>2. Sound({}, at, k, conn, body) /\ conn \in Connections
  BY Now
<1>3. At(s, "get_password", c) /\ "get_password" \in LoginPrompts
  BY DEF AskToDisplace, LoginPrompts, Prompts
<1>4. conn[c] \in ConnRec /\ conn[c].live /\ conn[c].timer
  BY <1>3, Answers
<1>5. r \in ConnRec /\ r.live /\ r.timer /\ r.body = b
  BY <1>4 DEF ConnRec
<1>6. body[b].kind # "none"
  BY <1>1, <1>2 DEF Sound, Blank, NoBody
<1>7. p \in Cont /\ p.ob = c /\ ~Makes(p)
  BY ContShapes DEF Ask, Makes
<1>8. conn' = [conn EXCEPT ![c] = r] /\ k' = [k EXCEPT ![s] = p]
  BY <1>1, <1>2 DEF Connections, ConnRec
<1> HIDE DEF r, p
<1>9. Sound({}, at, [k EXCEPT ![s] = p], [conn EXCEPT ![c] = r], body)
  BY <1>3, <1>5, <1>6, <1>7, PromptStep
<1> QED
  BY <1>1, <1>8, <1>9

-----------------------------------------------------------------------------
(* Entering the game *)

LEMMA ReconnectSound ==
    ASSUME IInv, NEW s \in Sock, NEW c \in Conn, Reconnect(s, c)
    PROVE  Sound({}, at', k', conn', body')
<1>1. PICK b \in Body :
         /\ body[b].once /\ ~Interactive(b)
         /\ at' = [at EXCEPT ![s] = b] /\ k' = [k EXCEPT ![s] = NoCont]
         /\ conn' = [conn EXCEPT ![c].body = b]
         /\ body' = [body EXCEPT ![b] = Restarted([body[b] EXCEPT !.link = c])]
  BY DEF Reconnect, Players
<1> DEFINE r == Restarted([body[b] EXCEPT !.link = c])
<1>2. /\ Shaped(at, k, conn, body) /\ Sound({}, at, k, conn, body) /\ body \in Bodies
  BY Now
<1>3. At(s, "get_password", c) /\ "get_password" \in LoginPrompts
  BY DEF Reconnect, LoginPrompts, Prompts
<1>4. at[s] = c /\ ~In(at, b)
  BY <1>1, <1>3, Answers DEF In, Interactive
<1>5. body[b].kind # "none"
  BY <1>1, <1>2 DEF Sound, Blank, NoBody
<1>6. \A t \in Sock \ {s} : Makes(k[t]) => Made(k[t], conn) # b
  BY <1>1, MadeBodies
<1>7. /\ r \in BodyRec /\ r.kind # "none" /\ r.link = c
      /\ r.once /\ r.heart /\ ~r.dump
  BY <1>1, <1>2, <1>5 DEF Restarted, Bodies, BodyRec
<1>8. NoCont \in Cont /\ NoCont.f \notin LoginPrompts /\ NoCont.ob = None
  BY ContShapes DEF NoCont, LoginPrompts
<1> HIDE DEF r
<1>9. Sound({}, [at EXCEPT ![s] = b], [k EXCEPT ![s] = NoCont],
            [conn EXCEPT ![c].body = b], [body EXCEPT ![b] = r])
  BY <1>2, <1>4, <1>6, <1>7, <1>8, TakesOver
<1> QED
  BY <1>1, <1>9 DEF r

LEMMA GetRealNameSound ==
    ASSUME IInv, NEW s \in Sock, NEW c \in Conn, GetRealName(s, c)
    PROVE  Sound({}, at', k', conn', body')
<1> DEFINE b == conn[c].body
           r == PlayingBody(conn[c].name, c)
           p == Ask("complete_setup", b)
<1>1. /\ Shaped(at, k, conn, body) /\ Sound({}, at, k, conn, body) /\ conn \in Connections
  BY Now
<1>2. At(s, "get_real_name", c) /\ "get_real_name" \in LoginPrompts
  BY DEF GetRealName, LoginPrompts, Prompts
<1>3. at[s] = c /\ k[s].f = "get_real_name" /\ k[s].ob = c /\ conn[c] \in ConnRec
  BY <1>2, Answers
<1>4. Makes(k[s]) /\ Made(k[s], conn) = b
  BY <1>3 DEF Makes, Made
<1>5. b \in Body /\ ~In(at, b)
  BY <1>4, MadeBodies
<1>6. \A t \in Sock \ {s} : Makes(k[t]) => Made(k[t], conn) # b
  BY <1>1, <1>4 DEF Sound, Distinct
<1>7. /\ r \in BodyRec /\ r.kind # "none" /\ r.link = c
      /\ r.once /\ r.heart /\ ~r.dump
  BY <1>3, BodyShapes DEF PlayingBody, NoBody, ConnRec
<1>8. p \in Cont /\ p.f \notin LoginPrompts /\ p.ob = b
  BY <1>5, ContShapes DEF Ask, LoginPrompts
<1>9. /\ at' = [at EXCEPT ![s] = b] /\ k' = [k EXCEPT ![s] = p]
      /\ conn' = [conn EXCEPT ![c].body = b] /\ body' = [body EXCEPT ![b] = r]
  <2>1. conn = [conn EXCEPT ![c].body = b]
    BY <1>1 DEF Connections, ConnRec
  <2> QED
    BY <2>1 DEF GetRealName
<1> HIDE DEF b, r, p
<1>10. Sound({}, [at EXCEPT ![s] = b], [k EXCEPT ![s] = p],
             [conn EXCEPT ![c].body = b], [body EXCEPT ![b] = r])
  BY <1>1, <1>3, <1>5, <1>6, <1>7, <1>8, TakesOver
<1> QED
  BY <1>9, <1>10

\* login_new_copy() for the socket of connection c, in a sound state.
LEMMA LoginNewCopySound ==
    ASSUME NEW a, NEW kk, NEW cs, NEW bs, Shaped(a, kk, cs, bs),
           Sound({}, a, kk, cs, bs), NEW fs,
           NEW s \in Sock, NEW c \in Conn, a[s] = c,
           conn[c].name \in Name \cup {None},
           \A b \in FreeBody : bs[b].kind = "none",
           LoginNewCopy(s, c, a, kk, cs, bs, fs)
    PROVE  Sound({}, at', k', conn', body')
<1> PICK b \in FreeBody :
        IF conn[c].name \in ufile
          THEN /\ at' = [a EXCEPT ![s] = b]
               /\ k' = [kk EXCEPT ![s] = Ask("complete_setup", b)]
               /\ conn' = [cs EXCEPT ![c].body = b]
               /\ body' = [bs EXCEPT ![b] = PlayingBody(conn[c].name, c)]
          ELSE LET gone == IF MayRemove(conn[c].name) THEN {c} ELSE {}
               IN  /\ at' = Closed(a, gone)
                   /\ k' = [Forgotten(kk, a, gone) EXCEPT ![s] = NoCont]
                   /\ conn' = ConnsLess([cs EXCEPT ![c].body = b], gone)
                   /\ body' = [bs EXCEPT ![b].kind = "user"]
  BY DEF LoginNewCopy
<1>0. a \in Places /\ kk \in Prompting /\ cs \in Connections /\ bs \in Bodies
  BY DEF Shaped
<1>1. b \in Body /\ bs[b].kind = "none"
  BY DEF FreeBody
<1>2. bs[b] = NoBody /\ ~In(a, b) /\ \A d \in Conn : cs[d].body # b
  BY <1>1, UnusedBody
<1>3. \A t \in Sock : Makes(kk[t]) => Made(kk[t], cs) # b
  BY <1>2, AtPrompt DEF Made
<1>4. CASE conn[c].name \in ufile
  <2> DEFINE r == PlayingBody(conn[c].name, c)
             p == Ask("complete_setup", b)
  <2>1. /\ r \in BodyRec /\ r.kind # "none" /\ r.link = c
        /\ r.once /\ r.heart /\ ~r.dump
    BY BodyShapes DEF PlayingBody, NoBody
  <2>2. p \in Cont /\ p.f \notin LoginPrompts /\ p.ob = b
    BY <1>1, ContShapes DEF Ask, LoginPrompts
  <2>3. /\ at' = [a EXCEPT ![s] = b] /\ k' = [kk EXCEPT ![s] = p]
        /\ conn' = [cs EXCEPT ![c].body = b] /\ body' = [bs EXCEPT ![b] = r]
    BY <1>4
  <2> HIDE DEF r, p
  <2>4. Sound({}, [a EXCEPT ![s] = b], [kk EXCEPT ![s] = p],
              [cs EXCEPT ![c].body = b], [bs EXCEPT ![b] = r])
    BY <1>1, <1>2, <1>3, <2>1, <2>2, TakesOver
  <2> QED
    BY <2>3, <2>4
<1>5. CASE conn[c].name \notin ufile
  <2> DEFINE gone == IF MayRemove(conn[c].name) THEN {c} ELSE {}
             w == [bs[b] EXCEPT !.kind = "user"]
             r == [cs[c] EXCEPT !.body = b]
             b2 == [bs EXCEPT ![b] = w]
             c2 == [cs EXCEPT ![c] = r]
             k2 == [kk EXCEPT ![s] = NoCont]
  <2>1. w \in BodyRec /\ w.kind # "none" /\ w.link = None /\ ~w.once /\ ~w.dump
    <3>1. bs[b] \in BodyRec /\ bs[b].link = None /\ ~bs[b].once /\ ~bs[b].dump
      BY <1>2, BlankBody
    <3> QED
      BY <3>1 DEF BodyRec
  <2>2. r \in ConnRec /\ r.live /\ r.body = b
    <3>1. cs[c] \in ConnRec /\ cs[c].live
      BY <1>0 DEF Connections, Sound, Refs
    <3> QED
      BY <1>1, <3>1 DEF ConnRec
  <2>3. /\ at' = Closed(a, gone)
        /\ k' = [Forgotten(kk, a, gone) EXCEPT ![s] = NoCont]
        /\ conn' = ConnsLess(c2, gone) /\ body' = b2
    <3>1. b2 = [bs EXCEPT ![b].kind = "user"] /\ c2 = [cs EXCEPT ![c].body = b]
      BY <1>0, <1>1 DEF Bodies, BodyRec, Connections, ConnRec
    <3> QED
      BY <1>5, <3>1
  <2>4. b2 \in Bodies /\ c2 \in Connections /\ k2 \in Prompting /\ b2[b] = w
    BY <1>0, <1>1, <2>1, <2>2, ContShapes DEF Bodies, Connections, Prompting
  <2>5. NoCont \in Cont /\ NoCont.ob = None /\ NoCont.f \notin LoginPrompts /\ ~Makes(NoCont)
    BY ContShapes DEF NoCont, LoginPrompts, Makes
  <2> HIDE DEF w, r, b2
  <2>6. Sound({}, a, kk, cs, b2)
    BY <1>1, <2>1, NewBodySound DEF b2
  <2>7. Sound({}, a, k2, c2, b2)
    BY <1>0, <1>1, <2>1, <2>2, <2>4, <2>5, <2>6, PromptSound DEF Shaped
  <2>8. gone \subseteq {c}
    OBVIOUS
  <2>9. k' = Forgotten(k2, a, gone)
    <3>1. \A t \in Sock : k2[t] = IF t = s THEN NoCont ELSE kk[t]
      BY <1>0 DEF Prompting
    <3>2. NoCont.ob = None /\ None \notin gone
      BY <2>5, <2>8, SessionAssumption
    <3> HIDE DEF gone, k2
    <3>3. k' = [t \in Sock |-> IF t = s THEN NoCont ELSE Forgotten(kk, a, gone)[t]]
      BY <2>3 DEF Forgotten
    <3> QED
      BY <2>8, <3>1, <3>2, <3>3 DEF Forgotten
  <2>10. BodiesLess(b2, gone) = b2
    <3>1. In(a, c)
      BY DEF In
    <3>2. \A d \in Body : b2[d].link # c
      BY <2>6, <3>1, SessionAssumption DEF Sound, Links
    <3>3. c \notin Body
      BY SessionAssumption
    <3> HIDE DEF gone
    <3> QED
      BY <2>4, <2>8, <3>2, <3>3 DEF BodiesLess, Bodies
  <2>11. \A t \in Sock : Makes(k2[t]) => Made(k2[t], c2) \notin gone
    <3>1. Shaped(a, k2, c2, b2)
      BY <1>0, <2>4 DEF Shaped
    <3> HIDE DEF gone, c2, k2
    <3>2. \A t \in Sock : Makes(k2[t]) => Made(k2[t], c2) \in Body \cup {None}
      BY <2>4, <2>7, <3>1, AtPrompt DEF Made, Connections, ConnRec
    <3>3. c \notin Body \cup {None}
      BY SessionAssumption
    <3> QED
      BY <2>8, <3>2, <3>3
  <2>12. None \notin gone
    BY <2>8, SessionAssumption
  <2> HIDE DEF gone, c2, k2
  <2>13. Sound(gone, a, k2, c2, b2)
    BY <2>7, <2>11, Apartness
  <2>14. Sound({}, Closed(a, gone), Forgotten(k2, a, gone),
               ConnsLess(c2, gone), BodiesLess(b2, gone))
    BY <1>0, <2>4, <2>12, <2>13, Removed DEF Shaped
  <2> QED
    BY <2>3, <2>9, <2>10, <2>14
<1> QED
  BY <1>4, <1>5

LEMMA EnterSound ==
    ASSUME IInv, NEW s \in Sock, NEW c \in Conn,
           EnterAfresh(s, c) \/ EnterFromLimbo(s, c)
    PROVE  Sound({}, at', k', conn', body')
<1>1. /\ Shaped(at, k, conn, body) /\ Sound({}, at, k, conn, body)
      /\ at \in Places /\ k \in Prompting /\ conn \in Connections /\ body \in Bodies
  BY Now
<1>2. At(s, "get_password", c) /\ "get_password" \in LoginPrompts
  BY DEF EnterAfresh, EnterFromLimbo, LoginPrompts, Prompts
<1>3. at[s] = c /\ conn[c].name \in Name \cup {None}
  BY <1>2, Answers DEF ConnRec
<1>4. CASE EnterAfresh(s, c)
  <2>1. \A b \in FreeBody : body[b].kind = "none"
    BY DEF FreeBody
  <2> QED
    BY <1>1, <1>3, <1>4, <2>1, LoginNewCopySound DEF EnterAfresh
<1>5. CASE EnterFromLimbo(s, c)
  <2> PICK b \in Players(conn[c].name) :
        LoginNewCopy(s, c, Closed(at, LimboGone(b, c)),
            Forgotten(k, at, LimboGone(b, c)), ConnsLess(conn, LimboGone(b, c)),
            BodiesLess(body, LimboGone(b, c)),
            IF MayRemove(conn[c].name) THEN SavedLink(cfile, b) ELSE cfile)
    BY <1>5 DEF EnterFromLimbo
  <2> DEFINE gone == LimboGone(b, c)
             a == Closed(at, gone)
             kk == Forgotten(k, at, gone)
             cs == ConnsLess(conn, gone)
             bs == BodiesLess(body, gone)
  <2>1. b \in Body /\ body[b].once
    BY DEF Players
  <2>2. gone \subseteq {b} \cup {body[b].link} /\ None \notin gone /\ gone \subseteq {b} \cup Conn
    BY <1>1, <2>1, SessionAssumption DEF LimboGone, LinkIf, LinkOf, Bodies, BodyRec
  <2> HIDE DEF gone
  <2>3. Sound({}, a, kk, cs, bs)
    <3>1. \A t \in Sock : Makes(k[t]) => Made(k[t], conn) \notin gone
      BY <2>1, <2>2, MadeStays
    <3> QED
      BY <2>2, <3>1, DestructSound
  <2>4. Shaped(a, kk, cs, bs)
    BY <1>1, DestructShapes DEF Shaped
  <2>5. a[s] = c
    <3>1. In(at, c)
      BY <1>3 DEF In
    <3>2. c # b /\ c # body[b].link
      BY <1>1, <2>1, <3>1, SessionAssumption DEF Sound, Links
    <3> QED
      BY <1>3, <2>2, <3>2 DEF Closed
  <2>6. \A d \in FreeBody : bs[d].kind = "none"
    BY <1>1 DEF FreeBody, BodiesLess, NoBody, Bodies, BodyRec
  <2>7. LoginNewCopy(s, c, a, kk, cs, bs,
            IF MayRemove(conn[c].name) THEN SavedLink(cfile, b) ELSE cfile)
    BY DEF gone
  <2> HIDE DEF a, kk, cs, bs
  <2> QED
    BY <1>3, <2>3, <2>4, <2>5, <2>6, <2>7, LoginNewCopySound
<1> QED
  BY <1>4, <1>5

LEMMA ExecOldCopyNoSound ==
    ASSUME IInv, NEW s \in Sock, NEW c \in Conn, ExecOldCopyNo(s, c)
    PROVE  Sound({}, at', k', conn', body')
<1>1. Shaped(at, k, conn, body) /\ Sound({}, at, k, conn, body)
  BY Now
<1>2. At(s, "exec_old_copy", c) /\ "exec_old_copy" \in LoginPrompts
  BY DEF ExecOldCopyNo, LoginPrompts, Prompts
<1>3. at[s] = c /\ conn[c].name \in Name \cup {None}
  BY <1>2, Answers DEF ConnRec
<1>4. CASE LoginNewCopy(s, c, at, k, conn, body, cfile)
  <2>1. \A b \in FreeBody : body[b].kind = "none"
    BY DEF FreeBody
  <2> QED
    BY <1>1, <1>3, <1>4, <2>1, LoginNewCopySound
<1>5. CASE k' = [k EXCEPT ![s] = NoCont] /\ UNCHANGED <<at, conn, body>>
  BY <1>1, <1>5, NothingAsked
<1> QED
  BY <1>4, <1>5 DEF ExecOldCopyNo

-----------------------------------------------------------------------------
(* Sockets that open and break *)

LEMMA ConnectSound ==
    ASSUME IInv, NEW s \in Sock, Connect(s)
    PROVE  Sound({}, at', k', conn', body')
<1>1. PICK c \in FreeConn :
        /\ at' = [at EXCEPT ![s] = c]
        /\ k' = [k EXCEPT ![s] = Ask("get_name", c)]
        /\ conn' = [conn EXCEPT ![c] = [NoConn EXCEPT !.live = TRUE, !.timer = TRUE]]
  BY DEF Connect
<1> DEFINE r == [NoConn EXCEPT !.live = TRUE, !.timer = TRUE]
           p == Ask("get_name", c)
<1>2. /\ Shaped(at, k, conn, body) /\ Sound({}, at, k, conn, body)
      /\ at \in Places /\ k \in Prompting /\ conn \in Connections /\ body \in Bodies
  BY Now
<1>3. c \in Conn /\ ~conn[c].live /\ at[s] = None /\ body' = body
  BY DEF FreeConn, Connect
<1>4. ~In(at, c) /\ \A b \in Body : body[b].link # c
  BY <1>2, <1>3, UnusedConn
<1>5. r \in ConnRec /\ r.live /\ r.timer /\ r.body = None
  <2>1. r.live /\ r.timer /\ r.body = None
    BY DEF NoConn
  <2> QED
    BY <2>1, BlankShapes
<1>6. p.f = "get_name" /\ p.ob = c /\ ~Makes(p)
  BY DEF Ask, Makes
<1> HIDE DEF r, p
<1>7. Sound({}, at, k, conn', body)
  BY <1>1, <1>2, <1>3, <1>5, NewConnSound DEF r
<1>8. /\ at'[s] = c /\ k'[s] = p /\ conn'[c] = r
      /\ \A t \in Sock \ {s} : at'[t] = at[t] /\ k'[t] = k[t]
  BY <1>1, <1>2, <1>3 DEF Places, Prompting, Connections, p, r
<1>9. /\ In(at', c)
      /\ \A o \in (Conn \cup Body) \ {c} : In(at', o) <=> In(at, o)
  BY <1>3, <1>8, SessionAssumption DEF In
<1>10. Apart(at')
  BY <1>4, <1>7, <1>8 DEF Sound, Apart, In
<1>11. Timers({}, at', body)
  BY <1>3, <1>7, <1>9, SessionAssumption DEF Sound, Timers
<1>12. Links({}, at', conn', body)
  <2> SUFFICES ASSUME NEW b \in Body, body[b].link # None
               PROVE  /\ In(at', b) /\ ~In(at', body[b].link)
                      /\ conn'[body[b].link].live /\ conn'[body[b].link].body = b
    BY DEF Links
  <2>1. /\ In(at, b) /\ ~In(at, body[b].link)
        /\ conn'[body[b].link].live /\ conn'[body[b].link].body = b
    BY <1>7 DEF Sound, Links
  <2>2. body[b].link \in Conn \ {c} /\ b # c
    BY <1>2, <1>3, <1>4, SessionAssumption DEF Bodies, BodyRec
  <2> QED
    BY <1>9, <2>1, <2>2
<1>13. Asked({}, at', k', conn')
  BY <1>3, <1>5, <1>6, <1>7, <1>8 DEF Sound, Asked
<1>14. Refs({}, at', k', conn', body)
  BY <1>3, <1>5, <1>6, <1>7, <1>8, SessionAssumption DEF Sound, Refs
<1>15. Fresh({}, at', k', conn', body) /\ Distinct({}, at', k', conn')
  <2>1. \A t \in Sock : Makes(k'[t]) => t # s /\ k'[t] = k[t]
    BY <1>6, <1>8
  <2> QED
    BY <1>7, <2>1 DEF Sound, Fresh, Distinct
<1> QED
  BY <1>3, <1>7, <1>10, <1>11, <1>12, <1>13, <1>14, <1>15 DEF Sound

\* The driver tells that socket s is broken, and the body, if it was in one,
\* has lost its connection, which is about to be destructed.
LEMMA BrokenSound ==
    ASSUME IInv, NEW s \in Sock, at[s] # None,
           NEW a, a[s] = None, \A t \in Sock \ {s} : a[t] = at[t],
           NEW kk, kk[s] = NoCont, \A t \in Sock \ {s} : kk[t] = k[t],
           NEW bs, \A d \in Body :
              /\ d # at[s] => bs[d] = body[d]
              /\ d = at[s] => bs[d] = NetDeadBody(body[d]),
           NEW gone \in SUBSET Conn,
           at[s] \in Body => gone = LinkOf(at[s])
    PROVE  Sound(gone, a, kk, conn, bs)
<1>1. /\ Sound({}, at, k, conn, body)
      /\ at \in Places /\ k \in Prompting /\ conn \in Connections /\ body \in Bodies
  BY Now
<1>2. \A d \in Body : /\ bs[d].kind = body[d].kind /\ bs[d].once = body[d].once
                      /\ bs[d].link = body[d].link /\ bs[d].dying = body[d].dying
                      /\ d = at[s] => bs[d].dump = (body[d].kind = "user") /\ body[d].once
  <2>1. \A d \in Body : d = at[s] => body[d].once
    BY <1>1 DEF Sound, Refs
  <2>2. \A r \in BodyRec : /\ NetDeadBody(r).kind = r.kind /\ NetDeadBody(r).once = r.once
                           /\ NetDeadBody(r).link = r.link /\ NetDeadBody(r).dying = r.dying
                           /\ NetDeadBody(r).dump = (r.kind = "user")
    BY DEF NetDeadBody, BodyRec
  <2>3. \A d \in Body : body[d] \in BodyRec
    BY <1>1 DEF Bodies
  <2> QED
    BY <2>1, <2>2, <2>3
<1>3. ~In(a, at[s]) /\ \A o \in (Conn \cup Body) \ {at[s]} : In(a, o) <=> In(at, o)
  BY <1>1, SessionAssumption DEF In, Sound, Apart
<1>4. Apart(a)
  BY <1>1 DEF Sound, Apart
<1>5. Timers(gone, a, bs)
  <2> SUFFICES ASSUME NEW d \in Body
               PROVE  /\ bs[d].dump <=> bs[d].kind = "user" /\ bs[d].once /\ ~In(a, d)
                      /\ In(a, d) => bs[d].heart
    BY DEF Timers
  <2>1. CASE d = at[s]
    BY <1>2, <1>3, <2>1
  <2>2. CASE d # at[s]
    BY <1>1, <1>3, <2>2 DEF Sound, Timers
  <2> QED
    BY <2>1, <2>2
<1>6. Links(gone, a, conn, bs)
  <2> SUFFICES ASSUME NEW d \in Body, bs[d].link \notin gone \cup {None}
               PROVE  /\ In(a, d) /\ ~In(a, bs[d].link)
                      /\ conn[bs[d].link].live /\ conn[bs[d].link].body = d
    BY DEF Links
  <2>1. d # at[s]
    BY <1>2 DEF LinkOf
  <2>2. /\ body[d].link \in Conn /\ In(at, d) /\ ~In(at, body[d].link)
        /\ conn[body[d].link].live /\ conn[body[d].link].body = d
    BY <1>2, LinkedBody
  <2> QED
    BY <1>2, <1>3, <2>1, <2>2
<1>7. NoCont.f = "none" /\ NoCont.ob = None
  BY DEF NoCont
<1>8. Asked(gone, a, kk, conn)
  BY <1>1, <1>7 DEF Sound, Asked, LoginPrompts
<1>9. Blank(gone, conn, bs)
  <2>1. at[s] \in Body => body[at[s]].once
    BY <1>1 DEF Sound, Refs
  <2>2. \A d \in Body : body[d].kind = "none" => d # at[s]
    BY <1>1, <2>1, BlankBody DEF Sound, Blank
  <2> QED
    BY <1>1, <1>2, <2>2 DEF Sound, Blank
<1>10. Refs(gone, a, kk, conn, bs)
  <2>1. \A d \in Conn : conn[d].body # None => conn[d].body \in Body
    BY <1>1 DEF Connections, ConnRec
  <2> QED
    BY <1>1, <1>2, <1>7, <2>1, SessionAssumption DEF Sound, Refs
<1>11. \A t \in Sock : Makes(kk[t]) =>
          /\ Makes(k[t]) /\ Made(kk[t], conn) = Made(k[t], conn)
          /\ Made(k[t], conn) \in Body
  BY <1>7, MadeBodies DEF Makes
<1>12. Fresh(gone, a, kk, conn, bs)
  BY <1>1, <1>2, <1>11, SessionAssumption DEF Sound, Fresh
<1>13. Distinct(gone, a, kk, conn)
  BY <1>1, <1>11 DEF Sound, Distinct
<1> QED
  BY <1>4, <1>5, <1>6, <1>8, <1>9, <1>10, <1>12, <1>13 DEF Sound

LEMMA BreakSound ==
    ASSUME IInv, NEW s \in Sock, HangUp(s) \/ NetDead(s)
    PROVE  Sound({}, at', k', conn', body')
<1> DEFINE a == [at EXCEPT ![s] = None]
           kk == [k EXCEPT ![s] = NoCont]
<1>1. /\ at \in Places /\ k \in Prompting /\ conn \in Connections /\ body \in Bodies
  BY Now
<1>2. a[s] = None /\ kk[s] = NoCont /\ \A t \in Sock \ {s} : a[t] = at[t] /\ kk[t] = k[t]
  BY <1>1 DEF Places, Prompting
<1>3. at[s] # None
  BY SessionAssumption DEF HangUp, NetDead
<1>4. a \in Places /\ kk \in Prompting
  BY <1>1, ContShapes DEF Places, Objects, Prompting
<1>5. CASE HangUp(s)
  <2>1. at' = a /\ k' = kk /\ UNCHANGED <<conn, body>> /\ at[s] \in Conn
    BY <1>5 DEF HangUp
  <2>2. at[s] \notin Body
    BY <2>1, SessionAssumption
  <2> HIDE DEF a, kk
  <2>3. Sound({}, a, kk, conn, body)
    BY <1>2, <1>3, <2>2, BrokenSound
  <2> QED
    BY <2>1, <2>3
<1>6. CASE NetDead(s)
  <2> DEFINE b == at[s]
             bs == [body EXCEPT ![b] = NetDeadBody(@)]
             gone == LinkOf(b)
  <2>1. /\ b \in Body
        /\ at' = Closed(a, gone) /\ k' = Forgotten(kk, a, gone)
        /\ conn' = ConnsLess(conn, gone) /\ body' = BodiesLess(bs, gone)
    BY <1>6 DEF NetDead
  <2>2. NetDeadBody(body[b]) \in BodyRec
    BY <1>1, <2>1 DEF NetDeadBody, Bodies, BodyRec
  <2>3. /\ bs \in Bodies
        /\ \A d \in Body : /\ d # at[s] => bs[d] = body[d]
                           /\ d = at[s] => bs[d] = NetDeadBody(body[d])
    BY <1>1, <2>1, <2>2 DEF Bodies
  <2>4. gone \in SUBSET Conn /\ None \notin gone
    BY <1>1, <2>1 DEF LinkOf, Bodies, BodyRec
  <2> HIDE DEF a, kk, bs, gone
  <2>5. Sound(gone, a, kk, conn, bs)
    BY <1>2, <1>3, <2>3, <2>4, BrokenSound DEF gone
  <2>6. Shaped(a, kk, conn, bs)
    BY <1>1, <1>4, <2>3 DEF Shaped
  <2> QED
    BY <2>1, <2>4, <2>5, <2>6, Removed
<1> QED
  BY <1>5, <1>6

-----------------------------------------------------------------------------
(* The passwd command *)

LEMMA PasswordSound ==
    ASSUME IInv, NEW s \in Sock,
           Passwd(s) \/ \E p \in 0 .. MaxPw : Newpass(s, p)
    PROVE  Sound({}, at', k', conn', body')
<1>1. /\ Shaped(at, k, conn, body) /\ Sound({}, at, k, conn, body)
      /\ at \in Places /\ k \in Prompting /\ conn \in Connections /\ body \in Bodies
  BY Now
<1>2. CASE Passwd(s)
  <2> DEFINE l == body[at[s]].link
             p == Ask("newpass", l)
  <2>1. at[s] \in Body /\ l # None /\ k' = [k EXCEPT ![s] = p]
          /\ UNCHANGED <<at, conn, body>>
    BY <1>2 DEF Passwd
  <2>2. l \in Conn /\ conn[l].live
    BY <2>1, LinkedBody
  <2>3. p \in Cont /\ p.f \notin LoginPrompts /\ p.ob = l
    BY <2>2, ContShapes DEF Ask, LoginPrompts
  <2>4. p.ob \notin Body
    BY <2>2, <2>3, SessionAssumption
  <2> HIDE DEF l, p
  <2> QED
    BY <1>1, <2>1, <2>2, <2>3, <2>4, Cleared
<1>3. ASSUME NEW p \in 0 .. MaxPw, Newpass(s, p)
      PROVE  Sound({}, at', k', conn', body')
  <2> DEFINE l == k[s].ob
             r == IF p = 0 THEN conn[l] ELSE [conn[l] EXCEPT !.pw = p]
             kk == [k EXCEPT ![s] = NoCont]
             ns == [conn EXCEPT ![l] = r]
             gone == IF BodyConnected(l) \/ ~MayRemove(UserOf(at[s])) THEN {} ELSE {l}
  <2>1. l \in Conn \cup {None} /\ kk \in Prompting
    BY <1>1, <1>3, ContShapes DEF Newpass, Prompting, Cont
  <2>2. Sound({}, at, kk, conn, body)
    BY <1>1, NothingAsked
  <2>3. CASE l = None
    BY <1>3, <2>2, <2>3 DEF Newpass
  <2>4. CASE l # None
    <3>1. /\ at' = Closed(at, gone) /\ k' = Forgotten(kk, at, gone)
          /\ conn' = ConnsLess(ns, gone) /\ body' = BodiesLess(body, gone)
      BY <1>3, <2>4 DEF Newpass
    <3>2. l \in Conn /\ conn[l].live
      BY <1>1, <2>1, <2>4 DEF Sound, Refs
    <3>3. /\ ns \in Connections
          /\ \A d \in Conn : /\ ns[d].live = conn[d].live /\ ns[d].body = conn[d].body
                             /\ ns[d].timer = conn[d].timer
                             /\ d # l => ns[d] = conn[d]
      <4>1. r \in ConnRec /\ r.live = conn[l].live /\ r.body = conn[l].body
              /\ r.timer = conn[l].timer
        BY <1>1, <3>2 DEF Connections, ConnRec
      <4> HIDE DEF r
      <4> QED
        BY <1>1, <3>2, <4>1 DEF Connections
    <3>4. gone \subseteq {l}
      OBVIOUS
    <3> HIDE DEF l, r, kk, ns, gone
    <3>5. Sound({}, at, kk, ns, body)
      <4>1. Shaped(at, kk, conn, body)
        BY <1>1, <2>1 DEF Shaped
      <4>2. \A d \in Conn : ~conn[d].live => ns[d] = conn[d]
        BY <3>2, <3>3
      <4> QED
        BY <2>2, <3>3, <4>1, <4>2, SameConns
    <3>6. Shaped(at, kk, ns, body)
      BY <1>1, <2>1, <3>3 DEF Shaped
    <3>7. \A t \in Sock : Makes(kk[t]) => Made(kk[t], ns) \notin gone
      <4>1. \A t \in Sock : Makes(kk[t]) => Made(kk[t], ns) \in Body \cup {None}
        BY <3>3, <3>5, <3>6, AtPrompt DEF Made, Connections, ConnRec
      <4>2. l \notin Body \cup {None}
        BY <3>2, SessionAssumption
      <4> QED
        BY <3>4, <4>1, <4>2
    <3>8. Sound(gone, at, kk, ns, body) /\ None \notin gone
      BY <2>4, <3>4, <3>5, <3>7, Apartness
    <3> QED
      BY <3>1, <3>6, <3>8, Removed
  <2> QED
    BY <2>3, <2>4
<1> QED
  BY <1>2, <1>3

-----------------------------------------------------------------------------
(* Displacement *)

\* exec_old_copy() before anything is destructed: the socket of body b moves
\* to the new connection t, and socket s from connection c to b.
LEMMA DisplacedSound ==
    ASSUME IInv, NEW s \in Sock, NEW c \in Conn, at[s] = c,
           NEW b \in Body, In(at, b), conn[c].body = b,
           NEW t \in Conn, ~conn[t].live,
           NEW p \in Cont, p.f \notin LoginPrompts, p.ob \in {b, None},
           NEW a, \A u \in Sock : a[u] = IF u = s THEN b
                                         ELSE IF at[u] = b THEN t ELSE at[u],
           NEW kk, kk[s] = p, \A u \in Sock \ {s} : kk[u] = k[u],
           NEW cs, cs[t].live, cs[t].body = None,
           \A d \in Conn \ {t} : cs[d] = conn[d],
           NEW bs, /\ bs[b].kind = body[b].kind /\ bs[b].once = body[b].once
                   /\ bs[b].dump = body[b].dump /\ bs[b].dying = body[b].dying
                   /\ bs[b].link = c /\ (body[b].heart => bs[b].heart),
           \A d \in Body \ {b} : bs[d] = body[d]
    PROVE  Sound({}, a, kk, cs, bs)
<1>1. /\ Shaped(at, k, conn, body) /\ Sound({}, at, k, conn, body)
      /\ at \in Places /\ k \in Prompting /\ conn \in Connections /\ body \in Bodies
  BY Now
<1>2. /\ conn[c].live /\ body[b].once /\ body[b].kind # "none"
      /\ ~body[b].dump /\ body[b].heart
  <2>1. conn[c].live /\ body[b].once
    BY <1>1 DEF Sound, Refs, In
  <2>2. body[b].kind # "none"
    BY <1>1, <2>1, BlankBody DEF Sound, Blank
  <2> QED
    BY <1>1, <2>1, <2>2 DEF Sound, Timers
<1>3. /\ ~In(at, t) /\ t # c
      /\ \A d \in Body : body[d].link # t
      /\ \A u \in Sock : k[u].ob # t
  BY <1>1, <1>2, UnusedConn
<1>4. In(at, c) /\ \A u \in Sock \ {s} : at[u] # c
  BY <1>1, SessionAssumption DEF In, Sound, Apart
<1>5. /\ In(a, b) /\ ~In(a, c)
      /\ \A o \in (Conn \cup Body) \ {b, c, t} : In(a, o) <=> In(at, o)
  BY <1>3, <1>4, SessionAssumption DEF In
<1>6. Apart(a)
  <2> SUFFICES ASSUME NEW u \in Sock, NEW v \in Sock, a[u] # None, a[u] = a[v]
               PROVE  u = v
    BY DEF Apart
  <2>1. \A x, y \in Sock : at[x] # None /\ at[x] = at[y] => x = y
    BY <1>1 DEF Sound, Apart
  <2>2. \A x \in Sock : at[x] # t
    BY <1>3 DEF In
  <2>3. b # t /\ b # None
    BY SessionAssumption
  <2> QED
    BY <2>1, <2>2, <2>3
<1>7. Timers({}, a, bs)
  <2> SUFFICES ASSUME NEW d \in Body
               PROVE  /\ bs[d].dump <=> bs[d].kind = "user" /\ bs[d].once /\ ~In(a, d)
                      /\ In(a, d) => bs[d].heart
    BY DEF Timers
  <2>1. CASE d = b
    BY <1>2, <1>5, <2>1
  <2>2. CASE d # b
    BY <1>1, <1>5, <2>2, SessionAssumption DEF Sound, Timers
  <2> QED
    BY <2>1, <2>2
<1>8. Links({}, a, cs, bs)
  <2> SUFFICES ASSUME NEW d \in Body, bs[d].link # None
               PROVE  /\ In(a, d) /\ ~In(a, bs[d].link)
                      /\ cs[bs[d].link].live /\ cs[bs[d].link].body = d
    BY DEF Links
  <2>1. CASE d = b
    BY <1>2, <1>3, <1>5, <2>1
  <2>2. CASE d # b
    <3>1. /\ body[d].link \in Conn /\ In(at, d) /\ ~In(at, body[d].link)
          /\ conn[body[d].link].live /\ conn[body[d].link].body = d
      BY <2>2, LinkedBody
    <3>2. body[d].link \in Conn \ {c, t} /\ d \in Body \ {b}
      BY <1>3, <1>4, <2>2, <3>1
    <3> QED
      BY <1>5, <3>1, <3>2, SessionAssumption
  <2> QED
    BY <2>1, <2>2
<1>9. \A u \in Sock : k[u].f \in LoginPrompts /\ u # s =>
         at[u] = k[u].ob /\ k[u].ob \in Conn \ {t} /\ conn[k[u].ob].timer
           /\ a[u] = at[u] /\ kk[u] = k[u]
  BY <1>1, <1>3, SessionAssumption DEF Sound, Asked
<1>10. Asked({}, a, kk, cs)
  <2>1. \A u \in Sock : kk[u].f \in LoginPrompts => u # s /\ k[u].f \in LoginPrompts
    OBVIOUS
  <2> QED
    BY <1>9, <2>1 DEF Asked
<1>11. Blank({}, cs, bs)
  BY <1>1, <1>2 DEF Sound, Blank
<1>12. Refs({}, a, kk, cs, bs)
  <2>1. \A d \in Conn : cs[d].body # None => bs[cs[d].body].kind # "none"
    <3>1. \A d \in Conn \ {t} : conn[d].body # None =>
             conn[d].body \in Body /\ body[conn[d].body].kind # "none"
      BY <1>1 DEF Connections, ConnRec, Sound, Refs
    <3> QED
      BY <1>2, <3>1
  <2>2. ASSUME NEW u \in Sock
        PROVE  /\ a[u] \in Conn => cs[a[u]].live
               /\ a[u] \in Body => bs[a[u]].once
    <3>1. CASE u = s \/ at[u] = b
      BY <1>2, <3>1, SessionAssumption
    <3>2. CASE u # s /\ at[u] # b
      <4>1. a[u] = at[u]
        BY <3>2
      <4>2. /\ at[u] \in Conn => conn[at[u]].live
            /\ at[u] \in Body => body[at[u]].once
        BY <1>1 DEF Sound, Refs
      <4>3. \A d \in Conn : conn[d].live => cs[d].live
        OBVIOUS
      <4> QED
        BY <3>2, <4>1, <4>2, <4>3
    <3> QED
      BY <3>1, <3>2
  <2>3. \A u \in Sock : /\ kk[u].ob \in Conn => cs[kk[u].ob].live
                        /\ kk[u].ob \in Body => bs[kk[u].ob].kind # "none"
    BY <1>1, <1>2, SessionAssumption DEF Sound, Refs
  <2> QED
    BY <2>1, <2>2, <2>3 DEF Refs
<1>13. \A u \in Sock : Makes(kk[u]) =>
          /\ Makes(k[u]) /\ Made(kk[u], cs) = Made(k[u], conn)
          /\ Made(k[u], conn) \in Body \ {b}
  <2> SUFFICES ASSUME NEW u \in Sock, Makes(kk[u])
               PROVE  /\ Makes(k[u]) /\ Made(kk[u], cs) = Made(k[u], conn)
                      /\ Made(k[u], conn) \in Body \ {b}
    OBVIOUS
  <2>1. u # s /\ kk[u] = k[u] /\ Makes(k[u])
    BY DEF Makes, LoginPrompts, Prompts
  <2>2. k[u].ob \in Conn \ {t}
    BY <1>9, <2>1 DEF Makes, LoginPrompts, Prompts
  <2>3. Made(k[u], conn) \in Body \ {b}
    BY <1>2, <2>1, MadeBodies
  <2> QED
    BY <2>1, <2>2, <2>3 DEF Made
<1>14. Fresh({}, a, kk, cs, bs)
  BY <1>1, <1>13, SessionAssumption DEF Sound, Fresh
<1>15. Distinct({}, a, kk, cs)
  BY <1>1, <1>13 DEF Sound, Distinct
<1> QED
  BY <1>6, <1>7, <1>8, <1>10, <1>11, <1>12, <1>14, <1>15 DEF Sound

LEMMA ThrowOutSound ==
    ASSUME IInv, NEW s \in Sock, NEW c \in Conn, At(s, "exec_old_copy", c),
           NEW b \in Body, conn[c].body = b, Interactive(b),
           NEW t \in FreeConn, NEW setup \in BOOLEAN, ThrowOut(s, c, b, t, setup)
    PROVE  Sound({}, at', k', conn', body')
<1> DEFINE gone == IF MayRemove(conn[c].name) THEN {t} \cup LinkOf(b) ELSE {}
           r == [NoConn EXCEPT !.live = TRUE]
           old  == [conn EXCEPT ![t] = r]
           linked == [body EXCEPT ![b].link = c, ![b].heart = @ \/ setup]
           a    == [Displaced(b, t) EXCEPT ![s] = b]
           p    == IF setup THEN Ask("complete_setup", b) ELSE NoCont
           kk   == [k EXCEPT ![s] = p]
<1>1. /\ at \in Places /\ k \in Prompting /\ conn \in Connections /\ body \in Bodies
  BY Now
<1>2. t \in Conn /\ ~conn[t].live
  BY DEF FreeConn
<1>3. at[s] = c /\ In(at, b)
  <2>1. "exec_old_copy" \in LoginPrompts
    BY DEF LoginPrompts, Prompts
  <2> QED
    BY <2>1, Answers DEF In, Interactive
<1>4. /\ at' = Closed(a, gone) /\ k' = Forgotten(kk, a, gone)
      /\ conn' = ConnsLess(old, gone) /\ body' = BodiesLess(linked, gone)
  BY DEF ThrowOut
<1>5. p \in Cont /\ p.f \notin LoginPrompts /\ p.ob \in {b, None}
  BY ContShapes DEF Ask, NoCont, LoginPrompts
<1>6. r \in ConnRec /\ r.live /\ r.body = None
  <2>1. r.live /\ r.body = None
    BY DEF NoConn
  <2> QED
    BY <2>1, BlankShapes
<1>7. /\ a \in Places
      /\ \A u \in Sock : a[u] = IF u = s THEN b ELSE IF at[u] = b THEN t ELSE at[u]
  BY <1>1, <1>2 DEF Displaced, Moved, Places, Objects
<1>8. linked \in Bodies
      /\ linked[b].kind = body[b].kind /\ linked[b].once = body[b].once
      /\ linked[b].dump = body[b].dump /\ linked[b].dying = body[b].dying
      /\ linked[b].link = c /\ (body[b].heart => linked[b].heart)
      /\ \A d \in Body \ {b} : linked[d] = body[d]
  <2> DEFINE x == [body EXCEPT ![b].link = c]
  <2>1. x \in Bodies
    BY <1>1, BodyFields
  <2>2. (body[b].heart \/ setup) \in BOOLEAN
    OBVIOUS
  <2>3. linked = [x EXCEPT ![b].heart = body[b].heart \/ setup]
    BY <1>1 DEF Bodies, BodyRec
  <2>4. linked \in Bodies
    BY <2>1, <2>2, <2>3, BodyFields
  <2> QED
    BY <1>1, <2>4 DEF Bodies, BodyRec
<1> HIDE DEF p, r
<1>9. kk \in Prompting /\ kk[s] = p /\ \A u \in Sock \ {s} : kk[u] = k[u]
  BY <1>1, <1>5 DEF Prompting
<1>10. old \in Connections /\ old[t] = r /\ \A d \in Conn \ {t} : old[d] = conn[d]
  BY <1>1, <1>2, <1>6 DEF Connections
<1>11. gone \subseteq Conn /\ None \notin gone
  BY <1>1, <1>2, SessionAssumption DEF LinkOf, Bodies, BodyRec
<1> HIDE DEF a, kk, old, linked, gone
<1>12. Sound({}, a, kk, old, linked)
  BY <1>2, <1>3, <1>5, <1>6, <1>7, <1>8, <1>9, <1>10, DisplacedSound
<1>13. Shaped(a, kk, old, linked)
  BY <1>7, <1>8, <1>9, <1>10 DEF Shaped
<1>14. \A u \in Sock : Makes(kk[u]) => Made(kk[u], old) \notin gone
  <2>1. \A u \in Sock : Makes(kk[u]) => Made(kk[u], old) \in Body \cup {None}
    BY <1>10, <1>12, <1>13, AtPrompt DEF Made, Connections, ConnRec
  <2> QED
    BY <1>11, <2>1, SessionAssumption
<1>15. Sound(gone, a, kk, old, linked)
  BY <1>12, <1>14, Apartness
<1> QED
  BY <1>4, <1>11, <1>13, <1>15, Removed

LEMMA ExecOldCopyYesSound ==
    ASSUME IInv, NEW s \in Sock, NEW c \in Conn, ExecOldCopyYes(s, c)
    PROVE  Sound({}, at', k', conn', body')
<1> DEFINE b == conn[c].body
<1>1. /\ Shaped(at, k, conn, body) /\ Sound({}, at, k, conn, body)
      /\ at \in Places /\ k \in Prompting /\ conn \in Connections /\ body \in Bodies
  BY Now
<1>2. At(s, "exec_old_copy", c) /\ "exec_old_copy" \in LoginPrompts
  BY DEF ExecOldCopyYes, LoginPrompts, Prompts
<1>3. b \in Body \cup {None}
  BY <1>2, Answers
<1>4. CASE b # None /\ Interactive(b)
  <2>1. PICK t \in FreeConn, setup \in BOOLEAN : ThrowOut(s, c, b, t, setup)
    BY <1>4 DEF ExecOldCopyYes
  <2> QED
    BY <1>2, <1>3, <1>4, <2>1, ThrowOutSound
<1>5. CASE ~(b # None /\ Interactive(b))
  <2> DEFINE r == [NoConn EXCEPT !.live = TRUE]
  <2>1. /\ k' = [k EXCEPT ![s] = NoCont] /\ UNCHANGED <<at, body>>
        /\ UNCHANGED conn \/ \E t \in FreeConn : conn' = [conn EXCEPT ![t] = r]
    BY <1>5 DEF ExecOldCopyYes
  <2>2. r \in ConnRec /\ r.live /\ r.body = None
    <3>1. r.live /\ r.body = None
      BY DEF NoConn
    <3> QED
      BY <3>1, BlankShapes
  <2> HIDE DEF r
  <2>3. Sound({}, at, k, conn', body)
    BY <1>1, <2>1, <2>2, NewConnSound DEF FreeConn
  <2>4. Shaped(at, k, conn', body)
    BY <1>1, <2>1, <2>2 DEF Shaped, FreeConn, Connections
  <2> QED
    BY <2>1, <2>3, <2>4, NothingAsked
<1> QED
  BY <1>4, <1>5

-----------------------------------------------------------------------------
(* Every step keeps the invariant. *)

LEMMA BlankSound ==
    Sound({}, [s \in Sock |-> None], [s \in Sock |-> NoCont],
          [c \in Conn |-> NoConn], [b \in Body |-> NoBody])
<1> DEFINE a == [s \in Sock |-> None]
           kk == [s \in Sock |-> NoCont]
           cs == [c \in Conn |-> NoConn]
           bs == [b \in Body |-> NoBody]
<1>1. /\ \A s \in Sock : a[s] = None /\ kk[s] = NoCont
      /\ \A c \in Conn : cs[c] = NoConn
      /\ \A b \in Body : bs[b] = NoBody
  OBVIOUS
<1>2. NoCont.f = "none" /\ NoCont.ob = None /\ NoConn.body = None
        /\ NoBody.link = None /\ NoBody.kind = "none" /\ ~NoBody.dump
  BY DEF NoCont, NoConn, NoBody
<1>3. \A o \in Conn \cup Body : ~In(a, o)
  BY <1>1, SessionAssumption DEF In
<1> HIDE DEF a, kk, cs, bs
<1>4. Apart(a) /\ Timers({}, a, bs) /\ Links({}, a, cs, bs)
  BY <1>1, <1>2, <1>3 DEF Apart, Timers, Links
<1>5. Asked({}, a, kk, cs) /\ Blank({}, cs, bs)
  BY <1>1, <1>2 DEF Asked, Blank, LoginPrompts
<1>6. Refs({}, a, kk, cs, bs)
  BY <1>1, <1>2, SessionAssumption DEF Refs
<1>7. Fresh({}, a, kk, cs, bs) /\ Distinct({}, a, kk, cs)
  BY <1>1, <1>2 DEF Fresh, Distinct, Makes
<1> QED
  BY <1>4, <1>5, <1>6, <1>7 DEF Sound, a, kk, cs, bs

LEMMA SoundStep ==
    ASSUME IInv, [Next]_vars
    PROVE  Sound({}, at', k', conn', body')
<1>1. ASSUME NEW s \in Sock, SocketStep(s)
      PROVE  Sound({}, at', k', conn', body')
  <2>1. ASSUME NEW c \in Conn, LoginStep(s, c)
        PROVE  Sound({}, at', k', conn', body')
    BY <2>1, PromptsSound, EnterSound, ReconnectSound, AskToDisplaceSound,
       ExecOldCopyYesSound, ExecOldCopyNoSound, ChoiceSound, NewPassSound,
       GetRealNameSound DEF LoginStep
  <2>2. CASE Quit(s)
    BY <2>2, LeaveSound DEF Quit
  <2> QED
    BY <1>1, <2>1, <2>2, ConnectSound, CompleteSetupSound, BreakSound, PasswordSound
    DEF SocketStep
<1>2. ASSUME NEW b \in Body, BodyStep(b)
      PROVE  Sound({}, at', k', conn', body')
  BY <1>2, DieReviveSound, LeaveSound DEF BodyStep
<1>3. ASSUME NEW c \in Conn, ConnStep(c)
      PROVE  Sound({}, at', k', conn', body')
  BY <1>3, ConnStepSound
<1>4. CASE Crash
  BY <1>4, BlankSound DEF Crash
<1>5. CASE UNCHANGED vars
  BY <1>5, Now DEF vars
<1> QED
  BY <1>1, <1>2, <1>3, <1>4, <1>5 DEF Next

LEMMA InvInit == Init => IInv
<1> SUFFICES ASSUME Init PROVE IInv
  OBVIOUS
<1>1. TypeOK
  BY InitTyped
<1>2. Sound({}, at, k, conn, body)
  BY BlankSound DEF Init
<1> QED
  BY <1>1, <1>2, InvIsSound

LEMMA InvStep == IInv /\ [Next]_vars => IInv'
<1> SUFFICES ASSUME IInv, [Next]_vars PROVE IInv'
  OBVIOUS
<1>1. TypeOK'
  BY TypedStep DEF IInv
<1>2. Sound({}, at', k', conn', body')
  BY SoundStep
<1> QED
  BY <1>1, <1>2, InvIsSoundNext

\* However logins, displacements, deaths, revivals, broken links, timers and
\* stops of the driver interleave, the invariant of the session code holds.
THEOREM Invariant == Spec => []IInv
<1> QED
  BY InvInit, InvStep, PTL DEF Spec

\* Every exec() of logind.c, connection.c and ghost.c hands the socket over:
\* no two sockets are ever interactive in one object.
THEOREM OneSocketPerObject == Spec => []SocketsApart
<1>1. IInv => SocketsApart
  BY DEF IInv
<1> QED
  BY <1>1, Invariant, PTL

\* A user body is waiting for the sweep of net_dead() exactly while it is
\* known to find_player() and nobody is in it.
THEOREM SweepsAreArmed == Spec => []SweepArmed
<1>1. IInv => SweepArmed
  BY DEF IInv
<1> QED
  BY <1>1, Invariant, PTL

\* The connection that query_link() of a body gives is the body's own, and
\* somebody is in that body: switch_body() always finds both ends.
THEOREM LinksAgree == Spec => []LinkCoherent
<1>1. IInv => LinkCoherent
  BY DEF IInv
<1> QED
  BY <1>1, Invariant, PTL

\* restart_heart() and setup() leave no played body without its heart_beat().
THEOREM PlayedBodiesBeat == Spec => []HeartOnWhenPlaying
<1>1. IInv => HeartOnWhenPlaying
  BY DEF IInv
<1> QED
  BY <1>1, Invariant, PTL

-----------------------------------------------------------------------------
(* The data files of the accounts that exist when the mud starts *)

\* Their connections have a password ...
Kept(files) == DOMAIN files = Name /\ \A n \in OldName : files[n].pw # 0

\* ... and their bodies a data file.
OldKept == Kept(cfile) /\ OldName \subseteq ufile

\* save_data_conn() leaves no account without a password.
LEMMA SavedKeeps ==
    ASSUME NEW files, Kept(files), NEW r
    PROVE  Kept(Saved(files, r))
<1>1. CASE r.name = None \/ r.pw = 0
  BY <1>1 DEF Saved
<1>2. CASE ~(r.name = None \/ r.pw = 0)
  <2> DEFINE x == [pw |-> r.pw, dead |-> r.dead]
  <2>1. Saved(files, r) = [files EXCEPT ![r.name] = x] /\ x.pw # 0
    BY <1>2 DEF Saved
  <2> HIDE DEF x
  <2> QED
    BY <2>1, SessionAssumption DEF Kept
<1> QED
  BY <1>1, <1>2

LEMMA LinkSavedKeeps ==
    ASSUME NEW files, Kept(files), NEW b
    PROVE  Kept(SavedVia(files, b)) /\ Kept(SavedLink(files, b))
BY SavedKeeps DEF SavedVia, SavedLink

LEMMA NewCopyKeeps ==
    ASSUME NEW s, NEW c, NEW a, NEW kk, NEW cs, NEW bs, NEW fs,
           LoginNewCopy(s, c, a, kk, cs, bs, fs), Kept(fs)
    PROVE  Kept(cfile') /\ ufile' = ufile
<1>1. Kept(Saved(fs, conn[c]))
  BY SavedKeeps
<1> QED
  BY <1>1 DEF LoginNewCopy

\* No step takes an account away.
LEMMA OldStep ==
    ASSUME TypeOK, OldKept, [Next]_vars
    PROVE  OldKept'
<1>1. Kept(cfile) /\ OldName \subseteq ufile
  BY DEF OldKept
<1> SUFFICES Kept(cfile') /\ ufile \subseteq ufile'
  BY <1>1 DEF OldKept, Kept
<1>2. ASSUME NEW s \in Sock, NEW c \in Conn, LoginStep(s, c)
      PROVE  Kept(cfile') /\ ufile \subseteq ufile'
  <2>1. CASE EnterAfresh(s, c)
    BY <1>1, <2>1, NewCopyKeeps DEF EnterAfresh
  <2>2. CASE EnterFromLimbo(s, c)
    <3>1. PICK b \in Body :
            LoginNewCopy(s, c, Closed(at, LimboGone(b, c)), Forgotten(k, at, LimboGone(b, c)),
                ConnsLess(conn, LimboGone(b, c)), BodiesLess(body, LimboGone(b, c)),
                IF MayRemove(conn[c].name) THEN SavedLink(cfile, b) ELSE cfile)
      BY <2>2 DEF EnterFromLimbo, Players
    <3>2. Kept(IF MayRemove(conn[c].name) THEN SavedLink(cfile, b) ELSE cfile)
      BY <1>1, LinkSavedKeeps
    <3> QED
      BY <3>1, <3>2, NewCopyKeeps
  <2>3. CASE ExecOldCopyNo(s, c)
    BY <1>1, <2>3, NewCopyKeeps DEF ExecOldCopyNo
  <2>4. CASE ExecOldCopyYes(s, c)
    BY <1>1, <2>4, LinkSavedKeeps DEF ExecOldCopyYes, ThrowOut
  <2>5. CASE GetRealName(s, c)
    BY <1>1, <2>5, SavedKeeps DEF GetRealName
  <2>6. ASSUME NEW p \in 1 .. MaxPw, NewPass(s, c, p)
        PROVE  Kept(cfile') /\ ufile \subseteq ufile'
    BY <1>1, <2>6, SavedKeeps DEF NewPass
  <2>7. CASE WrongPassword(s, c) \/ Reconnect(s, c) \/ AskToDisplace(s, c)
    BY <1>1, <2>7, SavedKeeps DEF WrongPassword, Reconnect, AskToDisplace
  <2>8. CASE GetNameRefused(s, c) \/ Rejected(s, c) \/ ChooseAgain(s, c) \/ Choice(s, c)
    BY <1>1, <2>8 DEF GetNameRefused, Rejected, RemoveUser, ChooseAgain, Choice
  <2>9. ASSUME NEW n \in Name, GetName(s, c, n) \/ GetNewName(s, c, n)
        PROVE  Kept(cfile') /\ ufile \subseteq ufile'
    BY <1>1, <2>9 DEF GetName, GetNewName
  <2> QED
    BY <1>2, <2>1, <2>2, <2>3, <2>4, <2>5, <2>6, <2>7, <2>8, <2>9 DEF LoginStep
<1>3. ASSUME NEW b, NEW nb, NEW new, NEW dead, NEW gone, SwitchBody(b, nb, new, dead, gone)
      PROVE  Kept(cfile')
  BY <1>1, <1>3, SavedKeeps DEF SwitchBody
<1>4. ASSUME NEW s \in Sock, SocketStep(s), ~\E c \in Conn : LoginStep(s, c)
      PROVE  Kept(cfile') /\ ufile \subseteq ufile'
  <2>1. CASE CompleteSetup(s)
    <3>1. /\ ufile' = ufile
          /\ \/ cfile' = cfile \/ cfile' = SavedVia(cfile, k[s].ob)
             \/ \E g : SwitchBody(k[s].ob, g, GhostOf(body[k[s].ob].name, body[k[s].ob].link),
                                  TRUE, {k[s].ob})
      BY <2>1 DEF CompleteSetup
    <3> QED
      BY <1>1, <1>3, <3>1, LinkSavedKeeps
  <2>2. CASE Connect(s) \/ HangUp(s) \/ Passwd(s)
    BY <1>1, <2>2 DEF Connect, HangUp, Passwd
  <2>3. CASE Quit(s) \/ NetDead(s)
    BY <1>1, <2>3, LinkSavedKeeps DEF Quit, NetDead
  <2>4. ASSUME NEW p \in 0 .. MaxPw, Newpass(s, p)
        PROVE  Kept(cfile') /\ ufile \subseteq ufile'
    <3>1. ufile' = ufile /\ (cfile' = cfile \/ \E r : cfile' = Saved(cfile, r))
      BY <2>4 DEF Newpass
    <3> QED
      BY <1>1, <3>1, SavedKeeps
  <2> QED
    BY <1>4, <2>1, <2>2, <2>3, <2>4 DEF SocketStep
<1>5. ASSUME NEW b \in Body, BodyStep(b)
      PROVE  Kept(cfile') /\ ufile \subseteq ufile'
  <2>1. CASE Die(b) \/ Revive(b)
    BY <1>3, <2>1 DEF Die, Revive
  <2>2. CASE RemoveDead(b) \/ IdleDump(b) \/ Sweep(b) \/ BodyCleanUp(b)
    BY <1>1, <2>2, LinkSavedKeeps DEF RemoveDead, IdleDump, Sweep, BodyCleanUp
  <2> QED
    BY <1>5, <2>1, <2>2 DEF BodyStep
<1>6. ASSUME NEW c \in Conn, ConnStep(c)
      PROVE  Kept(cfile') /\ ufile \subseteq ufile'
  BY <1>1, <1>6, SavedKeeps DEF ConnStep, CheckStatus, CallOutRemove, CleanUp, RemoveConn
<1>7. CASE Crash \/ UNCHANGED vars
  BY <1>1, <1>7 DEF Crash, vars
<1> QED
  BY <1>2, <1>4, <1>5, <1>6, <1>7 DEF Next

-----------------------------------------------------------------------------
(* MAX_USERS *)

\* A socket that is asked something is open.
Attended == \A s \in Sock : k[s].f # "none" => at[s] # None

\* Past the first prompt, of sockets a with prompts kk.
Past(a, kk, s) == a[s] \in Body \/ kk[s].f \notin {"none", "get_name"}

\* No socket has got past the first prompt, and all that are asked are open.
Followed(a, kk) ==
    \A s \in Sock : /\ kk[s].f # "none" => a[s] # None
                    /\ Past(a, kk, s) => Past(at, k, s)

LEMMA FollowedLess ==
    ASSUME NEW a, NEW kk \in Prompting, NEW gone, Followed(a, kk)
    PROVE  Followed(Closed(a, gone), Forgotten(kk, a, gone))
<1> SUFFICES ASSUME NEW s \in Sock
             PROVE  /\ Forgotten(kk, a, gone)[s].f # "none" => Closed(a, gone)[s] # None
                    /\ Past(Closed(a, gone), Forgotten(kk, a, gone), s) => Past(at, k, s)
  BY DEF Followed
<1>1. CASE a[s] \in gone
  <2>1. Closed(a, gone)[s] = None /\ Forgotten(kk, a, gone)[s] = NoCont
    BY <1>1 DEF Closed, Forgotten
  <2> QED
    BY <2>1, SessionAssumption DEF Past, NoCont
<1>2. CASE a[s] \notin gone
  <2>1. Closed(a, gone)[s] = a[s] /\ Forgotten(kk, a, gone)[s].f = kk[s].f
    <3>1. Forgotten(kk, a, gone)[s] \in {kk[s], [kk[s] EXCEPT !.ob = None]}
      BY <1>2 DEF Forgotten
    <3>2. [kk[s] EXCEPT !.ob = None].f = kk[s].f
      BY DEF Prompting, Cont
    <3> QED
      BY <1>2, <3>1, <3>2 DEF Closed
  <2> QED
    BY <2>1 DEF Followed, Past
<1> QED
  BY <1>1, <1>2

\* Where the socket of a prompt goes, and the others stay.
LEMMA FollowedOne ==
    ASSUME TypeOK, Attended, NEW s \in Sock,
           NEW x \in Conn \cup Body \cup {None}, NEW p,
           p.f # "none" => x # None,
           x \in Body \/ p.f \notin {"none", "get_name"} => Past(at, k, s)
    PROVE  Followed([at EXCEPT ![s] = x], [k EXCEPT ![s] = p])
<1>1. at \in [Sock -> Conn \cup Body \cup {None}] /\ k \in [Sock -> Cont]
  BY DEF TypeOK
<1> QED
  BY <1>1 DEF Followed, Attended, Past

LEMMA FollowedHere ==
    ASSUME TypeOK, Attended
    PROVE  /\ Followed(at, k)
           /\ \A s \in Sock : Followed(at, [k EXCEPT ![s] = NoCont])
           /\ \A b, nb \in Body : Followed(Moved(b, nb), k)
           /\ \A b, nb \in Body : \A s \in Sock : Followed(Moved(b, nb), [k EXCEPT ![s] = NoCont])
<1>1. at \in [Sock -> Conn \cup Body \cup {None}] /\ k \in [Sock -> Cont]
  BY DEF TypeOK
<1>2. Followed(at, k)
  BY DEF Followed, Attended
<1>3. ASSUME NEW s \in Sock PROVE Followed(at, [k EXCEPT ![s] = NoCont])
  BY <1>1 DEF Followed, Attended, Past, NoCont
<1>4. ASSUME NEW b \in Body, NEW nb \in Body, NEW kk, Followed(at, kk)
      PROVE  Followed(Moved(b, nb), kk)
  BY <1>1, <1>4, SessionAssumption DEF Followed, Past, Moved
<1> QED
  BY <1>2, <1>3, <1>4

LEMMA NewCopyFollows ==
    ASSUME TypeOK, NEW s \in Sock, NEW c, NEW a \in Places, NEW kk \in Prompting,
           NEW cs, NEW bs, NEW fs, LoginNewCopy(s, c, a, kk, cs, bs, fs),
           Followed(a, kk), Past(at, k, s)
    PROVE  Followed(at', k')
<1>1. CASE /\ conn[c].name \in ufile
           /\ \E b \in Body : /\ at' = [a EXCEPT ![s] = b]
                              /\ k' = [kk EXCEPT ![s] = Ask("complete_setup", b)]
  BY <1>1, SessionAssumption DEF Followed, Past, Places, Prompting
<1>2. ASSUME NEW gone, at' = Closed(a, gone),
             k' = [Forgotten(kk, a, gone) EXCEPT ![s] = NoCont]
      PROVE  Followed(at', k')
  <2>1. Followed(Closed(a, gone), Forgotten(kk, a, gone))
    BY FollowedLess
  <2>2. Forgotten(kk, a, gone) = [t \in Sock |-> Forgotten(kk, a, gone)[t]]
    BY DEF Forgotten
  <2> DEFINE g == Forgotten(kk, a, gone)
  <2> HIDE DEF g
  <2>3. \A t \in Sock : k'[t] = IF t = s THEN NoCont ELSE g[t]
    BY <1>2, <2>2 DEF g
  <2>4. \A t \in Sock : /\ g[t].f # "none" => at'[t] # None
                        /\ Past(at', g, t) => Past(at, k, t)
    BY <1>2, <2>1 DEF Followed, g
  <2> QED
    BY <2>3, <2>4 DEF Followed, Past, NoCont
<1> QED
  BY <1>1, <1>2 DEF LoginNewCopy, FreeBody

\* Each step: nobody gets past the first prompt, except by get_name(), which
\* counts the users first.
Counted == \E n \in Name : ~Full(n) /\ at' = at

LEMMA LoginFollows ==
    ASSUME IInv, Attended, NEW s \in Sock, NEW c \in Conn, LoginStep(s, c)
    PROVE  \/ Followed(at', k')
           \/ /\ Counted
              /\ \A t \in Sock : k'[t].f # "none" => at'[t] # None
<1>1. /\ TypeOK /\ at \in Places /\ k \in Prompting
      /\ at \in [Sock -> Conn \cup Body \cup {None}] /\ k \in [Sock -> Cont]
  BY Now DEF TypeOK
<1>2. /\ Followed(at, k) /\ \A t \in Sock : Followed(at, [k EXCEPT ![t] = NoCont])
      /\ \A b, nb \in Body : Followed(Moved(b, nb), k)
  BY <1>1, FollowedHere
<1>3. c \notin Body /\ c # None
  BY SessionAssumption
<1>4. ASSUME NEW f \in LoginPrompts, At(s, f, c)
      PROVE  at[s] = c /\ k[s].f = f
  BY <1>4, Answers
<1>5. ASSUME NEW n \in Name, GetName(s, c, n) \/ GetNewName(s, c, n)
      PROVE  /\ Counted
             /\ \A t \in Sock : k'[t].f # "none" => at'[t] # None
  <2>1. At(s, "get_name", c) /\ ~Full(n) /\ at' = at /\ \E p : k' = [k EXCEPT ![s] = p]
    BY <1>5 DEF GetName, GetNewName
  <2>2. at[s] # None
    BY <2>1 DEF At
  <2> QED
    BY <1>1, <2>1, <2>2 DEF Counted, Attended
<1>6. ASSUME UNCHANGED at, NEW p, k' = [k EXCEPT ![s] = p], at[s] # None,
             p.f \notin {"none", "get_name"} => k[s].f \notin {"none", "get_name"}
      PROVE  Followed(at', k')
  BY <1>1, <1>6 DEF Followed, Attended, Past
<1>7. CASE GetNameRefused(s, c) \/ Rejected(s, c)
  BY <1>2, <1>7 DEF GetNameRefused, Rejected, RemoveUser
<1>8. CASE WrongPassword(s, c)
  <2>1. at[s] = c /\ k[s].f = "get_password"
    BY <1>8, <1>4 DEF WrongPassword, LoginPrompts, Prompts
  <2>2. UNCHANGED at /\ \E p : k' = [k EXCEPT ![s] = p]
    BY <1>8 DEF WrongPassword
  <2> QED
    BY <1>3, <1>6, <2>1, <2>2
<1>9. CASE AskToDisplace(s, c)
  <2>1. at[s] = c /\ k[s].f = "get_password"
    BY <1>9, <1>4 DEF AskToDisplace, LoginPrompts, Prompts
  <2> QED
    BY <1>3, <1>6, <1>9, <2>1 DEF AskToDisplace
<1>10. CASE ChooseAgain(s, c) \/ Choice(s, c)
  <2>1. at[s] = c /\ k[s].f = "choice"
    BY <1>10, <1>4 DEF ChooseAgain, Choice, LoginPrompts, Prompts
  <2> QED
    BY <1>3, <1>6, <1>10, <2>1 DEF ChooseAgain, Choice
<1>11. ASSUME NEW p \in 1 .. MaxPw, NewPass(s, c, p) PROVE Followed(at', k')
  <2>1. at[s] = c /\ k[s].f = "new_pass"
    BY <1>11, <1>4 DEF NewPass, LoginPrompts, Prompts
  <2> QED
    BY <1>3, <1>6, <1>11, <2>1 DEF NewPass
<1>12. CASE EnterAfresh(s, c)
  <2>1. at[s] = c /\ k[s].f = "get_password"
    BY <1>12, <1>4 DEF EnterAfresh, LoginPrompts, Prompts
  <2> QED
    BY <1>1, <1>2, <1>12, <2>1, NewCopyFollows DEF EnterAfresh, Past
<1>13. CASE EnterFromLimbo(s, c)
  <2>1. at[s] = c /\ k[s].f = "get_password"
    BY <1>13, <1>4 DEF EnterFromLimbo, LoginPrompts, Prompts
  <2>2. PICK b \in Body :
          LoginNewCopy(s, c, Closed(at, LimboGone(b, c)), Forgotten(k, at, LimboGone(b, c)),
              ConnsLess(conn, LimboGone(b, c)), BodiesLess(body, LimboGone(b, c)),
              IF MayRemove(conn[c].name) THEN SavedLink(cfile, b) ELSE cfile)
    BY <1>13 DEF EnterFromLimbo, Players
  <2>3. /\ Closed(at, LimboGone(b, c)) \in Places
        /\ Forgotten(k, at, LimboGone(b, c)) \in Prompting
    BY <1>1, DestructShapes, Typed
  <2>4. Followed(Closed(at, LimboGone(b, c)), Forgotten(k, at, LimboGone(b, c)))
    BY <1>1, <1>2, FollowedLess
  <2> QED
    BY <1>1, <2>1, <2>2, <2>3, <2>4, NewCopyFollows DEF Past
<1>14. CASE ExecOldCopyNo(s, c)
  <2>1. at[s] = c /\ k[s].f = "exec_old_copy"
    BY <1>14, <1>4 DEF ExecOldCopyNo, LoginPrompts, Prompts
  <2> QED
    BY <1>1, <1>2, <1>14, <2>1, NewCopyFollows DEF ExecOldCopyNo, Past
<1>15. CASE Reconnect(s, c)
  <2>1. at[s] = c /\ k[s].f = "get_password"
    BY <1>15, <1>4 DEF Reconnect, LoginPrompts, Prompts
  <2>2. PICK b \in Body : at' = [at EXCEPT ![s] = b] /\ k' = [k EXCEPT ![s] = NoCont]
    BY <1>15 DEF Reconnect, Players
  <2> QED
    BY <1>1, <2>1, <2>2, FollowedOne DEF NoCont, Past
<1>16. CASE GetRealName(s, c)
  <2>1. at[s] = c /\ k[s].f = "get_real_name"
    BY <1>16, <1>4 DEF GetRealName, LoginPrompts, Prompts
  <2>2. Makes(k[s]) /\ k[s].ob = c
    BY <1>16, <2>1 DEF Makes, GetRealName, At
  <2>3. conn[c].body \in Body
    BY <2>2, MadeBodies DEF Made
  <2> QED
    BY <1>1, <1>16, <2>1, <2>3, FollowedOne, SessionAssumption DEF GetRealName, Ask, Past
<1>17. CASE ExecOldCopyYes(s, c)
  <2>1. at[s] = c /\ k[s].f = "exec_old_copy"
    BY <1>17, <1>4 DEF ExecOldCopyYes, LoginPrompts, Prompts
  <2> DEFINE b == conn[c].body
  <2>2. ASSUME b # None, NEW t \in FreeConn, NEW setup \in BOOLEAN, ThrowOut(s, c, b, t, setup)
        PROVE  Followed(at', k')
    <3> DEFINE gone == IF MayRemove(conn[c].name) THEN {t} \cup LinkOf(b) ELSE {}
               p == IF setup THEN Ask("complete_setup", b) ELSE NoCont
               a == [Displaced(b, t) EXCEPT ![s] = b]
               kk == [k EXCEPT ![s] = p]
    <3>1. at' = Closed(a, gone) /\ k' = Forgotten(kk, a, gone)
      BY <2>2 DEF ThrowOut
    <3>2. b \in Body
      BY <2>2, Typed, <1>1 DEF Connections, ConnRec
    <3>3. kk \in Prompting
      BY <1>1, <3>2, ContShapes DEF Prompting
    <3>4. Followed(a, kk)
      <4>1. a[s] = b /\ kk[s] = p /\ b # None
        BY <1>1, <2>2 DEF Displaced, Moved
      <4>2. \A u \in Sock \ {s} : kk[u] = k[u] /\ a[u] \in {at[u], t} /\ (a[u] = t => at[u] # None \/ a[u] = at[u])
        BY <1>1, <2>2 DEF Displaced, Moved
      <4>3. t \in Conn /\ t # None /\ t \notin Body
        BY SessionAssumption DEF FreeConn
      <4> HIDE DEF a, kk, p
      <4>4. ASSUME NEW u \in Sock \ {s}
            PROVE  /\ kk[u].f # "none" => a[u] # None
                   /\ Past(a, kk, u) => Past(at, k, u)
        BY <4>2, <4>3 DEF Attended, Past
      <4> QED
        BY <2>1, <4>1, <4>4 DEF Followed, Past
    <3> HIDE DEF gone, a, kk
    <3> QED
      BY <3>1, <3>3, <3>4, FollowedLess
  <2>3. CASE UNCHANGED at /\ k' = [k EXCEPT ![s] = NoCont]
    BY <1>2, <2>3
  <2> QED
    BY <1>17, <2>2, <2>3 DEF ExecOldCopyYes
<1> QED
  BY <1>5, <1>7, <1>8, <1>9, <1>10, <1>11, <1>12, <1>13, <1>14, <1>15, <1>16, <1>17
  DEF LoginStep

LEMMA ForgottenFollows ==
    ASSUME NEW a, NEW kk \in Prompting, NEW gone, Followed(a, kk)
    PROVE  Followed(a, Forgotten(kk, a, gone))
<1>1. \A s \in Sock : Forgotten(kk, a, gone)[s].f \in {kk[s].f, "none"}
  <2> TAKE s \in Sock
  <2>1. Forgotten(kk, a, gone)[s] \in {NoCont, kk[s], [kk[s] EXCEPT !.ob = None]}
    BY DEF Forgotten
  <2>2. [kk[s] EXCEPT !.ob = None].f = kk[s].f /\ NoCont.f = "none"
    BY DEF Prompting, Cont, NoCont
  <2> QED
    BY <2>1, <2>2
<1> QED
  BY <1>1 DEF Followed, Past

LEMMA DestructFollows ==
    ASSUME TypeOK, Attended, NEW gone, Destruct(gone)
    PROVE  Followed(at', k')
BY FollowedHere, FollowedLess, Typed DEF Destruct

\* The death of a body moves its sockets.
LEMMA SwitchFollows ==
    ASSUME TypeOK, Attended, NEW b \in Body, NEW nb \in Body, NEW new, NEW dead, NEW gone,
           SwitchBody(b, nb, new, dead, gone), NEW s \in Sock,
           k' \in {k, Forgotten(k, at', gone), Forgotten([k EXCEPT ![s] = NoCont], at', gone)}
    PROVE  Followed(at', k')
<1>1. at' = Moved(b, nb)
  BY DEF SwitchBody
<1>2. k \in Prompting /\ [k EXCEPT ![s] = NoCont] \in Prompting
  BY Typed, ContShapes DEF Prompting
<1> QED
  BY <1>1, <1>2, FollowedHere, ForgottenFollows

LEMMA SocketFollows ==
    ASSUME IInv, Attended, NEW s \in Sock, SocketStep(s), ~\E c \in Conn : LoginStep(s, c)
    PROVE  Followed(at', k')
<1>1. /\ TypeOK /\ at \in Places /\ k \in Prompting /\ conn \in Connections
      /\ body \in Bodies
  BY Now
<1>2. Followed(at, k) /\ Followed(at, [k EXCEPT ![s] = NoCont])
  BY <1>1, FollowedHere
<1>3. NoCont \in Cont /\ NoCont.f = "none" /\ [k EXCEPT ![s] = NoCont] \in Prompting
  BY <1>1, ContShapes DEF NoCont, Prompting
<1>4. Followed([at EXCEPT ![s] = None], [k EXCEPT ![s] = NoCont])
  BY <1>1, <1>3, FollowedOne, SessionAssumption
<1>5. CASE Connect(s)
  <2>1. PICK c \in Conn : /\ at' = [at EXCEPT ![s] = c]
                          /\ k' = [k EXCEPT ![s] = Ask("get_name", c)]
    BY <1>5 DEF Connect, FreeConn
  <2>2. c # None /\ c \notin Body /\ Ask("get_name", c).f = "get_name"
    BY SessionAssumption DEF Ask
  <2> QED
    BY <1>1, <2>1, <2>2, FollowedOne
<1>6. CASE CompleteSetup(s)
  <2> DEFINE b == k[s].ob
             kk == [k EXCEPT ![s] = NoCont]
  <2>1. CASE at' = at /\ k' = kk
    BY <1>2, <2>1
  <2>2. ASSUME b # None, NEW g \in FreeBody,
               SwitchBody(b, g, GhostOf(body[b].name, body[b].link), TRUE, {b}),
               k' = Forgotten(kk, at', {b})
        PROVE  Followed(at', k')
    <3>1. b \in Body /\ g \in Body
      BY <1>1, <1>6, <2>2 DEF CompleteSetup, Prompting, Cont, LoginPrompts, FreeBody
    <3> QED
      BY <1>1, <2>2, <3>1, SwitchFollows
  <2> QED
    BY <1>6, <2>1, <2>2 DEF CompleteSetup
<1>7. CASE Quit(s)
  BY <1>1, <1>7, DestructFollows DEF Quit
<1>8. CASE HangUp(s)
  BY <1>4, <1>8 DEF HangUp
<1>9. CASE NetDead(s)
  BY <1>3, <1>4, <1>9, FollowedLess DEF NetDead
<1>10. CASE Passwd(s)
  <2> DEFINE p == Ask("newpass", body[at[s]].link)
  <2>1. at[s] \in Body /\ at[s] # None /\ at' = at /\ k' = [k EXCEPT ![s] = p]
    BY <1>10, SessionAssumption DEF Passwd
  <2>2. at' = [at EXCEPT ![s] = at[s]]
    BY <1>1, <2>1 DEF Places
  <2>3. Past(at, k, s)
    BY <2>1 DEF Past
  <2> HIDE DEF p
  <2>4. Followed([at EXCEPT ![s] = at[s]], [k EXCEPT ![s] = p])
    BY <1>1, <2>1, <2>3, FollowedOne
  <2> QED
    BY <2>1, <2>2, <2>4
<1>11. ASSUME NEW p \in 0 .. MaxPw, Newpass(s, p)
       PROVE  Followed(at', k')
  <2> DEFINE l == k[s].ob
             kk == [k EXCEPT ![s] = NoCont]
             gone == IF BodyConnected(l) \/ ~MayRemove(UserOf(at[s])) THEN {} ELSE {l}
  <2>1. \/ at' = at /\ k' = kk
        \/ at' = Closed(at, gone) /\ k' = Forgotten(kk, at, gone)
    BY <1>11 DEF Newpass
  <2> HIDE DEF gone
  <2> QED
    BY <1>2, <1>3, <2>1, FollowedLess
<1> QED
  BY <1>5, <1>6, <1>7, <1>8, <1>9, <1>10, <1>11 DEF SocketStep

LEMMA BodyFollows ==
    ASSUME IInv, Attended, NEW b \in Body, BodyStep(b)
    PROVE  Followed(at', k')
<1>1. TypeOK
  BY Now
<1>2. CASE Die(b) \/ Revive(b)
  <2>1. PICK nb \in Body : \E new, dead, gone :
           /\ SwitchBody(b, nb, new, dead, gone)
           /\ k' \in {k, Forgotten(k, at', gone)}
    BY <1>2 DEF Die, Revive, FreeBody
  <2>2. CASE Sock = {}
    BY <2>2 DEF Followed
  <2>3. ASSUME NEW s \in Sock
        PROVE  Followed(at', k')
    BY <1>1, <2>1, SwitchFollows
  <2> QED
    BY <2>2, <2>3
<1>3. CASE RemoveDead(b) \/ IdleDump(b) \/ Sweep(b) \/ BodyCleanUp(b)
  <2>1. PICK gone : Destruct(gone)
    BY <1>3 DEF RemoveDead, IdleDump, Sweep, BodyCleanUp
  <2> QED
    BY <1>1, <2>1, DestructFollows
<1> QED
  BY <1>2, <1>3 DEF BodyStep

LEMMA ConnFollows ==
    ASSUME IInv, Attended, NEW c \in Conn, ConnStep(c)
    PROVE  Followed(at', k')
<1>1. TypeOK
  BY Now
<1>2. (at' = at /\ k' = k) \/ Destruct({c})
  BY DEF ConnStep, CheckStatus, CallOutRemove, CleanUp, RemoveConn
<1> QED
  BY <1>1, <1>2, FollowedHere, DestructFollows

\* Every step but get_name() lets nobody past the first prompt.
LEMMA StepFollows ==
    ASSUME IInv, Attended, [Next]_vars
    PROVE  \/ Followed(at', k')
           \/ /\ Counted
              /\ \A t \in Sock : k'[t].f # "none" => at'[t] # None
<1>1. CASE Crash
  BY <1>1, SessionAssumption DEF Crash, Followed, Past, NoCont
<1>2. CASE UNCHANGED vars
  <2>1. Followed(at, k)
    BY Now, FollowedHere
  <2> QED
    BY <1>2, <2>1 DEF vars
<1> QED
  BY <1>1, <1>2, LoginFollows, SocketFollows, BodyFollows, ConnFollows DEF Next, SocketStep

LEMMA AttendedStep ==
    ASSUME IInv, Attended, [Next]_vars
    PROVE  Attended'
BY StepFollows DEF Followed, Attended

\* Who is counted is open, and all that are past the first prompt are counted.
LEMMA BoundedStep ==
    ASSUME IInv, Attended, UsersBounded, [Next]_vars
    PROVE  UsersBounded'
<1> SUFFICES ASSUME Admin = {}
             PROVE  Cardinality(Admitted') <= MaxUsers
  BY DEF UsersBounded
<1>1. \A X \in SUBSET Sock : IsFiniteSet(X) /\ Cardinality(X) \in Nat
  BY SessionAssumption, FS_Subset, FS_CardinalityType
<1>2. Admitted \in SUBSET Sock /\ Admitted' \in SUBSET Sock /\ Users \in SUBSET Sock
  BY DEF Admitted, Users
<1>3. MaxUsers \in Nat
  BY SessionAssumption
<1>4. Cardinality(Admitted) <= MaxUsers
  BY DEF UsersBounded
<1>5. CASE Followed(at', k')
  <2>1. Admitted' \subseteq Admitted
    BY <1>5 DEF Followed, Past, Admitted
  <2>2. Cardinality(Admitted') <= Cardinality(Admitted)
    BY <1>1, <1>2, <2>1, FS_Subset
  <2> QED
    BY <1>1, <1>2, <1>3, <1>4, <2>2
<1>6. CASE Counted /\ \A t \in Sock : k'[t].f # "none" => at'[t] # None
  <2>1. Admitted' \subseteq Users
    BY <1>6, SessionAssumption DEF Admitted, Users, Counted
  <2>2. Cardinality(Admitted') <= Cardinality(Users)
    BY <1>1, <1>2, <2>1, FS_Subset
  <2>3. ~(Cardinality(Users) > MaxUsers)
    BY <1>6 DEF Counted, Full
  <2> QED
    BY <1>1, <1>2, <1>3, <2>2, <2>3
<1> QED
  BY <1>5, <1>6, StepFollows

LEMMA BoundedInit == Init => Attended /\ UsersBounded
<1> SUFFICES ASSUME Init PROVE Attended /\ UsersBounded
  OBVIOUS
<1>1. Admitted = {}
  BY SessionAssumption DEF Init, Admitted, NoCont
<1>2. Cardinality(Admitted) <= MaxUsers
  BY <1>1, FS_EmptySet, SessionAssumption
<1> QED
  BY <1>2 DEF Init, Attended, NoCont, UsersBounded

\* MAX_USERS bounds the links that got past get_name(), which counts before
\* it asks for a password: those that are counted then can only get fewer
\* before the next is let past.  For any number of sockets, when nobody is in
\* the adminaccess group.
THEOREM LinksBounded == Spec => []UsersBounded
<1> DEFINE Bounded == Attended /\ UsersBounded
<1>1. Init => Bounded
  BY BoundedInit
<1>2. IInv /\ Bounded /\ [Next]_vars => Bounded'
  BY AttendedStep, BoundedStep
<1>3. Bounded => UsersBounded
  OBVIOUS
<1> HIDE DEF Bounded
<1> QED
  BY <1>1, <1>2, <1>3, Invariant, PTL DEF Spec

-----------------------------------------------------------------------------
(* Whose account a prompt and a body are *)

\* What a login prompt p says of the account: a name that is chosen is not an
\* old account's, the body that is made is the account's, and so is the body
\* that exec_old_copy() asks about.
NamedPrompt(p, cs, bs) ==
    /\ p.f = "choice" => p.nm \notin OldName
    /\ Makes(p) => /\ cs[p.ob].name \in Name \ OldName
                   /\ bs[Made(p, cs)].name = cs[p.ob].name
    /\ p.f \in {"get_password", "exec_old_copy"} => cs[p.ob].name \in Name
    /\ p.f = "exec_old_copy" /\ cs[p.ob].body # None =>
          bs[cs[p.ob].body].name = cs[p.ob].name

\* find_player() finds at most one body of an old player's account, and none
\* that is about to be removed.
OneOnce(bs) ==
    /\ \A b \in Body : bs[b].once => bs[b].name \in Name /\ ~bs[b].dying
    /\ \A b, d \in Body :
          /\ bs[b].once /\ bs[d].once
          /\ bs[b].name = bs[d].name /\ bs[b].name \in Old
          => b = d

Named ==
    /\ OldKept
    /\ \A s \in Sock : NamedPrompt(k[s], conn, body)
    /\ OneOnce(body)

\* The login prompt of t, if prompts kk and connections cs have one, is the
\* present one, in a connection of the same name and body.
Stays(t, kk, cs) ==
    kk[t].f \in LoginPrompts =>
        /\ kk[t] = k[t]
        /\ cs[k[t].ob].name = conn[k[t].ob].name
        /\ cs[k[t].ob].body \in {conn[k[t].ob].body, None}

\* A body that was there keeps its name until it is destructed.
NamesStay(bs) ==
    \A b \in Body : \/ bs[b].kind = "none" \/ body[b].kind = "none"
                    \/ bs[b].name = body[b].name

\* Where the login prompts are, and what they refer to.
LEMMA Referred ==
    ASSUME NEW a, NEW kk, NEW cs, NEW bs, Shaped(a, kk, cs, bs),
           Sound({}, a, kk, cs, bs)
    PROVE  /\ \A t \in Sock : kk[t].f \in LoginPrompts =>
                 /\ a[t] = kk[t].ob /\ kk[t].ob \in Conn /\ cs[kk[t].ob].live
           /\ \A t \in Sock : Makes(kk[t]) => Made(kk[t], cs) \in Body
           /\ \A c \in Conn : cs[c].body # None =>
                 cs[c].body \in Body /\ bs[cs[c].body].kind # "none"
<1>1. \A t \in Sock : kk[t].f \in LoginPrompts =>
         /\ a[t] = kk[t].ob /\ kk[t].ob \in Conn /\ cs[kk[t].ob].live
  BY DEF Sound, Asked, Refs
<1>2. \A c \in Conn : cs[c].body # None =>
         cs[c].body \in Body /\ bs[cs[c].body].kind # "none"
  BY DEF Shaped, Connections, ConnRec, Sound, Refs
<1>3. \A t \in Sock : Makes(kk[t]) => Made(kk[t], cs) # None /\ kk[t].ob \in Conn
  BY AtPrompt DEF Sound, Fresh
<1> QED
  BY <1>1, <1>2, <1>3 DEF Made

LEMMA NowReferred ==
    ASSUME IInv
    PROVE  /\ \A t \in Sock : k[t].f \in LoginPrompts =>
                 /\ at[t] = k[t].ob /\ k[t].ob \in Conn /\ conn[k[t].ob].live
           /\ \A t \in Sock : Makes(k[t]) => Made(k[t], conn) \in Body
           /\ \A c \in Conn : conn[c].body # None =>
                 conn[c].body \in Body /\ body[conn[c].body].kind # "none"
BY Now, Referred

LEMMA ThenReferred ==
    ASSUME IInv'
    PROVE  /\ TypeOK'
           /\ \A t \in Sock : k'[t].f \in LoginPrompts =>
                 /\ at'[t] = k'[t].ob /\ k'[t].ob \in Conn /\ conn'[k'[t].ob].live
           /\ \A t \in Sock : Makes(k'[t]) => Made(k'[t], conn') \in Body
           /\ \A c \in Conn : conn'[c].body # None =>
                 conn'[c].body \in Body /\ body'[conn'[c].body].kind # "none"
<1>1. TypeOK'
  BY DEF IInv
<1>2. Sound({}, at', k', conn', body')
  BY <1>1, InvIsSoundNext
<1>3. Shaped(at', k', conn', body')
  BY <1>1, TypedNext DEF Shaped
<1> QED
  BY <1>1, <1>2, <1>3, Referred

\* A login prompt that stays says the same.
LEMMA PromptStays ==
    ASSUME IInv, IInv', NamesStay(body'), NEW t \in Sock, Stays(t, k', conn'),
           NamedPrompt(k[t], conn, body)
    PROVE  NamedPrompt(k'[t], conn', body')
<1> DEFINE p == k[t]
<1>1. CASE k'[t].f \notin LoginPrompts
  BY <1>1 DEF NamedPrompt, Makes, LoginPrompts, Prompts
<1>2. CASE k'[t].f \in LoginPrompts
  <2>1. /\ k'[t] = p /\ p.ob \in Conn
        /\ conn'[p.ob].name = conn[p.ob].name
        /\ conn'[p.ob].body \in {conn[p.ob].body, None}
    BY <1>2, ThenReferred DEF Stays
  <2>2. ASSUME conn'[p.ob].body # None
        PROVE  /\ conn'[p.ob].body = conn[p.ob].body
               /\ body'[conn'[p.ob].body].name = body[conn[p.ob].body].name
    BY <2>1, <2>2, NowReferred, ThenReferred DEF NamesStay
  <2>3. Makes(p) => conn'[p.ob].body # None
    BY <2>1, ThenReferred, SessionAssumption DEF Made
  <2> HIDE DEF p
  <2> QED
    BY <2>1, <2>2, <2>3 DEF NamedPrompt, Made, p
<1> QED
  BY <1>1, <1>2

\* Destructing objects leaves the prompts and bodies that remain as they are.
LEMMA LessStays ==
    ASSUME IInv', NEW a, NEW kk \in Prompting, NEW cs \in Connections, NEW gone,
           NEW t \in Sock, Stays(t, kk, cs),
           k'[t] = Forgotten(kk, a, gone)[t], conn' = ConnsLess(cs, gone)
    PROVE  Stays(t, k', conn')
<1> SUFFICES ASSUME k'[t].f \in LoginPrompts
             PROVE  /\ k'[t] = k[t]
                    /\ conn'[k[t].ob].name = conn[k[t].ob].name
                    /\ conn'[k[t].ob].body \in {conn[k[t].ob].body, None}
  BY DEF Stays
<1>1. k'[t].ob \in Conn /\ conn'[k'[t].ob].live
  BY ThenReferred
<1>2. k'[t] \in {NoCont, [kk[t] EXCEPT !.ob = None], kk[t]}
  BY DEF Forgotten
<1>3. NoCont.ob = None /\ [kk[t] EXCEPT !.ob = None].ob = None
  BY DEF NoCont, Prompting, Cont
<1>4. k'[t] = kk[t]
  BY <1>1, <1>2, <1>3, SessionAssumption
<1>5. k'[t] = k[t] /\ kk[t] = k[t]
  BY <1>4 DEF Stays
<1> DEFINE o == k[t].ob
<1>6. o \in Conn /\ conn'[o] \in {NoConn, cs[o], [cs[o] EXCEPT !.body = None]}
  BY <1>1, <1>5 DEF ConnsLess
<1>7. cs[o] \in ConnRec /\ ~NoConn.live
  BY <1>6 DEF Connections, NoConn
<1>8. conn'[o].name = cs[o].name /\ conn'[o].body \in {cs[o].body, None}
  BY <1>1, <1>5, <1>6, <1>7 DEF ConnRec
<1> QED
  BY <1>4, <1>5, <1>8 DEF Stays

LEMMA LessNames ==
    ASSUME NEW bs \in Bodies, NEW gone
    PROVE  /\ NamesStay(bs) => NamesStay(BodiesLess(bs, gone))
           /\ OneOnce(bs) => OneOnce(BodiesLess(bs, gone))
<1> DEFINE b2 == BodiesLess(bs, gone)
<1>1. \A b \in Body : \/ b2[b] = NoBody
                      \/ /\ b2[b].kind = bs[b].kind /\ b2[b].name = bs[b].name
                         /\ b2[b].once = bs[b].once /\ b2[b].dying = bs[b].dying
  <2> TAKE b \in Body
  <2>1. b2[b] \in {NoBody, bs[b], [bs[b] EXCEPT !.link = None]} /\ bs[b] \in BodyRec
    BY DEF BodiesLess, Bodies
  <2> HIDE DEF b2
  <2> QED
    BY <2>1 DEF BodyRec
<1>2. NoBody.kind = "none" /\ ~NoBody.once
  BY DEF NoBody
<1> HIDE DEF b2
<1>3. NamesStay(bs) => NamesStay(b2)
  BY <1>1, <1>2 DEF NamesStay
<1>4. OneOnce(bs) => OneOnce(b2)
  BY <1>1, <1>2 DEF OneOnce
<1> QED
  BY <1>3, <1>4 DEF b2

\* Bodies bs with the bodies that find_player() finds in b0, and nb.
LEMMA OneMore ==
    ASSUME NEW b0, OneOnce(b0), NEW bs, NEW nb,
           \A b \in Body \ {nb} : bs[b].once =>
              b0[b].once /\ bs[b].name = b0[b].name /\ bs[b].dying = b0[b].dying,
           nb \in Body /\ bs[nb].once =>
              /\ bs[nb].name \in Name /\ ~bs[nb].dying
              /\ bs[nb].name \in Old =>
                    \A d \in Body \ {nb} : bs[d].once => bs[d].name # bs[nb].name
    PROVE  OneOnce(bs)
<1>1. \A b \in Body : bs[b].once => bs[b].name \in Name /\ ~bs[b].dying
  BY DEF OneOnce
<1>2. ASSUME NEW b \in Body, NEW d \in Body, bs[b].once, bs[d].once,
             bs[b].name = bs[d].name, bs[b].name \in Old
      PROVE  b = d
  BY <1>2 DEF OneOnce
<1> QED
  BY <1>1, <1>2 DEF OneOnce

\* What a step of socket s, or of no socket, has to leave as it is.
Quiet == (\A t \in Sock : Stays(t, k', conn')) /\ NamesStay(body') /\ OneOnce(body')
Rest(s) ==
    /\ \A t \in Sock \ {s} : Stays(t, k', conn')
    /\ NamesStay(body') /\ OneOnce(body')
    /\ NamedPrompt(k'[s], conn', body')

LEMMA QuietRest ==
    ASSUME IInv, IInv', Named, OldKept', Quiet \/ \E s \in Sock : Rest(s)
    PROVE  Named'
BY PromptStays DEF Quiet, Rest, Named

LEMMA StaysNow == (\A t \in Sock : Stays(t, k, conn)) /\ NamesStay(body)
BY DEF Stays, NamesStay

\* A prompt that is not a login prompt says nothing.
LEMMA NothingSaid ==
    ASSUME NEW p, p.f \notin LoginPrompts \/ p.f = "get_name", NEW cs, NEW bs
    PROVE  NamedPrompt(p, cs, bs)
BY DEF NamedPrompt, Makes, LoginPrompts, Prompts

LEMMA DestructNamed ==
    ASSUME IInv, IInv', Named, NEW gone, Destruct(gone)
    PROVE  Quiet
<1>1. k \in Prompting /\ conn \in Connections /\ body \in Bodies
  BY Now
<1>2. k' = Forgotten(k, at, gone) /\ conn' = ConnsLess(conn, gone)
        /\ body' = BodiesLess(body, gone)
  BY DEF Destruct
<1>3. \A t \in Sock : Stays(t, k', conn')
  BY <1>1, <1>2, StaysNow, LessStays
<1> QED
  BY <1>1, <1>2, <1>3, StaysNow, LessNames DEF Quiet, Named

\* switch_body() moves the name of the body, and what find_player() finds.
LEMMA SwitchNamed ==
    ASSUME IInv, IInv', Named, NEW b \in Body, body[b].link # None, NEW nb \in FreeBody,
           NEW new, new.name = body[b].name, ~new.dying, NEW dead, NEW gone,
           SwitchBody(b, nb, new, dead, gone), new \in BodyRec, dead \in BOOLEAN,
           NEW kk \in Prompting, \A t \in Sock : kk[t] \in {k[t], NoCont},
           NEW a, k' = Forgotten(kk, a, gone)
    PROVE  Quiet
<1> DEFINE l  == body[b].link
           cs == [conn EXCEPT ![l].body = nb, ![l].dead = dead]
           bs == [body EXCEPT ![nb] = new, ![b].link = None, ![b].once = FALSE,
                              ![b].dying = TRUE]
<1>1. /\ TypeOK /\ k \in Prompting /\ conn \in Connections /\ body \in Bodies
      /\ Shaped(at, k, conn, body) /\ Sound({}, at, k, conn, body)
  BY Now
<1>2. l \in Conn /\ ~In(at, l) /\ body[b].once /\ body[b].kind # "none"
  BY LinkedBody
<1>3. nb \in Body /\ nb # b /\ body[nb] = NoBody
  BY <1>1, <1>2, UnusedBody DEF FreeBody
<1>4. cs \in Connections /\ bs \in Bodies
  BY <1>1, <1>3, SwitchShapes
<1>5. ASSUME NEW t \in Sock PROVE Stays(t, k', conn')
  <2>1. Stays(t, kk, cs)
    <3> SUFFICES ASSUME kk[t].f \in LoginPrompts
                 PROVE  /\ kk[t] = k[t] /\ cs[k[t].ob].name = conn[k[t].ob].name
                        /\ cs[k[t].ob].body \in {conn[k[t].ob].body, None}
      BY DEF Stays
    <3>1. kk[t] = k[t]
      BY DEF NoCont, LoginPrompts
    <3>2. at[t] = k[t].ob
      BY <3>1, NowReferred
    <3>3. k[t].ob # l /\ k[t].ob \in Conn
      BY <1>2, <3>1, <3>2, NowReferred DEF In
    <3>4. cs[k[t].ob] = conn[k[t].ob]
      BY <1>1, <1>2, <3>3 DEF Connections
    <3> QED
      BY <3>1, <3>4
  <2>2. conn' = ConnsLess(cs, gone)
    BY DEF SwitchBody
  <2> HIDE DEF cs
  <2> QED
    BY <1>4, <2>1, <2>2, LessStays
<1>6. /\ bs[nb] = new
      /\ bs[b].name = body[b].name /\ bs[b].kind = body[b].kind /\ ~bs[b].once
      /\ \A d \in Body \ {b, nb} : bs[d] = body[d]
  BY <1>1, <1>3 DEF Bodies, BodyRec
<1>7. body' = BodiesLess(bs, gone)
  BY DEF SwitchBody
<1> HIDE DEF bs
<1>8. NamesStay(bs)
  BY <1>3, <1>6 DEF NamesStay, NoBody
<1>9. OneOnce(bs)
  <2>1. \A d \in Body \ {nb} : bs[d].once =>
           d # b /\ body[d].once /\ bs[d].name = body[d].name /\ bs[d].dying = body[d].dying
    BY <1>6
  <2>2. bs[nb].name = body[b].name /\ ~bs[nb].dying /\ body[b].name \in Name
    BY <1>2, <1>6 DEF Named, OneOnce
  <2>3. bs[nb].name \in Old =>
           \A d \in Body \ {nb} : bs[d].once => bs[d].name # bs[nb].name
    BY <1>2, <2>1, <2>2 DEF Named, OneOnce
  <2> QED
    BY <2>1, <2>2, <2>3, OneMore DEF Named
<1> QED
  BY <1>4, <1>5, <1>7, <1>8, <1>9, LessNames DEF Quiet

LEMMA CompleteSetupNamed ==
    ASSUME IInv, IInv', Named, NEW s \in Sock, CompleteSetup(s)
    PROVE  Quiet
<1> DEFINE b == k[s].ob
           kk == [k EXCEPT ![s] = NoCont]
<1>1. /\ TypeOK /\ k \in Prompting /\ conn \in Connections /\ body \in Bodies
  BY Now
<1>2. /\ b \in Body \cup {None} /\ kk \in Prompting
      /\ \A t \in Sock : kk[t] \in {k[t], NoCont}
      /\ NoCont.f \notin LoginPrompts
  BY <1>1, ContShapes, SessionAssumption
  DEF CompleteSetup, Prompting, Cont, LoginPrompts, NoCont
<1>3. \A t \in Sock : Stays(t, kk, conn)
  BY <1>2 DEF Stays
<1>4. CASE b # None /\ LinkDead(b)
  <2>1. PICK g \in FreeBody :
          SwitchBody(b, g, GhostOf(body[b].name, body[b].link), TRUE, {b})
    BY <1>4 DEF CompleteSetup
  <2>2. k' = Forgotten(kk, at', {b})
    BY <1>4 DEF CompleteSetup
  <2>3. b \in Body /\ body[b].link # None /\ body[b].link \in Conn
        /\ body[b].name \in Name \cup {None}
    BY <1>1, <1>2, <1>4 DEF LinkDead, Bodies, BodyRec
  <2> DEFINE new == GhostOf(body[b].name, body[b].link)
  <2>4. new.name = body[b].name /\ ~new.dying
    BY DEF GhostOf, NoBody
  <2>5. new \in BodyRec
    BY <2>3, BodyShapes
  <2> HIDE DEF new, kk, b
  <2> QED
    BY <1>2, <2>1, <2>2, <2>3, <2>4, <2>5, SwitchNamed DEF new
<1>5. CASE ~(b # None /\ LinkDead(b))
  <2>1. /\ k' = kk /\ conn' = conn
        /\ body' = body \/ (b \in Body /\ body' = [body EXCEPT ![b].env = TRUE])
    BY <1>2, <1>5 DEF CompleteSetup
  <2>2. \A d \in Body : /\ body'[d].kind = body[d].kind /\ body'[d].once = body[d].once
                        /\ body'[d].name = body[d].name /\ body'[d].dying = body[d].dying
    BY <1>1, <2>1 DEF Bodies, BodyRec
  <2>3. NamesStay(body') /\ OneOnce(body')
    BY <2>2 DEF NamesStay, Named, OneOnce
  <2> QED
    BY <1>3, <2>1, <2>3 DEF Quiet
<1> QED
  BY <1>4, <1>5

LEMMA BodyNamed ==
    ASSUME IInv, IInv', Named, NEW b \in Body, BodyStep(b)
    PROVE  Quiet
<1>1. CASE RemoveDead(b) \/ IdleDump(b) \/ Sweep(b) \/ BodyCleanUp(b)
  <2>1. PICK gone : Destruct(gone)
    BY <1>1 DEF RemoveDead, IdleDump, Sweep, BodyCleanUp
  <2> QED
    BY <2>1, DestructNamed
<1>2. CASE Die(b) \/ Revive(b)
  <2>1. /\ TypeOK /\ k \in Prompting /\ body[b].link \in Conn /\ body[b].link # None
        /\ body[b].name \in Name \cup {None}
    BY <1>2, Now DEF Die, Revive, LinkDead, TypeOK, BodyRec
  <2> DEFINE ghost == GhostOf(body[b].name, body[b].link)
             user == [PlayingBody(body[b].name, body[b].link) EXCEPT !.env = TRUE]
  <2>2. /\ ghost \in BodyRec /\ user \in BodyRec
        /\ ghost.name = body[b].name /\ user.name = body[b].name
        /\ ~ghost.dying /\ ~user.dying
    <3>1. PlayingBody(body[b].name, body[b].link) \in BodyRec /\ ghost \in BodyRec
      BY <2>1, BodyShapes
    <3>2. ghost.name = body[b].name /\ ~ghost.dying
      BY DEF GhostOf, NoBody
    <3>3. /\ PlayingBody(body[b].name, body[b].link).name = body[b].name
          /\ ~PlayingBody(body[b].name, body[b].link).dying
      BY DEF PlayingBody, NoBody
    <3> QED
      BY <3>1, <3>2, <3>3 DEF BodyRec
  <2>3. PICK nb \in FreeBody, new \in {ghost, user}, dead \in BOOLEAN, gone \in {{}, {b}} :
          /\ SwitchBody(b, nb, new, dead, gone)
          /\ k' = IF gone = {} THEN k ELSE Forgotten(k, at', gone)
    BY <1>2 DEF Die, Revive
  <2>4. k = Forgotten(k, at', {})
    BY <2>1 DEF Forgotten, Prompting
  <2>5. k' = Forgotten(k, at', gone)
    BY <2>3, <2>4
  <2> HIDE DEF ghost, user
  <2> QED
    BY <2>1, <2>2, <2>3, <2>5, SwitchNamed
<1> QED
  BY <1>1, <1>2 DEF BodyStep

LEMMA ConnNamed ==
    ASSUME IInv, IInv', Named, NEW c \in Conn, ConnStep(c)
    PROVE  Quiet
<1>1. CASE Destruct({c})
  BY <1>1, DestructNamed
<1>2. CASE ~Destruct({c})
  <2>1. /\ UNCHANGED <<k, body>>
        /\ conn' = conn \/ conn' = [conn EXCEPT ![c].timer = FALSE]
    BY <1>2 DEF ConnStep, CheckStatus, CallOutRemove, CleanUp, RemoveConn
  <2>2. \A d \in Conn : conn'[d].name = conn[d].name /\ conn'[d].body = conn[d].body
    BY <2>1, Now DEF Connections, ConnRec
  <2>3. \A t \in Sock : Stays(t, k', conn')
    BY <2>1, <2>2, NowReferred DEF Stays
  <2> QED
    BY <2>1, <2>3, StaysNow DEF Quiet, Named, NamesStay
<1> QED
  BY <1>1, <1>2

\* A step of socket s sets its prompt to p, and connection c to r: c is
\* the one s is in, or new.
LEMMA AnswerNamed ==
    ASSUME IInv, IInv', Named, NEW s \in Sock, NEW c \in Conn, at[s] = c \/ ~conn[c].live,
           NEW p, k' = [k EXCEPT ![s] = p], NEW r, conn' = [conn EXCEPT ![c] = r]
    PROVE  /\ \A t \in Sock \ {s} : Stays(t, k', conn')
           /\ k'[s] = p /\ conn'[c] = r
<1>1. /\ k \in Prompting /\ conn \in Connections /\ SocketsApart
  BY Now DEF IInv
<1>2. k'[s] = p /\ conn'[c] = r
  BY <1>1 DEF Prompting, Connections
<1>3. ASSUME NEW t \in Sock \ {s}, k[t].f \in LoginPrompts
      PROVE  k[t].ob \in Conn \ {c}
  BY <1>3, NowReferred, <1>1, SessionAssumption DEF SocketsApart
<1>4. \A t \in Sock \ {s} : Stays(t, k', conn')
  <2>1. \A t \in Sock \ {s} : k'[t] = k[t]
    BY <1>1 DEF Prompting
  <2>2. \A d \in Conn \ {c} : conn'[d] = conn[d]
    BY <1>1 DEF Connections
  <2> QED
    BY <1>3, <2>1, <2>2 DEF Stays
<1> QED
  BY <1>2, <1>4

\* The prompts of the login daemon that open no body.
LEMMA PromptsNamed ==
    ASSUME IInv, IInv', Named, NEW s \in Sock, NEW c \in Conn,
           \/ GetNameRefused(s, c) \/ WrongPassword(s, c)
           \/ ChooseAgain(s, c) \/ Rejected(s, c)
           \/ \E n \in Name : GetName(s, c, n) \/ GetNewName(s, c, n)
           \/ AskToDisplace(s, c) \/ \E p \in 1 .. MaxPw : NewPass(s, c, p)
    PROVE  Rest(s)
<1>1. /\ k \in Prompting /\ conn \in Connections /\ OneOnce(body) /\ conn[c] \in ConnRec
      /\ \A t \in Sock : NamedPrompt(k[t], conn, body)
  BY Now DEF Named, Connections
<1>2. PICK f \in LoginPrompts : At(s, f, c)
  BY DEF GetNameRefused, WrongPassword, ChooseAgain, Rejected, GetName, GetNewName,
         AskToDisplace, NewPass, LoginPrompts, Prompts
<1>3. at[s] = c /\ k[s].f = f /\ k[s].ob = c
  BY <1>2, Answers
<1>4. UNCHANGED body
  BY DEF GetNameRefused, WrongPassword, ChooseAgain, Rejected, RemoveUser, GetName,
         GetNewName, AskToDisplace, NewPass
<1>5. NamesStay(body') /\ OneOnce(body')
  BY <1>1, <1>4, StaysNow DEF NamesStay
<1>6. ASSUME NEW p, k' = [k EXCEPT ![s] = p], NEW r, conn' = [conn EXCEPT ![c] = r],
             \A cs : cs[c] = r => NamedPrompt(p, cs, body)
      PROVE  Rest(s)
  <2>1. /\ \A t \in Sock \ {s} : Stays(t, k', conn')
        /\ k'[s] = p /\ conn'[c] = r
    BY <1>3, <1>6, AnswerNamed
  <2> QED
    BY <1>4, <1>5, <1>6, <2>1 DEF Rest
<1>7. conn = [conn EXCEPT ![c] = conn[c]]
  BY <1>1 DEF Connections
<1>8. CASE GetNameRefused(s, c) \/ Rejected(s, c)
  BY <1>6, <1>8, NothingSaid DEF GetNameRefused, Rejected, RemoveUser, NoCont, LoginPrompts
<1>9. CASE WrongPassword(s, c)
  <2>1. k[s].f = "get_password" /\ conn[c].name \in Name
    BY <1>1, <1>3, <1>9 DEF WrongPassword, At, NamedPrompt
  <2>2. CASE TooMany(k[s].n)
    BY <1>6, <1>9, <2>2, NothingSaid DEF WrongPassword, NoCont, LoginPrompts
  <2>3. CASE ~TooMany(k[s].n)
    <3> DEFINE p == [k[s] EXCEPT !.n = @ + 1]
    <3>1. k' = [k EXCEPT ![s] = p] /\ conn' = conn
      BY <1>9, <2>3 DEF WrongPassword
    <3>2. p.f = "get_password" /\ p.ob = c
      BY <1>1, <1>3, <2>1 DEF Prompting, Cont
    <3> HIDE DEF p
    <3>3. \A cs : cs[c] = conn[c] => NamedPrompt(p, cs, body)
      BY <2>1, <3>2 DEF NamedPrompt, Makes
    <3> QED
      BY <1>6, <1>7, <3>1, <3>3
  <2> QED
    BY <2>2, <2>3
<1>10. CASE ChooseAgain(s, c)
  BY <1>6, <1>7, <1>10, NothingSaid DEF ChooseAgain, Ask
<1>11. ASSUME NEW n \in Name, GetName(s, c, n)
       PROVE  Rest(s)
  <2> DEFINE r == [conn[c] EXCEPT !.name = n, !.pw = cfile[n].pw, !.dead = cfile[n].dead]
  <2>1. /\ k' = [k EXCEPT ![s] = Retry("get_password", c, 1)]
        /\ conn' = [conn EXCEPT ![c] = r] /\ r.name = n
    BY <1>1, <1>11 DEF GetName, ConnRec, Connections
  <2> HIDE DEF r
  <2>2. \A cs : cs[c] = r => NamedPrompt(Retry("get_password", c, 1), cs, body)
    BY <2>1 DEF NamedPrompt, Retry, Makes
  <2> QED
    BY <1>6, <2>1, <2>2
<1>12. ASSUME NEW n \in Name, GetNewName(s, c, n)
       PROVE  Rest(s)
  <2> DEFINE p == [Ask("choice", c) EXCEPT !.nm = n]
  <2>1. /\ k' = [k EXCEPT ![s] = p] /\ conn' = conn
        /\ p.f = "choice" /\ p.nm = n /\ n \notin OldName
    BY <1>12 DEF GetNewName, Ask, Named, OldKept, Kept
  <2> HIDE DEF p
  <2>2. \A cs : NamedPrompt(p, cs, body)
    BY <2>1 DEF NamedPrompt, Makes
  <2> QED
    BY <1>6, <1>7, <2>1, <2>2
<1>13. CASE AskToDisplace(s, c)
  <2>1. k[s].f = "get_password" /\ conn[c].name \in Name
    BY <1>1, <1>3, <1>13 DEF AskToDisplace, At, NamedPrompt
  <2>2. PICK b \in Players(conn[c].name) : conn' = [conn EXCEPT ![c].body = b]
    BY <1>13 DEF AskToDisplace
  <2> DEFINE r == [conn[c] EXCEPT !.body = b]
  <2>3. /\ k' = [k EXCEPT ![s] = Ask("exec_old_copy", c)]
        /\ conn' = [conn EXCEPT ![c] = r] /\ r.name = conn[c].name /\ r.body = b
    BY <1>1, <1>13, <2>2 DEF AskToDisplace, ConnRec, Connections
  <2>4. body[b].name = conn[c].name
    BY DEF Players
  <2> HIDE DEF r
  <2>5. \A cs : cs[c] = r => NamedPrompt(Ask("exec_old_copy", c), cs, body)
    BY <2>1, <2>3, <2>4 DEF NamedPrompt, Ask, Makes
  <2> QED
    BY <1>6, <2>3, <2>5
<1>14. ASSUME NEW pw \in 1 .. MaxPw, NewPass(s, c, pw)
       PROVE  Rest(s)
  <2>1. k[s].f = "new_pass"
    BY <1>14 DEF NewPass, At
  <2>2. conn[c].name \in Name \ OldName /\ body[conn[c].body].name = conn[c].name
    BY <1>1, <1>3, <2>1 DEF NamedPrompt, Makes, Made
  <2> DEFINE r == [conn[c] EXCEPT !.pw = pw]
  <2>3. /\ k' = [k EXCEPT ![s] = Ask("get_real_name", c)]
        /\ conn' = [conn EXCEPT ![c] = r] /\ r.name = conn[c].name /\ r.body = conn[c].body
    BY <1>1, <1>14 DEF NewPass, ConnRec, Connections
  <2> HIDE DEF r
  <2>4. \A cs : cs[c] = r => NamedPrompt(Ask("get_real_name", c), cs, body)
    BY <2>2, <2>3 DEF NamedPrompt, Ask, Makes, Made
  <2> QED
    BY <1>6, <2>3, <2>4
<1> QED
  BY <1>8, <1>9, <1>10, <1>11, <1>12, <1>13, <1>14

\* choice(): the new body, not yet known to find_player(), has the new name.
LEMMA ChoiceNamed ==
    ASSUME IInv, IInv', Named, NEW s \in Sock, NEW c \in Conn, Choice(s, c)
    PROVE  Rest(s)
<1>1. PICK b \in FreeBody :
        /\ body' = [body EXCEPT ![b].kind = "user", ![b].name = k[s].nm]
        /\ conn' = [conn EXCEPT ![c].name = k[s].nm, ![c].body = b]
  BY DEF Choice
<1> DEFINE r == [conn[c] EXCEPT !.name = k[s].nm, !.body = b]
<1>2. /\ k \in Prompting /\ conn \in Connections /\ body \in Bodies
      /\ Shaped(at, k, conn, body) /\ Sound({}, at, k, conn, body)
  BY Now
<1>3. /\ at[s] = c /\ k[s].f = "choice" /\ k[s].nm \in Name \ OldName
  <2>1. At(s, "choice", c) /\ "choice" \in LoginPrompts
    BY DEF Choice, LoginPrompts, Prompts
  <2>2. at[s] = c /\ k[s].f = "choice"
    BY <2>1, Answers
  <2> QED
    BY <1>2, <2>2 DEF Prompting, Cont, Named, NamedPrompt
<1>4. conn' = [conn EXCEPT ![c] = r] /\ r.name = k[s].nm /\ r.body = b
  BY <1>1, <1>2 DEF Connections, ConnRec
<1>5. k' = [k EXCEPT ![s] = Ask("new_pass", c)]
  BY DEF Choice
<1>6. b \in Body /\ body[b] = NoBody
  BY <1>2, UnusedBody DEF FreeBody
<1>7. /\ body'[b].name = k[s].nm /\ ~body'[b].once
      /\ \A d \in Body \ {b} : body'[d] = body[d]
  BY <1>1, <1>2, <1>6 DEF Bodies, BodyRec, NoBody
<1> HIDE DEF r
<1>8. \A t \in Sock \ {s} : Stays(t, k', conn')
  BY <1>3, <1>4, <1>5, AnswerNamed
<1>9. NamesStay(body')
  BY <1>6, <1>7 DEF NamesStay, NoBody
<1>10. OneOnce(body')
  BY <1>7, OneMore DEF Named
<1>11. k'[s] = Ask("new_pass", c) /\ conn'[c] = r
  BY <1>2, <1>3, <1>4, <1>5 DEF Prompting, Connections
<1>12. NamedPrompt(k'[s], conn', body')
  BY <1>3, <1>4, <1>7, <1>11 DEF NamedPrompt, Ask, Makes, Made
<1> QED
  BY <1>8, <1>9, <1>10, <1>12 DEF Rest

\* get_real_name(): the new body becomes known, under a new name.
LEMMA GetRealNameNamed ==
    ASSUME IInv, IInv', Named, NEW s \in Sock, NEW c \in Conn, GetRealName(s, c)
    PROVE  Rest(s)
<1> DEFINE b == conn[c].body
<1>1. k \in Prompting /\ conn \in Connections /\ body \in Bodies
  BY Now
<1>2. At(s, "get_real_name", c) /\ "get_real_name" \in LoginPrompts
  BY DEF GetRealName, LoginPrompts, Prompts
<1>3. at[s] = c /\ k[s].f = "get_real_name" /\ k[s].ob = c
  BY <1>2, Answers
<1>4. /\ conn[c].name \in Name \ OldName /\ body[b].name = conn[c].name
      /\ b \in Body
  BY <1>3, NowReferred DEF Named, NamedPrompt, Makes, Made
<1>5. /\ k' = [k EXCEPT ![s] = Ask("complete_setup", b)] /\ conn' = conn
      /\ body' = [body EXCEPT ![b] = PlayingBody(conn[c].name, c)]
  BY DEF GetRealName
<1>6. conn' = [conn EXCEPT ![c] = conn[c]]
  BY <1>1, <1>5 DEF Connections
<1>7. /\ body'[b].name = conn[c].name /\ ~body'[b].dying
      /\ \A d \in Body \ {b} : body'[d] = body[d]
  BY <1>1, <1>4, <1>5 DEF Bodies, PlayingBody, NoBody
<1>8. k'[s] = Ask("complete_setup", b)
  BY <1>1, <1>5 DEF Prompting
<1>12. \A t \in Sock \ {s} : Stays(t, k', conn')
  <2> HIDE DEF b
  <2> QED
    BY <1>3, <1>5, <1>6, AnswerNamed
<1>9. NamesStay(body')
  BY <1>4, <1>7 DEF NamesStay
<1>10. OneOnce(body')
  BY <1>4, <1>7, OneMore DEF Named, Old
<1>11. NamedPrompt(k'[s], conn', body')
  BY <1>8, NothingSaid DEF Ask, LoginPrompts
<1> QED
  BY <1>9, <1>10, <1>11, <1>12 DEF Rest

LEMMA ReconnectNamed ==
    ASSUME IInv, IInv', Named, NEW s \in Sock, NEW c \in Conn, Reconnect(s, c)
    PROVE  Rest(s)
<1>1. PICK b \in Body :
        /\ k' = [k EXCEPT ![s] = NoCont] /\ conn' = [conn EXCEPT ![c].body = b]
        /\ body' = [body EXCEPT ![b] = Restarted([body[b] EXCEPT !.link = c])]
  BY DEF Reconnect, Players
<1>2. k \in Prompting /\ conn \in Connections /\ body \in Bodies
  BY Now
<1>3. at[s] = c
  <2>1. At(s, "get_password", c) /\ "get_password" \in LoginPrompts
    BY DEF Reconnect, LoginPrompts, Prompts
  <2> QED
    BY <2>1, Answers
<1>4. conn' = [conn EXCEPT ![c] = [conn[c] EXCEPT !.body = b]]
  BY <1>1, <1>2 DEF Connections
<1>5. k'[s] = NoCont
  BY <1>1, <1>2 DEF Prompting
<1>8. \A t \in Sock \ {s} : Stays(t, k', conn')
  BY <1>1, <1>3, <1>4, AnswerNamed
<1>6. \A d \in Body : /\ body'[d].kind = body[d].kind /\ body'[d].once = body[d].once
                      /\ body'[d].name = body[d].name /\ body'[d].dying = body[d].dying
  <2>1. /\ Restarted([body[b] EXCEPT !.link = c]).kind = body[b].kind
        /\ Restarted([body[b] EXCEPT !.link = c]).once = body[b].once
        /\ Restarted([body[b] EXCEPT !.link = c]).name = body[b].name
        /\ Restarted([body[b] EXCEPT !.link = c]).dying = body[b].dying
    BY <1>2 DEF Restarted, Bodies, BodyRec
  <2>2. body'[b] = Restarted([body[b] EXCEPT !.link = c])
        /\ \A d \in Body \ {b} : body'[d] = body[d]
    BY <1>1, <1>2 DEF Bodies
  <2> QED
    BY <2>1, <2>2
<1>7. NamesStay(body') /\ OneOnce(body')
  BY <1>6 DEF NamesStay, Named, OneOnce
<1> QED
  BY <1>5, <1>7, <1>8, NothingSaid DEF Rest, NoCont, LoginPrompts

\* login_new_copy(), when nobody of that name is in the game or the account is
\* none of an old player.
LEMMA NewCopyNamed ==
    ASSUME IInv, IInv', Named, NEW s \in Sock, NEW c \in Conn, at[s] = c,
           conn[c].name \in Name,
           NEW a, NEW kk \in Prompting, NEW cs \in Connections, NEW bs \in Bodies, NEW fs,
           LoginNewCopy(s, c, a, kk, cs, bs, fs),
           \A t \in Sock \ {s} : Stays(t, kk, cs), NamesStay(bs), OneOnce(bs),
           \A b \in FreeBody : bs[b].kind = "none" /\ ~bs[b].once,
           conn[c].name \in Old =>
              \A d \in Body : bs[d].once => bs[d].name # conn[c].name
    PROVE  Rest(s)
<1>1. PICK b \in FreeBody :
        IF conn[c].name \in ufile
          THEN /\ k' = [kk EXCEPT ![s] = Ask("complete_setup", b)]
               /\ conn' = [cs EXCEPT ![c].body = b]
               /\ body' = [bs EXCEPT ![b] = PlayingBody(conn[c].name, c)]
          ELSE LET gone == IF MayRemove(conn[c].name) THEN {c} ELSE {}
               IN  /\ k' = [Forgotten(kk, a, gone) EXCEPT ![s] = NoCont]
                   /\ conn' = ConnsLess([cs EXCEPT ![c].body = b], gone)
                   /\ body' = [bs EXCEPT ![b].kind = "user"]
  BY DEF LoginNewCopy
<1>2. b \in Body /\ body[b].kind = "none" /\ bs[b].kind = "none" /\ ~bs[b].once
  BY DEF FreeBody
<1> DEFINE c2 == [cs EXCEPT ![c].body = b]
<1>3. c2 \in Connections
  BY <1>2, ConnFields
<1>4. ASSUME NEW t \in Sock \ {s} PROVE Stays(t, kk, c2)
  <2> SUFFICES ASSUME kk[t].f \in LoginPrompts PROVE c2[k[t].ob] = cs[k[t].ob]
    BY <1>4 DEF Stays
  <2>1. kk[t] = k[t]
    BY DEF Stays
  <2>2. k[t].ob = at[t] /\ k[t].ob \in Conn
    BY <2>1, NowReferred
  <2>3. k[t].ob # c
    BY <1>4, <2>2, Now, SessionAssumption DEF IInv, SocketsApart
  <2> QED
    BY <2>2, <2>3 DEF Connections
<1>5. CASE conn[c].name \in ufile
  <2>1. /\ k' = [kk EXCEPT ![s] = Ask("complete_setup", b)] /\ conn' = c2
        /\ body' = [bs EXCEPT ![b] = PlayingBody(conn[c].name, c)]
    BY <1>1, <1>5
  <2> HIDE DEF c2
  <2>2. \A t \in Sock \ {s} : Stays(t, k', conn')
    BY <1>4, <2>1 DEF Stays, Prompting
  <2>3. /\ body'[b].name = conn[c].name /\ ~body'[b].dying
        /\ \A d \in Body \ {b} : body'[d] = bs[d]
    BY <1>2, <2>1 DEF Bodies, PlayingBody, NoBody
  <2>4. NamesStay(body') /\ OneOnce(body')
    BY <1>2, <2>3, OneMore DEF NamesStay
  <2>5. k'[s] = Ask("complete_setup", b)
    BY <2>1 DEF Prompting
  <2>6. NamedPrompt(k'[s], conn', body')
    BY <2>5, NothingSaid DEF Ask, LoginPrompts
  <2> QED
    BY <2>2, <2>4, <2>6 DEF Rest
<1>6. CASE conn[c].name \notin ufile
  <2> DEFINE gone == IF MayRemove(conn[c].name) THEN {c} ELSE {}
             k2 == Forgotten(kk, a, gone)
  <2>1. /\ k' = [k2 EXCEPT ![s] = NoCont] /\ conn' = ConnsLess(c2, gone)
        /\ body' = [bs EXCEPT ![b].kind = "user"]
    BY <1>1, <1>6
  <2> HIDE DEF c2, gone
  <2>2. k'[s] = NoCont /\ \A t \in Sock \ {s} : k'[t] = k2[t]
    BY <2>1 DEF Forgotten
  <2>3. \A t \in Sock \ {s} : Stays(t, k', conn')
    BY <1>3, <1>4, <2>1, <2>2, LessStays
  <2>4. \A d \in Body : /\ body'[d].once = bs[d].once /\ body'[d].name = bs[d].name
                        /\ body'[d].dying = bs[d].dying
                        /\ d # b => body'[d].kind = bs[d].kind
    BY <1>2, <2>1 DEF Bodies, BodyRec
  <2>5. NamesStay(body') /\ OneOnce(body')
    BY <1>2, <2>4 DEF NamesStay, OneOnce
  <2> QED
    BY <2>2, <2>3, <2>5, NothingSaid DEF Rest, NoCont, LoginPrompts
<1> QED
  BY <1>5, <1>6

LEMMA EnterNamed ==
    ASSUME IInv, IInv', Named, NEW s \in Sock, NEW c \in Conn,
           EnterAfresh(s, c) \/ EnterFromLimbo(s, c)
    PROVE  Rest(s)
<1>1. /\ k \in Prompting /\ conn \in Connections /\ body \in Bodies
      /\ Shaped(at, k, conn, body) /\ Sound({}, at, k, conn, body)
      /\ at \in Places /\ OneOnce(body)
  BY Now DEF Named
<1>2. at[s] = c /\ conn[c].name \in Name
  <2>1. At(s, "get_password", c) /\ "get_password" \in LoginPrompts
    BY DEF EnterAfresh, EnterFromLimbo, LoginPrompts, Prompts
  <2>2. at[s] = c /\ k[s].f = "get_password" /\ k[s].ob = c
    BY <2>1, Answers
  <2> QED
    BY <2>2 DEF Named, NamedPrompt
<1>3. \A b \in FreeBody : body[b] = NoBody /\ b \in Body
  BY <1>1, UnusedBody DEF FreeBody
<1>4. CASE EnterAfresh(s, c)
  <2>1. Players(conn[c].name) = {} /\ LoginNewCopy(s, c, at, k, conn, body, cfile)
    BY <1>4 DEF EnterAfresh
  <2>2. \A d \in Body : body[d].once => body[d].name # conn[c].name
    BY <2>1 DEF Players
  <2>3. \A b \in FreeBody : body[b].kind = "none" /\ ~body[b].once
    BY <1>3 DEF NoBody
  <2> QED
    BY <1>1, <1>2, <2>1, <2>2, <2>3, StaysNow, NewCopyNamed
<1>5. CASE EnterFromLimbo(s, c)
  <2>1. PICK b \in Players(conn[c].name) :
          LoginNewCopy(s, c, Closed(at, LimboGone(b, c)), Forgotten(k, at, LimboGone(b, c)),
              ConnsLess(conn, LimboGone(b, c)), BodiesLess(body, LimboGone(b, c)),
              IF MayRemove(conn[c].name) THEN SavedLink(cfile, b) ELSE cfile)
    BY <1>5 DEF EnterFromLimbo
  <2> DEFINE gone == LimboGone(b, c)
             a == Closed(at, gone)
             kk == Forgotten(k, at, gone)
             cs == ConnsLess(conn, gone)
             bs == BodiesLess(body, gone)
  <2>2. a \in Places /\ kk \in Prompting /\ cs \in Connections /\ bs \in Bodies
    BY <1>1, DestructShapes
  <2>3. b \in Body /\ b \in gone /\ body[b].once /\ body[b].name = conn[c].name
    BY DEF LimboGone, Players
  <2>4. NamesStay(bs) /\ OneOnce(bs)
    BY <1>1, StaysNow, LessNames
  <2>5. gone \subseteq Conn \cup Body /\ None \notin gone /\ c \notin gone
    <3>1. gone \subseteq {b} \cup LinkOf(b)
      BY DEF LimboGone, LinkIf
    <3>2. body[b].link # None => body[b].link \in Conn /\ body[b].link # c
      BY <1>2, <2>3, LinkedBody DEF In
    <3> QED
      BY <2>3, <3>1, <3>2, SessionAssumption DEF LinkOf
  <2>6. ASSUME NEW t \in Sock \ {s} PROVE Stays(t, kk, cs)
    <3> SUFFICES ASSUME kk[t].f \in LoginPrompts
                 PROVE  /\ kk[t] = k[t]
                        /\ cs[k[t].ob].name = conn[k[t].ob].name
                        /\ cs[k[t].ob].body \in {conn[k[t].ob].body, None}
      BY DEF Stays
    <3>1. kk[t] \in {NoCont, [k[t] EXCEPT !.ob = None], k[t]} /\ kk[t] # NoCont
      BY DEF Forgotten, NoCont, LoginPrompts
    <3>2. k[t].f \in LoginPrompts
      BY <1>1, <3>1 DEF Prompting, Cont
    <3>3. at[t] = k[t].ob /\ k[t].ob \in Conn
      BY <3>2, NowReferred
    <3>4. at[t] \notin gone
      BY <3>1 DEF Forgotten
    <3>5. kk[t] = k[t]
      BY <3>3, <3>4 DEF Forgotten
    <3>6. cs[k[t].ob] \in {conn[k[t].ob], [conn[k[t].ob] EXCEPT !.body = None]}
      BY <3>3, <3>4 DEF ConnsLess
    <3> QED
      BY <1>1, <3>3, <3>5, <3>6 DEF Connections, ConnRec
  <2>7. \A d \in FreeBody : bs[d].kind = "none" /\ ~bs[d].once
    <3>1. \A d \in FreeBody : bs[d] = NoBody
      <4> TAKE d \in FreeBody
      <4>1. body[d].link = None
        BY <1>3 DEF NoBody
      <4> QED
        BY <1>3, <2>5, <4>1 DEF BodiesLess
    <3> QED
      BY <3>1 DEF NoBody
  <2>8. conn[c].name \in Old =>
           \A d \in Body : bs[d].once => bs[d].name # conn[c].name
    <3> SUFFICES ASSUME conn[c].name \in Old, NEW d \in Body, bs[d].once,
                        bs[d].name = conn[c].name
                 PROVE  FALSE
      OBVIOUS
    <3>1. bs[d] \in {NoBody, body[d], [body[d] EXCEPT !.link = None]}
          /\ (d \in gone => bs[d] = NoBody)
      BY DEF BodiesLess
    <3>2. ~NoBody.once
      BY DEF NoBody
    <3> HIDE DEF bs, gone
    <3>3. d \notin gone /\ body[d].once /\ body[d].name = conn[c].name
      BY <1>1, <3>1, <3>2 DEF Bodies, BodyRec
    <3>4. d = b
      BY <1>1, <2>3, <3>3 DEF OneOnce
    <3> QED
      BY <2>3, <3>3, <3>4
  <2> HIDE DEF gone, a, kk, cs, bs
  <2>9. LoginNewCopy(s, c, a, kk, cs, bs,
                     IF MayRemove(conn[c].name) THEN SavedLink(cfile, b) ELSE cfile)
    BY <2>1 DEF gone, a, kk, cs, bs
  <2> QED
    BY <1>2, <2>2, <2>4, <2>6, <2>7, <2>8, <2>9, NewCopyNamed
<1> QED
  BY <1>4, <1>5

\* A step that takes the prompt of s away, sets up connections cs and bodies
\* bs, and destructs gone.
LEMMA ClearedNamed ==
    ASSUME IInv, IInv', Named, NEW s \in Sock, NEW p \in Cont, p.f \notin LoginPrompts,
           NEW cs \in Connections,
           \A d \in Conn : conn[d].live => cs[d].name = conn[d].name /\ cs[d].body = conn[d].body,
           NEW bs \in Bodies,
           \A d \in Body : /\ bs[d].kind = body[d].kind /\ bs[d].once = body[d].once
                           /\ bs[d].name = body[d].name /\ bs[d].dying = body[d].dying,
           NEW a, NEW gone, k' = Forgotten([k EXCEPT ![s] = p], a, gone),
           conn' = ConnsLess(cs, gone), body' = BodiesLess(bs, gone)
    PROVE  Quiet
<1> DEFINE kk == [k EXCEPT ![s] = p]
<1>1. k \in Prompting /\ kk \in Prompting /\ OneOnce(body)
  BY Now DEF Prompting, Named
<1>2. ASSUME NEW t \in Sock PROVE Stays(t, kk, cs)
  BY <1>1, NowReferred DEF Stays, Prompting
<1>3. NamesStay(bs) /\ OneOnce(bs)
  BY <1>1 DEF NamesStay, OneOnce
<1> HIDE DEF kk
<1>4. \A t \in Sock : Stays(t, k', conn')
  BY <1>1, <1>2, LessStays DEF kk
<1> QED
  BY <1>3, <1>4, LessNames DEF Quiet

LEMMA NothingGone ==
    /\ \A kk \in Prompting : \A a : Forgotten(kk, a, {}) = kk
    /\ \A cs \in Connections : ConnsLess(cs, {}) = cs
    /\ \A bs \in Bodies : BodiesLess(bs, {}) = bs
BY DEF Forgotten, ConnsLess, BodiesLess, Prompting, Connections, Bodies

LEMMA ExecOldCopyNamed ==
    ASSUME IInv, IInv', Named, NEW s \in Sock, NEW c \in Conn,
           ExecOldCopyYes(s, c) \/ ExecOldCopyNo(s, c)
    PROVE  Quiet \/ Rest(s)
<1> DEFINE b == conn[c].body
           kk == [k EXCEPT ![s] = NoCont]
           r == [NoConn EXCEPT !.live = TRUE]
<1>1. /\ k \in Prompting /\ conn \in Connections /\ body \in Bodies
      /\ Shaped(at, k, conn, body) /\ Sound({}, at, k, conn, body)
  BY Now
<1>2. at[s] = c /\ conn[c].name \in Name /\ (b # None => body[b].name = conn[c].name)
  <2>1. At(s, "exec_old_copy", c) /\ "exec_old_copy" \in LoginPrompts
    BY DEF ExecOldCopyYes, ExecOldCopyNo, LoginPrompts, Prompts
  <2>2. at[s] = c /\ k[s].f = "exec_old_copy" /\ k[s].ob = c
    BY <2>1, Answers
  <2> QED
    BY <2>2 DEF Named, NamedPrompt
<1>3. NoCont \in Cont /\ NoCont.f \notin LoginPrompts /\ kk \in Prompting
  BY <1>1, ContShapes DEF NoCont, LoginPrompts, Prompting
<1>4. ASSUME NEW t \in FreeConn
      PROVE  /\ t \in Conn /\ [conn EXCEPT ![t] = r] \in Connections
             /\ \A d \in Conn : conn[d].live => [conn EXCEPT ![t] = r][d] = conn[d]
  <2>1. t \in Conn /\ ~conn[t].live /\ r \in ConnRec
    BY BlankShapes DEF FreeConn
  <2> HIDE DEF r
  <2> QED
    BY <1>1, <2>1 DEF Connections
<1>5. ASSUME b # None, NEW t \in FreeConn, NEW setup \in BOOLEAN, ThrowOut(s, c, b, t, setup)
      PROVE  Quiet
  <2> DEFINE gone == IF MayRemove(conn[c].name) THEN {t} \cup LinkOf(b) ELSE {}
             p == IF setup THEN Ask("complete_setup", b) ELSE NoCont
             a == [Displaced(b, t) EXCEPT ![s] = b]
             old == [conn EXCEPT ![t] = r]
             linked == [body EXCEPT ![b].link = c, ![b].heart = @ \/ setup]
  <2>1. b \in Body
    BY <1>1, <1>5 DEF Connections, ConnRec
  <2>2. p \in Cont /\ p.f \notin LoginPrompts
    BY <1>3, <2>1, ContShapes DEF Ask, LoginPrompts
  <2>3. linked \in Bodies
        /\ \A d \in Body : /\ linked[d].kind = body[d].kind /\ linked[d].once = body[d].once
                            /\ linked[d].name = body[d].name /\ linked[d].dying = body[d].dying
    BY <1>1, <2>1 DEF Bodies, BodyRec
  <2>4. /\ k' = Forgotten([k EXCEPT ![s] = p], a, gone)
        /\ conn' = ConnsLess(old, gone) /\ body' = BodiesLess(linked, gone)
    BY <1>5 DEF ThrowOut
  <2>5. /\ old \in Connections
        /\ \A d \in Conn : conn[d].live => old[d].name = conn[d].name /\ old[d].body = conn[d].body
    BY <1>4
  <2> HIDE DEF p, old, linked, gone, a
  <2> QED
    BY <2>2, <2>3, <2>4, <2>5, ClearedNamed
<1>6. ASSUME k' = kk, UNCHANGED body,
             conn' = conn \/ \E t \in FreeConn : conn' = [conn EXCEPT ![t] = r]
      PROVE  Quiet
  <2>1. /\ conn' \in Connections
        /\ \A d \in Conn : conn[d].live =>
              conn'[d].name = conn[d].name /\ conn'[d].body = conn[d].body
    BY <1>1, <1>4, <1>6
  <2>2. /\ k' = Forgotten([k EXCEPT ![s] = NoCont], at, {})
        /\ conn' = ConnsLess(conn', {}) /\ body' = BodiesLess(body, {})
    BY <1>1, <1>3, <1>6, <2>1, NothingGone
  <2> QED
    BY <1>1, <1>3, <2>1, <2>2, ClearedNamed
<1>7. CASE ExecOldCopyYes(s, c)
  BY <1>5, <1>6, <1>7 DEF ExecOldCopyYes
<1>8. CASE ExecOldCopyNo(s, c)
  <2>1. CASE b # None /\ body[b].name \in Wizard /\ LoginNewCopy(s, c, at, k, conn, body, cfile)
    <3>1. \A d \in FreeBody : body[d].kind = "none" /\ ~body[d].once
      BY <1>1, UnusedBody DEF FreeBody, NoBody
    <3>2. conn[c].name \notin Old
      BY <1>2, <2>1 DEF Old
    <3>3. OneOnce(body)
      BY DEF Named
    <3> QED
      BY <1>1, <1>2, <2>1, <3>1, <3>2, <3>3, StaysNow, NewCopyNamed
  <2> QED
    BY <1>6, <1>8, <2>1 DEF ExecOldCopyNo
<1> QED
  BY <1>7, <1>8

\* Links that open and break, quit and passwd.
LEMMA SocketNamed ==
    ASSUME IInv, IInv', Named, NEW s \in Sock,
           \/ Connect(s) \/ Quit(s) \/ HangUp(s) \/ NetDead(s) \/ Passwd(s)
           \/ \E p \in 0 .. MaxPw : Newpass(s, p)
    PROVE  Quiet \/ (Connect(s) /\ Rest(s))
<1>1. /\ k \in Prompting /\ conn \in Connections /\ body \in Bodies /\ at \in Places
  BY Now
<1>2. NoCont \in Cont /\ NoCont.f \notin LoginPrompts
  BY ContShapes DEF NoCont, LoginPrompts
<1>3. ASSUME NEW p \in Cont, p.f \notin LoginPrompts, k' = [k EXCEPT ![s] = p],
             UNCHANGED <<conn, body>>
      PROVE  Quiet
  <2>1. /\ k' = Forgotten([k EXCEPT ![s] = p], at, {})
        /\ conn' = ConnsLess(conn, {}) /\ body' = BodiesLess(body, {})
    <3>1. [k EXCEPT ![s] = p] \in Prompting
      BY <1>1, <1>3 DEF Prompting
    <3> QED
      BY <1>1, <1>3, <3>1, NothingGone
  <2> QED
    BY <1>1, <1>3, <2>1, ClearedNamed
<1>4. CASE Connect(s)
  <2> DEFINE r == [NoConn EXCEPT !.live = TRUE, !.timer = TRUE]
  <2>1. PICK c \in FreeConn : /\ k' = [k EXCEPT ![s] = Ask("get_name", c)]
                              /\ conn' = [conn EXCEPT ![c] = r]
    BY <1>4 DEF Connect
  <2> DEFINE p == Ask("get_name", c)
  <2>2. c \in Conn /\ ~conn[c].live
    BY DEF FreeConn
  <2>3. UNCHANGED body /\ p.f = "get_name"
    BY <1>4 DEF Connect, Ask
  <2>4. k'[s] = p
    BY <1>1, <2>1 DEF Prompting
  <2> HIDE DEF r, p
  <2>5. \A t \in Sock \ {s} : Stays(t, k', conn')
    BY <2>1, <2>2, AnswerNamed DEF p
  <2>6. NamedPrompt(k'[s], conn', body')
    BY <2>3, <2>4, NothingSaid
  <2> QED
    BY <1>4, <2>3, <2>5, <2>6, StaysNow DEF Rest, Named, NamesStay
<1>5. CASE Quit(s)
  <2>1. PICK gone : Destruct(gone)
    BY <1>5 DEF Quit
  <2> QED
    BY <2>1, DestructNamed
<1>6. CASE HangUp(s)
  BY <1>2, <1>3, <1>6 DEF HangUp
<1>7. CASE NetDead(s)
  <2> DEFINE b == at[s]
             a == [at EXCEPT ![s] = None]
             bs == [body EXCEPT ![b] = NetDeadBody(@)]
             gone == LinkOf(b)
  <2>1. /\ k' = Forgotten([k EXCEPT ![s] = NoCont], a, gone)
        /\ conn' = ConnsLess(conn, gone) /\ body' = BodiesLess(bs, gone)
    BY <1>7 DEF NetDead
  <2>2. /\ bs \in Bodies
        /\ \A d \in Body : /\ bs[d].kind = body[d].kind /\ bs[d].once = body[d].once
                            /\ bs[d].name = body[d].name /\ bs[d].dying = body[d].dying
    <3>1. body[b] \in BodyRec /\ b \in Body
      BY <1>1, <1>7 DEF NetDead, Bodies
    <3>2. /\ NetDeadBody(body[b]) \in BodyRec
          /\ NetDeadBody(body[b]).kind = body[b].kind
          /\ NetDeadBody(body[b]).once = body[b].once
          /\ NetDeadBody(body[b]).name = body[b].name
          /\ NetDeadBody(body[b]).dying = body[b].dying
      BY <3>1 DEF NetDeadBody, BodyRec
    <3>3. /\ bs \in Bodies /\ bs[b] = NetDeadBody(body[b])
          /\ \A d \in Body \ {b} : bs[d] = body[d]
      BY <1>1, <3>1, <3>2 DEF Bodies
    <3> QED
      BY <3>2, <3>3
  <2> HIDE DEF gone, bs, a
  <2> QED
    BY <1>1, <1>2, <2>1, <2>2, ClearedNamed
<1>8. CASE Passwd(s)
  <2> DEFINE p == Ask("newpass", body[at[s]].link)
  <2>1. k' = [k EXCEPT ![s] = p] /\ UNCHANGED <<conn, body>>
    BY <1>8 DEF Passwd
  <2>2. p \in Cont
    BY <1>1, <1>8, ContShapes DEF Passwd, Bodies, BodyRec
  <2>3. p.f \notin LoginPrompts
    BY DEF Ask, LoginPrompts
  <2> HIDE DEF p
  <2> QED
    BY <1>3, <2>1, <2>2, <2>3
<1>9. ASSUME NEW p \in 0 .. MaxPw, Newpass(s, p)
      PROVE  Quiet
  <2> DEFINE l == k[s].ob
             r == IF p = 0 THEN conn[l] ELSE [conn[l] EXCEPT !.pw = p]
             set == [conn EXCEPT ![l] = r]
             gone == IF BodyConnected(l) \/ ~MayRemove(UserOf(at[s])) THEN {} ELSE {l}
  <2>1. CASE l = None
    BY <1>2, <1>3, <1>9, <2>1 DEF Newpass
  <2>2. CASE l # None
    <3>1. /\ k' = Forgotten([k EXCEPT ![s] = NoCont], at, gone)
          /\ conn' = ConnsLess(set, gone) /\ body' = BodiesLess(body, gone)
      BY <1>9, <2>2 DEF Newpass
    <3>2. l \in Conn
      BY <1>1, <1>9, <2>2, SessionAssumption DEF Newpass, Prompting, Cont
    <3>3. conn[l] \in ConnRec /\ r \in ConnRec /\ r.name = conn[l].name /\ r.body = conn[l].body
      BY <1>1, <3>2 DEF Connections, ConnRec
    <3> HIDE DEF r
    <3>4. /\ set \in Connections
          /\ \A d \in Conn : set[d].name = conn[d].name /\ set[d].body = conn[d].body
      BY <1>1, <3>2, <3>3 DEF Connections
    <3> HIDE DEF set, gone
    <3> QED
      BY <1>1, <1>2, <3>1, <3>4, ClearedNamed
  <2> QED
    BY <2>1, <2>2
<1> QED
  BY <1>4, <1>5, <1>6, <1>7, <1>8, <1>9

\* Every step keeps the names, and gives a login prompt only to a socket that
\* opens or had one.
LEMMA StepNamed ==
    ASSUME IInv, IInv', Named, Next
    PROVE  \/ Quiet
           \/ \E s \in Sock : Rest(s) /\ (at[s] = None \/ k[s].f \in LoginPrompts)
           \/ Crash
<1>1. ASSUME NEW s \in Sock, NEW c \in Conn, LoginStep(s, c)
      PROVE  (Quiet \/ Rest(s)) /\ k[s].f \in LoginPrompts
  <2>1. Quiet \/ Rest(s)
    BY <1>1, PromptsNamed, EnterNamed, ReconnectNamed, ExecOldCopyNamed, ChoiceNamed,
       GetRealNameNamed DEF LoginStep
  <2>2. \E f \in LoginPrompts : At(s, f, c)
    BY <1>1 DEF LoginStep, GetNameRefused, WrongPassword, ChooseAgain, Rejected, GetName,
         GetNewName, AskToDisplace, NewPass, EnterAfresh, EnterFromLimbo, Reconnect,
         ExecOldCopyYes, ExecOldCopyNo, Choice, GetRealName, LoginPrompts, Prompts
  <2> QED
    BY <2>1, <2>2 DEF At
<1>2. ASSUME NEW s \in Sock, SocketStep(s), ~\E c \in Conn : LoginStep(s, c)
      PROVE  Quiet \/ (Rest(s) /\ at[s] = None)
  <2>1. Connect(s) => at[s] = None
    BY DEF Connect
  <2>2. CASE CompleteSetup(s)
    BY <2>2, CompleteSetupNamed
  <2>3. CASE Quit(s) \/ HangUp(s) \/ NetDead(s) \/ Passwd(s)
             \/ \E p \in 0 .. MaxPw : Newpass(s, p)
    BY <2>1, <2>3, SocketNamed
  <2> QED
    BY <1>2, <2>1, <2>2, <2>3, SocketNamed DEF SocketStep
<1> QED
  BY <1>1, <1>2, BodyNamed, ConnNamed DEF Next

LEMMA NamedStep ==
    ASSUME IInv, IInv', Named, [Next]_vars
    PROVE  Named'
<1>1. OldKept'
  BY OldStep DEF IInv, Named
<1>2. CASE Crash
  BY <1>1, <1>2, NothingSaid DEF Crash, Named, NoCont, NoBody, OneOnce, LoginPrompts
<1>3. CASE UNCHANGED vars
  BY <1>1, <1>3 DEF vars, Named
<1> QED
  BY <1>1, <1>2, <1>3, StepNamed, QuietRest

LEMMA NamedInit == Init => Named
<1> SUFFICES ASSUME Init PROVE Named
  OBVIOUS
<1>1. OldKept
  BY SessionAssumption DEF Init, OldKept, Kept
<1> QED
  BY <1>1, NothingSaid DEF Init, Named, NoCont, NoBody, OneOnce, LoginPrompts

LEMMA NamedOne == Named => OneBodyPerName
<1> SUFFICES ASSUME Named, NEW n \in Old
             PROVE  Cardinality(Players(n)) <= 1
  BY DEF OneBodyPerName
<1>1. CASE Players(n) = {}
  BY <1>1, FS_EmptySet
<1>2. ASSUME NEW b \in Players(n)
      PROVE  Cardinality(Players(n)) <= 1
  <2>1. Players(n) = {b}
    BY <1>2 DEF Players, Named, OneOnce
  <2>2. Cardinality({b}) = 1
    BY FS_Singleton
  <2> QED
    BY <2>1, <2>2
<1> QED
  BY <1>1, <1>2

\* The names of prompts, connections and bodies agree, in every reachable
\* state, for any sockets, objects and accounts.
THEOREM NamesAgree == Spec => []Named
<1> QED
  BY Invariant, InvStep, NamedInit, NamedStep, PTL DEF Spec

\* find_player() finds at most one body of an account that is old and no
\* wizard's, however its users log in at once, throw each other out, die,
\* revive and break off.
THEOREM OldAccountsHaveOneBody == Spec => []OneBodyPerName
<1> QED
  BY NamesAgree, NamedOne, PTL

-----------------------------------------------------------------------------
(* Session implements Presence *)

\* With sockets a and bodies bs, x is where the account n is played from.
Plays(a, bs, n, x) ==
    \/ x = "out" /\ \A b \in Body : ~(bs[b].once /\ bs[b].name = n)
    \/ \E b \in Body :
          /\ bs[b].once /\ bs[b].name = n
          /\ \/ x \in Sock /\ a[x] = b
             \/ x = "statue" /\ \A s \in Sock : a[s] # b

\* What PlayedBy chooses.
Chosen(a, bs, n) ==
    LET found == {b \in Body : bs[b].once /\ bs[b].name = n}
    IN  IF found = {} THEN "out"
        ELSE LET b == CHOOSE b \in found : TRUE
             IN  IF \E s \in Sock : a[s] = b THEN CHOOSE s \in Sock : a[s] = b
                 ELSE "statue"

LEMMA PlaysChosen ==
    ASSUME NEW a, Apart(a), NEW bs, OneOnce(bs), NEW n \in Old, NEW x, Plays(a, bs, n, x)
    PROVE  Chosen(a, bs, n) = x
<1> DEFINE found == {b \in Body : bs[b].once /\ bs[b].name = n}
<1>1. CASE x = "out" /\ found = {}
  BY <1>1 DEF Chosen
<1>2. ASSUME NEW b \in found, \/ x \in Sock /\ a[x] = b
                              \/ x = "statue" /\ \A s \in Sock : a[s] # b
      PROVE  Chosen(a, bs, n) = x
  <2>1. found = {b} /\ (CHOOSE d \in found : TRUE) = b
    <3>1. found = {b}
      BY <1>2 DEF OneOnce
    <3> QED
      BY <3>1
  <2> HIDE DEF found
  <2>2. Chosen(a, bs, n) = IF \E s \in Sock : a[s] = b THEN CHOOSE s \in Sock : a[s] = b
                           ELSE "statue"
    BY <2>1 DEF Chosen, found
  <2>3. CASE x \in Sock /\ a[x] = b
    <3>1. b # None
      BY <1>2, SessionAssumption DEF found
    <3>2. \A s \in Sock : a[s] = b => s = x
      BY <2>3, <3>1 DEF Apart
    <3>3. (CHOOSE s \in Sock : a[s] = b) = x
      BY <2>3, <3>2
    <3> QED
      BY <2>2, <2>3, <3>3
  <2> QED
    BY <1>2, <2>2, <2>3
<1> QED
  BY <1>1, <1>2 DEF Plays

LEMMA PlaysSome ==
    ASSUME NEW a, NEW bs, NEW n
    PROVE  \E x \in Sock \cup {"out", "statue"} : Plays(a, bs, n, x)
<1>1. CASE \A b \in Body : ~(bs[b].once /\ bs[b].name = n)
  BY <1>1 DEF Plays
<1>2. ASSUME NEW b \in Body, bs[b].once /\ bs[b].name = n
      PROVE  \E x \in Sock \cup {"out", "statue"} : Plays(a, bs, n, x)
  <2>1. CASE \E s \in Sock : a[s] = b
    BY <1>2, <2>1 DEF Plays
  <2>2. CASE \A s \in Sock : a[s] # b
    BY <1>2, <2>2 DEF Plays
  <2> QED
    BY <2>1, <2>2
<1> QED
  BY <1>1, <1>2

\* Who plays n, before and after a step.
LEMMA PlayedNow ==
    ASSUME IInv, Named, NEW n \in Old, NEW x, Plays(at, body, n, x)
    PROVE  PlayedBy(n) = x
<1>1. PlayedBy(n) = Chosen(at, body, n)
  BY DEF PlayedBy, Chosen, Players, Interactive
<1> QED
  BY <1>1, Now, PlaysChosen DEF Named, Sound

LEMMA PlayedThen ==
    ASSUME IInv', Named', NEW n \in Old, NEW x, Plays(at', body', n, x)
    PROVE  PlayedBy(n)' = x
<1>1. PlayedBy(n)' = Chosen(at', body', n)
  BY DEF PlayedBy, Chosen, Players, Interactive
<1>2. Apart(at')
  BY DEF IInv, SocketsApart, Apart
<1> QED
  BY <1>1, <1>2, PlaysChosen DEF Named

\* A body of an account of Old that find_player() finds.
IsOld(bs, b) == bs[b].once /\ bs[b].name \in Old

\* Apart from the bodies in X, sockets a and bodies bs have the present bodies
\* of Old, with the present names and sockets.
Framed(X, a, bs) ==
    \A b \in Body \ X :
        /\ IsOld(bs, b) <=> IsOld(body, b)
        /\ IsOld(body, b) => /\ bs[b].name = body[b].name
                             /\ \A s \in Sock : a[s] = b <=> at[s] = b

\* Then the accounts that no body in X plays are played as they were.
LEMMA FramedKeeps ==
    ASSUME IInv, IInv', Named, Named', NEW X, Framed(X, at', body'), NEW n \in Old,
           \A b \in Body \cap X : /\ ~(body[b].once /\ body[b].name = n)
                                  /\ ~(body'[b].once /\ body'[b].name = n)
    PROVE  PlayedBy(n)' = PlayedBy(n)
<1>1. PICK x \in Sock \cup {"out", "statue"} : Plays(at, body, n, x)
  BY PlaysSome
<1>2. Plays(at', body', n, x)
  <2>1. \A b \in Body : (body[b].once /\ body[b].name = n) <=> (body'[b].once /\ body'[b].name = n)
    BY DEF Framed, IsOld
  <2>2. \A b \in Body : body[b].once /\ body[b].name = n =>
           \A s \in Sock : at'[s] = b <=> at[s] = b
    BY DEF Framed, IsOld
  <2>3. CASE x = "out" /\ \A b \in Body : ~(body[b].once /\ body[b].name = n)
    BY <2>1, <2>3 DEF Plays
  <2>4. ASSUME NEW b \in Body, body[b].once /\ body[b].name = n,
               \/ x \in Sock /\ at[x] = b
               \/ x = "statue" /\ \A s \in Sock : at[s] # b
        PROVE  Plays(at', body', n, x)
    BY <2>1, <2>2, <2>4 DEF Plays
  <2> QED
    BY <1>1, <2>3, <2>4 DEF Plays
<1> QED
  BY <1>1, <1>2, PlayedNow, PlayedThen

\* Destructing the objects in gone takes only their bodies and sockets away.
LEMMA LessFramed ==
    ASSUME NEW X, NEW a, NEW bs \in Bodies, Framed(X, a, bs), NEW gone
    PROVE  Framed(X \cup gone, Closed(a, gone), BodiesLess(bs, gone))
<1> SUFFICES ASSUME NEW b \in Body \ (X \cup gone)
             PROVE  /\ BodiesLess(bs, gone)[b].once = bs[b].once
                    /\ BodiesLess(bs, gone)[b].name = bs[b].name
                    /\ \A s \in Sock : Closed(a, gone)[s] = b <=> a[s] = b
  BY DEF Framed, IsOld
<1>1. BodiesLess(bs, gone)[b] \in {bs[b], [bs[b] EXCEPT !.link = None]} /\ bs[b] \in BodyRec
  BY DEF BodiesLess, Bodies
<1>2. \A s \in Sock : Closed(a, gone)[s] = b <=> a[s] = b
  BY SessionAssumption DEF Closed
<1> QED
  BY <1>1, <1>2 DEF BodyRec

LEMMA FramedNow == Framed({}, at, body)
BY DEF Framed

\* Where a socket is, when the step leaves it alone.
LEMMA PhaseKept ==
    ASSUME NEW s \in Sock, at'[s] = at[s], k'[s].f = k[s].f,
           at[s] \in Body => body'[at[s]].name = body[at[s]].name
    PROVE  Phase(s)' = Phase(s)
BY DEF Phase

\* Who is in a body is in one of an account of Old, or of another.
LEMMA InOld ==
    ASSUME IInv, IInv'
    PROVE  /\ \A s \in Sock : at[s] \in Body =>
                 body[at[s]].once /\ k[s].f \notin LoginPrompts
           /\ \A s \in Sock : at'[s] \in Body =>
                 body'[at'[s]].once /\ k'[s].f \notin LoginPrompts
<1>1. /\ \A s \in Sock : at[s] \in Body => body[at[s]].once
      /\ \A s \in Sock : at'[s] \in Body => body'[at'[s]].once
  BY DEF IInv, NoDangling
<1> QED
  BY <1>1, NowReferred, ThenReferred, SessionAssumption

\* No socket is given a login prompt that had none, but one that opens, and
\* what opens is a login.
Onwards(a, kk) ==
    \A s \in Sock : /\ kk[s].f \in LoginPrompts /\ at[s] # None => k[s].f \in LoginPrompts
                    /\ a[s] # None /\ at[s] = None => kk[s].f \in LoginPrompts

\* In an account of Old.
PlaysOld(a, bs, s) == a[s] \in Body /\ bs[a[s]].name \in Old

LEMMA OutsideMoves ==
    ASSUME IInv, IInv', Onwards(at', k'),
           \A n \in Old : PlayedBy(n)' = PlayedBy(n),
           \A s \in Sock : PlaysOld(at, body, s) <=> PlaysOld(at', body', s)
    PROVE  P!Outside
<1>1. ASSUME NEW s \in Sock
      PROVE  /\ Phase(s)' \in {"closed", "login", "in", "aside"}
             /\ Phase(s)' = Phase(s) \/ <<Phase(s), Phase(s)'>> \in P!Onward
  <2>1. k'[s].f \in LoginPrompts => at'[s] # None
    BY ThenReferred, SessionAssumption
  <2>2. k[s].f \in LoginPrompts => at[s] # None
    BY NowReferred, SessionAssumption
  <2> QED
    BY <2>1, <2>2, SessionAssumption DEF Onwards, Phase, PlaysOld, P!Onward
<1> DEFINE p == [s \in Sock |-> Phase(s)']
<1>2. p \in [Sock -> {"closed", "login", "in", "aside"}]
  BY <1>1
<1>3. \A s \in Sock : \/ p[s] = [t \in Sock |-> Phase(t)][s]
                      \/ <<[t \in Sock |-> Phase(t)][s], p[s]>> \in P!Onward
  BY <1>1
<1>4. [s \in Sock |-> Phase(s)]' = p
  OBVIOUS
<1>5. [n \in Old |-> PlayedBy(n)]' = [n \in Old |-> PlayedBy(n)]
  OBVIOUS
<1> HIDE DEF p
<1> QED
  BY <1>2, <1>3, <1>4, <1>5 DEF P!Outside

\* A step that keeps the invariants.
Steps == IInv /\ IInv' /\ Named /\ Named' /\ Onwards(at', k')

\* It leaves the bodies of Old as they are.
LEMMA OutsideStep ==
    ASSUME Steps, NEW X, Framed(X, at', body'),
           \A b \in Body \cap X : ~IsOld(body, b) /\ ~IsOld(body', b)
    PROVE  P!Outside
<1>1. Framed({}, at', body')
  BY DEF Framed
<1>2. \A n \in Old : PlayedBy(n)' = PlayedBy(n)
  BY <1>1, FramedKeeps DEF Steps
<1>3. \A s \in Sock : PlaysOld(at, body, s) <=> PlaysOld(at', body', s)
  BY <1>1, InOld DEF Framed, IsOld, PlaysOld, Steps
<1> QED
  BY <1>2, <1>3, OutsideMoves DEF Steps

\* The same for a step that destructs the objects in gone at last.
LEMMA LessOutside ==
    ASSUME Steps, NEW X, NEW a, NEW bs \in Bodies, Framed(X, a, bs),
           \A b \in Body \cap X : ~IsOld(body, b) /\ ~IsOld(bs, b),
           NEW gone, at' = Closed(a, gone), body' = BodiesLess(bs, gone),
           \A b \in Body \cap gone : ~IsOld(body, b)
    PROVE  P!Outside
<1>1. Framed(X \cup gone, at', body')
  BY LessFramed
<1>2. ASSUME NEW b \in Body \cap (X \cup gone)
      PROVE  ~IsOld(body, b) /\ ~IsOld(body', b)
  <2>1. CASE b \in gone
    <3>1. body'[b] = NoBody
      BY <2>1 DEF BodiesLess
    <3> QED
      BY <2>1, <3>1 DEF IsOld, NoBody
  <2>2. CASE b \notin gone
    <3>1. body'[b] \in {bs[b], [bs[b] EXCEPT !.link = None]} /\ bs[b] \in BodyRec
      BY <2>2 DEF BodiesLess, Bodies
    <3>2. body'[b].once = bs[b].once /\ body'[b].name = bs[b].name
      BY <3>1 DEF BodyRec
    <3> QED
      BY <1>2, <2>2, <3>2 DEF IsOld
  <2> QED
    BY <2>1, <2>2
<1> QED
  BY <1>1, <1>2, OutsideStep

LEMMA DestructOutside ==
    ASSUME Steps, NEW gone, Destruct(gone), \A b \in Body \cap gone : ~IsOld(body, b)
    PROVE  P!Outside
<1>1. body \in Bodies /\ at' = Closed(at, gone) /\ body' = BodiesLess(body, gone)
  BY Now DEF Steps, Destruct
<1> QED
  BY <1>1, FramedNow, LessOutside

\* Socket s logs in to n of Old, who was played from x.
LEMMA EnterStep ==
    ASSUME Steps, NEW n \in Old, NEW s \in Sock, NEW X, Framed(X, at', body'),
           \A b \in Body \cap X : /\ body[b].once => body[b].name = n
                                  /\ body'[b].once => body'[b].name = n,
           NEW x, Plays(at, body, n, x), Plays(at', body', n, s),
           Phase(s) = "login",
           \A u \in Sock \ {s, x} : Phase(u)' = Phase(u),
           x \in Sock => x # s /\ Phase(x)' \in {"aside", "closed"}
    PROVE  P!Enter(n, s) \/ P!ThrowOut(n, s)
<1> DEFINE ph == [t \in Sock |-> Phase(t)]
           wh == [m \in Old |-> PlayedBy(m)]
<1>1. PlayedBy(n) = x /\ PlayedBy(n)' = s
  BY PlayedNow, PlayedThen DEF Steps
<1>2. ASSUME NEW m \in Old \ {n}
      PROVE  PlayedBy(m)' = PlayedBy(m)
  <2>1. \A b \in Body \cap X : /\ ~(body[b].once /\ body[b].name = m)
                               /\ ~(body'[b].once /\ body'[b].name = m)
    OBVIOUS
  <2> QED
    BY <2>1, FramedKeeps DEF Steps
<1>3. wh' = [wh EXCEPT ![n] = s] /\ wh[n] = x
  <2>1. wh' = [m \in Old |-> PlayedBy(m)'] /\ wh[n] = x
    BY <1>1
  <2>2. \A m \in Old : PlayedBy(m)' = IF m = n THEN s ELSE wh[m]
    BY <1>1, <1>2
  <2> QED
    BY <2>1, <2>2
<1>4. Phase(s)' = "in"
  <2>1. at'[s] \in Body /\ body'[at'[s]].name = n
    BY SessionAssumption DEF Plays
  <2> QED
    BY <2>1, SessionAssumption DEF Phase
<1>5. CASE x \notin Sock
  <2>1. ph' = [ph EXCEPT ![s] = "in"]
    BY <1>4, <1>5
  <2> QED
    BY <1>3, <1>5, <2>1 DEF P!Enter
<1>6. CASE x \in Sock
  <2>1. ph' = [ph EXCEPT ![s] = "in", ![x] = Phase(x)'] /\ x # s
    BY <1>4, <1>6
  <2>2. ph' = [ph EXCEPT ![s] = "in", ![wh[n]] = Phase(x)']
    BY <1>3, <2>1
  <2>3. \E p \in {"aside", "closed"} : ph' = [ph EXCEPT ![s] = "in", ![wh[n]] = p]
    BY <1>6, <2>2
  <2> QED
    BY <1>3, <1>6, <2>3 DEF P!ThrowOut
<1> QED
  BY <1>5, <1>6

\* n of Old is played from nowhere any more.
LEMMA LeaveStep ==
    ASSUME Steps, NEW n \in Old, NEW X, Framed(X, at', body'),
           \A b \in Body \cap X : /\ body[b].once => body[b].name = n
                                  /\ body'[b].once => body'[b].name = n,
           NEW x, Plays(at, body, n, x), NEW y, Plays(at', body', n, y),
           \A u \in Sock \ {x} : Phase(u)' = Phase(u),
           x \in Sock => Phase(x)' = "closed",
           \/ y = "out" /\ x # "out"
           \/ y = "statue" /\ x \in Sock
    PROVE  P!Leave(n) \/ P!Break(n)
<1> DEFINE ph == [t \in Sock |-> Phase(t)]
           wh == [m \in Old |-> PlayedBy(m)]
<1>1. PlayedBy(n) = x /\ PlayedBy(n)' = y
  BY PlayedNow, PlayedThen DEF Steps
<1>2. ASSUME NEW m \in Old \ {n}
      PROVE  PlayedBy(m)' = PlayedBy(m)
  <2>1. \A b \in Body \cap X : /\ ~(body[b].once /\ body[b].name = m)
                               /\ ~(body'[b].once /\ body'[b].name = m)
    OBVIOUS
  <2> QED
    BY <2>1, FramedKeeps DEF Steps
<1>3. wh' = [wh EXCEPT ![n] = y] /\ wh[n] = x
  BY <1>1, <1>2
<1>4. ph' = IF x \in Sock THEN [ph EXCEPT ![x] = "closed"] ELSE ph
  <2>1. CASE x \in Sock
    BY <2>1
  <2>2. CASE x \notin Sock
    BY <2>2
  <2> QED
    BY <2>1, <2>2
<1>5. ph' = IF wh[n] \in Sock THEN [ph EXCEPT ![wh[n]] = "closed"] ELSE ph
  BY <1>3, <1>4
<1> QED
  BY <1>3, <1>5 DEF P!Leave, P!Break, P!LinkClosed

\* Every step goes onwards.
LEMMA NothingOpens ==
    ASSUME TypeOK, Next, ~Crash, NEW t \in Sock, at[t] = None,
           ~Connect(t)
    PROVE  at'[t] = None
<1>1. at \in Places
  BY Typed
<1>2. ASSUME NEW a, a[t] = None, NEW gone PROVE Closed(a, gone)[t] = None
  BY <1>2 DEF Closed
<1>3. ASSUME NEW s \in Sock, NEW c \in Conn, LoginStep(s, c)
      PROVE  at'[t] = None
  <2>1. at[s] # None /\ s # t
    BY <1>3 DEF LoginStep, GetNameRefused, WrongPassword, ChooseAgain, Rejected, GetName,
         GetNewName, AskToDisplace, NewPass, EnterAfresh, EnterFromLimbo, Reconnect,
         ExecOldCopyYes, ExecOldCopyNo, Choice, GetRealName, At
  <2>2. ASSUME NEW a \in Places, a[t] = None, NEW kk, NEW cs, NEW bs, NEW fs,
               LoginNewCopy(s, c, a, kk, cs, bs, fs)
        PROVE  at'[t] = None
    BY <1>2, <2>1, <2>2 DEF LoginNewCopy, Places
  <2>3. CASE EnterAfresh(s, c) \/ ExecOldCopyNo(s, c)
    BY <1>1, <2>2, <2>3 DEF EnterAfresh, ExecOldCopyNo
  <2>4. CASE EnterFromLimbo(s, c)
    <3>1. PICK b \in Body :
            LoginNewCopy(s, c, Closed(at, LimboGone(b, c)), Forgotten(k, at, LimboGone(b, c)),
                ConnsLess(conn, LimboGone(b, c)), BodiesLess(body, LimboGone(b, c)),
                IF MayRemove(conn[c].name) THEN SavedLink(cfile, b) ELSE cfile)
      BY <2>4 DEF EnterFromLimbo, Players
    <3>2. Closed(at, LimboGone(b, c)) \in Places
      BY <1>1 DEF Closed, Places, Objects
    <3> QED
      BY <1>2, <2>2, <3>1, <3>2
  <2>5. CASE ExecOldCopyYes(s, c)
    <3>1. CASE UNCHANGED at
      BY <3>1
    <3>2. ASSUME conn[c].body # None, NEW u, NEW setup, ThrowOut(s, c, conn[c].body, u, setup)
          PROVE  at'[t] = None
      <4>1. [Displaced(conn[c].body, u) EXCEPT ![s] = conn[c].body][t] = None
        BY <2>1, <3>2 DEF Displaced, Moved
      <4> QED
        BY <1>2, <3>2, <4>1 DEF ThrowOut
    <3> QED
      BY <2>5, <3>1, <3>2 DEF ExecOldCopyYes
  <2>6. CASE Reconnect(s, c) \/ GetRealName(s, c)
    BY <1>1, <2>1, <2>6 DEF Reconnect, GetRealName, Places
  <2> QED
    BY <1>3, <2>3, <2>4, <2>5, <2>6
    DEF LoginStep, GetNameRefused, WrongPassword, ChooseAgain, Rejected, RemoveUser, GetName,
        GetNewName, AskToDisplace, NewPass, Choice
<1>4. ASSUME NEW b, b # None, NEW nb, NEW new, NEW dead, NEW gone, SwitchBody(b, nb, new, dead, gone)
      PROVE  at'[t] = None
  BY <1>4 DEF SwitchBody, Moved
<1>5. ASSUME NEW s \in Sock, SocketStep(s), ~\E c \in Conn : LoginStep(s, c)
      PROVE  at'[t] = None
  <2>1. CASE CompleteSetup(s)
    <3>1. \/ at' = at
          \/ /\ k[s].ob # None
             /\ \E g : SwitchBody(k[s].ob, g, GhostOf(body[k[s].ob].name, body[k[s].ob].link),
                                  TRUE, {k[s].ob})
      BY <2>1 DEF CompleteSetup
    <3> QED
      BY <1>4, <3>1
  <2>2. CASE Connect(s)
    BY <1>1, <2>2 DEF Connect, Places
  <2>3. CASE Quit(s)
    BY <1>2, <2>3 DEF Quit, Destruct
  <2>4. CASE HangUp(s) \/ NetDead(s)
    <3>1. [at EXCEPT ![s] = None][t] = None
      BY <1>1 DEF Places
    <3>2. Closed([at EXCEPT ![s] = None], LinkOf(at[s]))[t] = None
      BY <1>2, <3>1
    <3>3. at' = [at EXCEPT ![s] = None] \/ at' = Closed([at EXCEPT ![s] = None], LinkOf(at[s]))
      BY <2>4 DEF HangUp, NetDead
    <3> QED
      BY <3>1, <3>2, <3>3
  <2>5. ASSUME NEW p \in 0 .. MaxPw, Newpass(s, p)
        PROVE  at'[t] = None
    BY <1>2, <2>5 DEF Newpass
  <2> QED
    BY <1>5, <2>1, <2>2, <2>3, <2>4, <2>5 DEF SocketStep, Passwd
<1>6. ASSUME NEW b \in Body, BodyStep(b)
      PROVE  at'[t] = None
  <2>1. b # None
    BY SessionAssumption
  <2>2. CASE Die(b) \/ Revive(b)
    BY <1>4, <2>1, <2>2 DEF Die, Revive
  <2>3. CASE RemoveDead(b) \/ IdleDump(b) \/ Sweep(b) \/ BodyCleanUp(b)
    BY <1>2, <2>3 DEF RemoveDead, IdleDump, Sweep, BodyCleanUp, Destruct
  <2> QED
    BY <1>6, <2>2, <2>3 DEF BodyStep
<1>7. ASSUME NEW c \in Conn, ConnStep(c)
      PROVE  at'[t] = None
  BY <1>2, <1>7 DEF ConnStep, CheckStatus, CallOutRemove, CleanUp, RemoveConn, Destruct
<1> QED
  BY <1>3, <1>5, <1>6, <1>7 DEF Next

LEMMA OnwardStep ==
    ASSUME IInv, IInv', Named, Next, ~Crash
    PROVE  Onwards(at', k')
<1> SUFFICES ASSUME NEW t \in Sock
             PROVE  /\ k'[t].f \in LoginPrompts /\ at[t] # None => k[t].f \in LoginPrompts
                    /\ at'[t] # None /\ at[t] = None => k'[t].f \in LoginPrompts
  BY DEF Onwards
<1>1. TypeOK /\ k \in Prompting
  BY Now
<1>2. CASE Connect(t)
  BY <1>1, <1>2 DEF Connect, Prompting, Ask, LoginPrompts, Prompts
<1>3. CASE ~Connect(t)
  <2>1. at[t] = None => at'[t] = None
    BY <1>1, <1>3, NothingOpens
  <2>2. k'[t].f \in LoginPrompts /\ at[t] # None => k[t].f \in LoginPrompts
    BY StepNamed DEF Quiet, Rest, Stays
  <2> QED
    BY <2>1, <2>2
<1> QED
  BY <1>2, <1>3

\* Prompts that move nobody, and sockets that open, or break at a login prompt.
LEMMA StillOutside ==
    ASSUME Steps, UNCHANGED <<at, body>>
    PROVE  P!Outside
BY FramedNow, OutsideStep

LEMMA LinkOutside ==
    ASSUME Steps, NEW s \in Sock, Connect(s) \/ HangUp(s)
    PROVE  P!Outside
<1>1. at \in Places /\ UNCHANGED body
  BY Now DEF Connect, HangUp, Steps
<1>2. /\ \A t \in Sock \ {s} : at'[t] = at[t]
      /\ at[s] \notin Body /\ at'[s] \notin Body
  BY <1>1, SessionAssumption DEF Connect, HangUp, Places, FreeConn
<1>3. Framed({}, at', body')
  BY <1>1, <1>2 DEF Framed
<1> QED
  BY <1>3, OutsideStep

LEMMA PasswdOutside ==
    ASSUME Steps, NEW s \in Sock, NEW p \in 0 .. MaxPw, Newpass(s, p)
    PROVE  P!Outside
<1> DEFINE l == k[s].ob
           gone == IF BodyConnected(l) \/ ~MayRemove(UserOf(at[s])) THEN {} ELSE {l}
<1>1. CASE l = None
  BY <1>1, StillOutside DEF Newpass
<1>2. CASE l # None
  <2>1. at' = Closed(at, gone) /\ body' = BodiesLess(body, gone)
    BY <1>2 DEF Newpass
  <2>2. k \in Prompting /\ body \in Bodies
    BY Now DEF Steps
  <2>3. l \in Conn /\ l \notin Body
    BY <1>2, <2>2, SessionAssumption DEF Newpass, Prompting, Cont
  <2>4. \A b \in Body \cap gone : ~IsOld(body, b)
    BY <2>3
  <2> HIDE DEF gone
  <2> QED
    BY <2>1, <2>2, <2>4, FramedNow, LessOutside
<1> QED
  BY <1>1, <1>2

LEMMA ConnOutside ==
    ASSUME Steps, NEW c \in Conn, ConnStep(c)
    PROVE  P!Outside
<1>1. Destruct({c}) \/ UNCHANGED <<at, body>>
  BY DEF ConnStep, CheckStatus, CallOutRemove, CleanUp, RemoveConn
<1> QED
  BY <1>1, DestructOutside, StillOutside, SessionAssumption

\* The new body of a new account.
LEMMA NewAccountOutside ==
    ASSUME Steps, NEW s \in Sock, NEW c \in Conn, Choice(s, c) \/ GetRealName(s, c)
    PROVE  P!Outside
<1>1. /\ Shaped(at, k, conn, body) /\ Sound({}, at, k, conn, body)
      /\ at \in Places /\ body \in Bodies
  BY Now DEF Steps
<1>2. CASE Choice(s, c)
  <2>1. PICK b \in FreeBody : body' = [body EXCEPT ![b].kind = "user", ![b].name = k[s].nm]
    BY <1>2 DEF Choice
  <2>2. b \in Body /\ ~body[b].once
    BY <1>1, UnusedBody DEF FreeBody, NoBody
  <2>3. ~body'[b].once /\ \A d \in Body \ {b} : body'[d] = body[d]
    BY <1>1, <2>1, <2>2 DEF Bodies, BodyRec
  <2>4. UNCHANGED at
    BY <1>2 DEF Choice
  <2>5. Framed({b}, at', body')
    BY <2>3, <2>4 DEF Framed, IsOld
  <2> QED
    BY <2>2, <2>3, <2>5, OutsideStep DEF IsOld
<1>3. CASE GetRealName(s, c)
  <2> DEFINE b == conn[c].body
  <2>1. At(s, "get_real_name", c) /\ "get_real_name" \in LoginPrompts
    BY <1>3 DEF GetRealName, LoginPrompts, Prompts
  <2>2. at[s] = c /\ Makes(k[s]) /\ k[s].ob = c
    BY <2>1, Answers DEF Steps, Makes
  <2>3. b \in Body /\ ~body[b].once /\ conn[c].name \notin Old
    BY <2>2, MadeBodies DEF Steps, Named, NamedPrompt, Made, Old
  <2>4. /\ at' = [at EXCEPT ![s] = b]
        /\ body' = [body EXCEPT ![b] = PlayingBody(conn[c].name, c)]
    BY <1>3 DEF GetRealName
  <2>5. /\ \A t \in Sock \ {s} : at'[t] = at[t]
        /\ at'[s] = b /\ at[s] \notin Body
    BY <1>1, <2>2, <2>4, SessionAssumption DEF Places
  <2>6. body'[b].name = conn[c].name /\ \A d \in Body \ {b} : body'[d] = body[d]
    BY <1>1, <2>3, <2>4 DEF Bodies, PlayingBody, NoBody
  <2> HIDE DEF b
  <2>7. Framed({b}, at', body')
    BY <2>5, <2>6 DEF Framed, IsOld
  <2> QED
    BY <2>3, <2>6, <2>7, OutsideStep DEF IsOld
<1> QED
  BY <1>2, <1>3

\* The body of an account of Old that somebody or nobody plays is the one that
\* find_player() finds.
LEMMA PlaysHere ==
    ASSUME Named, NEW n \in Old, NEW b \in Players(n), NEW x, Plays(at, body, n, x)
    PROVE  \/ x \in Sock /\ at[x] = b
           \/ x = "statue" /\ \A u \in Sock : at[u] # b
<1>1. \A d \in Body : body[d].once /\ body[d].name = n => d = b
  BY DEF Named, OneOnce, Players
<1> QED
  BY <1>1 DEF Plays, Players

\* Sockets that no step of another's moves, and whose bodies keep their names.
LEMMA OthersStay ==
    ASSUME NEW U, \A u \in U : u \in Sock /\ at'[u] = at[u] /\ k'[u].f = k[u].f,
           \A u \in U : at[u] \in Body => body'[at[u]].name = body[at[u]].name
    PROVE  \A u \in U : Phase(u)' = Phase(u)
BY PhaseKept

\* A link whose prompt is a login prompt is logging in.
LEMMA LoggingIn ==
    ASSUME IInv, NEW s \in Sock, NEW c \in Conn, NEW f \in LoginPrompts, At(s, f, c)
    PROVE  Phase(s) = "login" /\ at[s] = c /\ at[s] \notin Body
<1>1. at[s] = c /\ k[s].f \in LoginPrompts
  BY Answers
<1> QED
  BY <1>1, SessionAssumption DEF Phase

\* login_new_copy() leaves the bodies bs and sockets a as they were, apart from
\* the new body b; if find_player() finds b, it is the account's.
NewCopy(s, n, X, a, kk, bs, b) ==
    /\ Framed(X \cup {b}, at', body')
    /\ \A d \in Body \ {b} : body'[d] = bs[d]
    /\ body'[b].once => body'[b].name = n
    /\ n \in ufile => /\ at' = [a EXCEPT ![s] = b]
                      /\ \E p : k' = [kk EXCEPT ![s] = p]
                      /\ body'[b].once /\ body'[b].name = n

LEMMA NewCopyFramed ==
    ASSUME NEW s \in Sock, NEW c \in Conn, NEW X,
           NEW a \in Places, a[s] = c, NEW bs \in Bodies, Framed(X, a, bs),
           NEW kk, NEW cs, NEW fs, LoginNewCopy(s, c, a, kk, cs, bs, fs),
           \A d \in FreeBody : ~bs[d].once
    PROVE  \E b \in FreeBody : NewCopy(s, conn[c].name, X, a, kk, bs, b)
<1>1. PICK b \in FreeBody :
         IF conn[c].name \in ufile
           THEN /\ at' = [a EXCEPT ![s] = b]
                /\ k' = [kk EXCEPT ![s] = Ask("complete_setup", b)]
                /\ body' = [bs EXCEPT ![b] = PlayingBody(conn[c].name, c)]
           ELSE /\ \E gone \in {{}, {c}} : at' = Closed(a, gone)
                /\ body' = [bs EXCEPT ![b].kind = "user"]
  BY DEF LoginNewCopy
<1>2. b \in Body /\ bs[b] \in BodyRec /\ ~bs[b].once
  BY <1>1 DEF FreeBody, Bodies
<1>3. CASE conn[c].name \in ufile
  <2>1. /\ at' = [a EXCEPT ![s] = b] /\ body' = [bs EXCEPT ![b] = PlayingBody(conn[c].name, c)]
        /\ \E p : k' = [kk EXCEPT ![s] = p]
    BY <1>1, <1>3
  <2>2. /\ \A d \in Body \ {b} : body'[d] = bs[d]
        /\ body'[b].once /\ body'[b].name = conn[c].name
    BY <1>2, <2>1 DEF Bodies, PlayingBody, NoBody
  <2>3. \A d \in Body \ {b} : \A u \in Sock : at'[u] = d <=> a[u] = d
    BY <2>1, SessionAssumption DEF Places
  <2>4. Framed(X \cup {b}, at', body')
    BY <2>2, <2>3 DEF Framed, IsOld
  <2> QED
    BY <2>1, <2>2, <2>4 DEF NewCopy
<1>4. CASE conn[c].name \notin ufile
  <2>1. PICK gone \in {{}, {c}} : at' = Closed(a, gone)
    BY <1>1, <1>4
  <2>2. body' = [bs EXCEPT ![b].kind = "user"]
    BY <1>1, <1>4
  <2>3. /\ \A d \in Body \ {b} : body'[d] = bs[d]
        /\ ~body'[b].once
    BY <1>2, <2>2 DEF Bodies, BodyRec
  <2>4. \A d \in Body : \A u \in Sock : at'[u] = d <=> a[u] = d
    BY <2>1, SessionAssumption DEF Closed
  <2>5. Framed(X \cup {b}, at', body')
    BY <2>3, <2>4 DEF Framed, IsOld
  <2> QED
    BY <1>4, <2>3, <2>5 DEF NewCopy
<1> QED
  BY <1>3, <1>4

\* get_password(), nobody of that name in the game.
LEMMA AfreshSteps ==
    ASSUME Steps, NEW s \in Sock, NEW c \in Conn,
           \/ EnterAfresh(s, c)
           \/ ExecOldCopyNo(s, c) /\ conn[c].name \notin Old
              /\ LoginNewCopy(s, c, at, k, conn, body, cfile)
    PROVE  \/ P!Outside
           \/ \E n \in Old : P!Enter(n, s) \/ P!ThrowOut(n, s)
<1> DEFINE n == conn[c].name
<1>1. /\ Shaped(at, k, conn, body) /\ Sound({}, at, k, conn, body)
      /\ at \in Places /\ body \in Bodies /\ k \in Prompting
  BY Now DEF Steps
<1>2. PICK f \in LoginPrompts : At(s, f, c)
  BY DEF EnterAfresh, ExecOldCopyNo, LoginPrompts, Prompts
<1>3. Phase(s) = "login" /\ at[s] = c /\ at[s] \notin Body
  BY <1>2, LoggingIn DEF Steps
<1>4. LoginNewCopy(s, c, at, k, conn, body, cfile)
  BY DEF EnterAfresh
<1>5. \A d \in FreeBody : d \in Body /\ ~body[d].once /\ ~In(at, d)
  BY <1>1, UnusedBody DEF FreeBody, NoBody
<1>6. PICK b \in FreeBody : NewCopy(s, n, {}, at, k, body, b)
  BY <1>1, <1>3, <1>4, <1>5, FramedNow, NewCopyFramed
<1>7. CASE n \notin Old
  <2>1. ~IsOld(body, b) /\ ~IsOld(body', b)
    BY <1>5, <1>6, <1>7 DEF IsOld, NewCopy
  <2>2. Framed({b}, at', body')
    BY <1>6 DEF NewCopy
  <2> QED
    BY <2>1, <2>2, OutsideStep
<1>8. CASE n \in Old
  <2>1. n \in ufile /\ EnterAfresh(s, c)
    BY <1>8 DEF Steps, Named, OldKept, Old
  <2>2. Plays(at, body, n, "out")
    BY <2>1 DEF EnterAfresh, Players, Plays
  <2>3. at'[s] = b /\ Plays(at', body', n, s)
    BY <1>1, <1>5, <1>6, <2>1 DEF Plays, Places, NewCopy
  <2>4. \A u \in Sock \ {s} : at'[u] = at[u] /\ k'[u].f = k[u].f
    BY <1>1, <1>6, <2>1 DEF Places, Prompting, NewCopy
  <2>5. \A u \in Sock \ {s} : at[u] \in Body => body'[at[u]].name = body[at[u]].name
    BY <1>5, <1>6 DEF In, NewCopy
  <2>6. \A u \in Sock \ {s} : Phase(u)' = Phase(u)
    BY <2>4, <2>5, OthersStay
  <2>7. "out" \notin Sock /\ Framed({b}, at', body')
    BY <1>6, SessionAssumption DEF NewCopy
  <2>8. \A d \in Body \cap {b} : /\ body[d].once => body[d].name = n
                                 /\ body'[d].once => body'[d].name = n
    BY <1>5, <1>6 DEF NewCopy
  <2> HIDE DEF n
  <2>9. P!Enter(n, s) \/ P!ThrowOut(n, s)
    BY <1>3, <1>8, <2>2, <2>3, <2>6, <2>7, <2>8, EnterStep
  <2> QED
    BY <1>8, <2>9
<1> QED
  BY <1>7, <1>8

\* get_password(), a body in limbo: it goes, and whoever is in it with it.
LEMMA LimboSteps ==
    ASSUME Steps, NEW s \in Sock, NEW c \in Conn, EnterFromLimbo(s, c)
    PROVE  \/ P!Outside
           \/ \E n \in Old : P!Enter(n, s) \/ P!ThrowOut(n, s)
<1> DEFINE n == conn[c].name
<1>1. /\ Shaped(at, k, conn, body) /\ Sound({}, at, k, conn, body)
      /\ at \in Places /\ body \in Bodies /\ k \in Prompting /\ conn \in Connections
  BY Now DEF Steps
<1>2. At(s, "get_password", c) /\ "get_password" \in LoginPrompts
  BY DEF EnterFromLimbo, LoginPrompts, Prompts
<1>3. Phase(s) = "login" /\ at[s] = c /\ at[s] \notin Body
  BY <1>2, LoggingIn DEF Steps
<1>4. PICK b0 \in Players(n) :
        LoginNewCopy(s, c, Closed(at, LimboGone(b0, c)), Forgotten(k, at, LimboGone(b0, c)),
            ConnsLess(conn, LimboGone(b0, c)), BodiesLess(body, LimboGone(b0, c)),
            IF MayRemove(n) THEN SavedLink(cfile, b0) ELSE cfile)
  BY DEF EnterFromLimbo
<1> DEFINE gone == LimboGone(b0, c)
           a == Closed(at, gone)
           kk == Forgotten(k, at, gone)
           bs == BodiesLess(body, gone)
<1>5. b0 \in Body /\ b0 \in gone /\ body[b0].once /\ body[b0].name = n
  BY DEF LimboGone, Players
<1>6. gone \subseteq Conn \cup {b0} /\ None \notin gone /\ c \notin gone
  <2>1. gone \subseteq {b0} \cup LinkOf(b0)
    BY DEF LimboGone, LinkIf
  <2>2. body[b0].link # None => body[b0].link \in Conn /\ body[b0].link # c
    BY <1>3, <1>5, LinkedBody DEF In, Steps
  <2> QED
    BY <1>5, <2>1, <2>2, SessionAssumption DEF LinkOf
<1>7. a \in Places /\ kk \in Prompting /\ bs \in Bodies /\ a[s] = c
  <2>1. a \in Places /\ kk \in Prompting /\ bs \in Bodies
    BY <1>1, DestructShapes
  <2>2. a[s] = c
    BY <1>3, <1>6 DEF Closed
  <2> QED
    BY <2>1, <2>2
<1>8. \A d \in FreeBody : /\ d \in Body /\ d # b0 /\ ~body[d].once /\ ~bs[d].once
                          /\ ~In(at, d)
  <2> TAKE d \in FreeBody
  <2>1. d \in Body /\ body[d] = NoBody /\ ~In(at, d) /\ ~NoBody.once
    <3>1. d \in Body /\ body[d].kind = "none" /\ ~NoBody.once
      BY DEF FreeBody, NoBody
    <3> QED
      BY <1>1, <3>1, UnusedBody
  <2>2. bs[d] \in {NoBody, body[d], [body[d] EXCEPT !.link = None]}
    BY <2>1 DEF BodiesLess
  <2>3. ~[body[d] EXCEPT !.link = None].once
    BY <2>1 DEF NoBody
  <2> QED
    BY <1>5, <2>1, <2>2, <2>3
<1>9. Framed(gone, a, bs)
  BY <1>1, FramedNow, LessFramed
<1> HIDE DEF a, kk, bs, gone
<1>10. PICK b \in FreeBody : NewCopy(s, n, gone, a, kk, bs, b)
  <2>1. LoginNewCopy(s, c, a, kk, ConnsLess(conn, gone), bs,
                     IF MayRemove(n) THEN SavedLink(cfile, b0) ELSE cfile)
    BY <1>4 DEF a, kk, bs, gone
  <2>2. \A d \in FreeBody : ~bs[d].once
    BY <1>8
  <2> QED
    BY <1>7, <1>9, <2>1, <2>2, NewCopyFramed
<1>11. b \in Body /\ b # b0 /\ ~body[b].once /\ ~In(at, b)
  BY <1>8
<1>12. body'[b0] = NoBody /\ ~NoBody.once
  <2>1. bs[b0] = NoBody
    BY <1>5 DEF bs, BodiesLess
  <2> QED
    BY <1>5, <1>10, <1>11, <2>1 DEF NewCopy, NoBody
<1>13. Framed({b0, b}, at', body')
  <2>1. Framed(gone \cup {b}, at', body')
    BY <1>10 DEF NewCopy
  <2>2. \A d \in Body \ {b0, b} : d \notin gone \cup {b}
    BY <1>6, SessionAssumption
  <2> QED
    BY <2>1, <2>2 DEF Framed
<1>14. CASE n \notin Old
  <2>1. \A d \in Body \cap {b0, b} : ~IsOld(body, d) /\ ~IsOld(body', d)
    BY <1>5, <1>10, <1>11, <1>12, <1>14 DEF IsOld, NewCopy
  <2> QED
    BY <1>13, <2>1, OutsideStep
<1>15. CASE n \in Old
  <2>1. n \in ufile /\ gone = {b0}
    BY <1>15, SessionAssumption DEF Steps, Named, OldKept, Old, LimboGone, LinkIf, MayRemove, gone
  <2>2. /\ at' = [a EXCEPT ![s] = b] /\ \E p : k' = [kk EXCEPT ![s] = p]
        /\ body'[b].once /\ body'[b].name = n
    BY <1>10, <2>1 DEF NewCopy
  <2>3. at'[s] = b /\ Plays(at', body', n, s)
    BY <1>7, <1>11, <2>2 DEF Plays, Places
  <2>4. PICK x \in Sock \cup {"out", "statue"} : Plays(at, body, n, x)
    BY PlaysSome
  <2>5. \/ x \in Sock /\ at[x] = b0
        \/ x = "statue" /\ \A u \in Sock : at[u] # b0
    BY <1>15, <2>4, PlaysHere DEF Steps
  <2>6. \A u \in Sock \ {s, x} : at[u] # b0
    <3>1. Apart(at) /\ b0 # None
      BY <1>1, <1>5, SessionAssumption DEF Sound
    <3> QED
      BY <2>5, <3>1 DEF Apart
  <2>7. \A u \in Sock \ {s, x} : at'[u] = at[u] /\ k'[u].f = k[u].f
    <3> TAKE u \in Sock \ {s, x}
    <3>1. a[u] = at[u] /\ at'[u] = a[u]
      BY <1>7, <2>1, <2>2, <2>6 DEF a, Closed, Places
    <3>2. kk[u] \in {k[u], [k[u] EXCEPT !.ob = None]} /\ k'[u] = kk[u]
      BY <1>7, <2>1, <2>2, <2>6 DEF kk, Forgotten, Prompting
    <3>3. kk[u].f = k[u].f
      BY <1>1, <3>2 DEF Prompting, Cont
    <3> QED
      BY <3>1, <3>2, <3>3
  <2>8. \A u \in Sock \ {s, x} : at[u] \in Body => body'[at[u]].name = body[at[u]].name
    <3> SUFFICES ASSUME NEW u \in Sock \ {s, x}, at[u] \in Body
                 PROVE  body'[at[u]].name = body[at[u]].name
      OBVIOUS
    <3>1. at[u] # b0 /\ at[u] # b
      BY <1>11, <2>6 DEF In
    <3>2. body'[at[u]] = bs[at[u]]
      BY <1>10, <3>1 DEF NewCopy
    <3>3. bs[at[u]] \in {body[at[u]], [body[at[u]] EXCEPT !.link = None]}
      BY <2>1, <3>1 DEF bs, BodiesLess
    <3> QED
      BY <1>1, <3>2, <3>3 DEF Bodies, BodyRec
  <2>9. \A u \in Sock \ {s, x} : Phase(u)' = Phase(u)
    BY <2>7, <2>8, OthersStay
  <2>10. x \in Sock => x # s /\ Phase(x)' = "closed"
    <3> SUFFICES ASSUME x \in Sock PROVE x # s /\ Phase(x)' = "closed"
      OBVIOUS
    <3>1. at[x] = b0
      BY <2>5, SessionAssumption
    <3>2. x # s
      BY <1>3, <1>5, <3>1
    <3>3. a[x] = None
      BY <1>5, <3>1 DEF a, Closed
    <3>4. at'[x] = None
      BY <1>7, <2>2, <3>2, <3>3 DEF Places
    <3> QED
      BY <3>2, <3>4 DEF Phase
  <2>11. \A d \in Body \cap {b0, b} : /\ body[d].once => body[d].name = n
                                      /\ body'[d].once => body'[d].name = n
    BY <1>5, <1>11, <1>12, <2>2
  <2> HIDE DEF n
  <2>12. P!Enter(n, s) \/ P!ThrowOut(n, s)
    BY <1>3, <1>13, <1>15, <2>3, <2>4, <2>9, <2>10, <2>11, EnterStep
  <2> QED
    BY <1>15, <2>12
<1> QED
  BY <1>14, <1>15

\* get_password(), a net-dead body.
LEMMA ReconnectSteps ==
    ASSUME Steps, NEW s \in Sock, NEW c \in Conn, Reconnect(s, c)
    PROVE  \/ P!Outside
           \/ \E n \in Old : P!Enter(n, s) \/ P!ThrowOut(n, s)
<1> DEFINE n == conn[c].name
<1>1. /\ Sound({}, at, k, conn, body)
      /\ at \in Places /\ body \in Bodies /\ k \in Prompting
  BY Now DEF Steps
<1>2. At(s, "get_password", c) /\ "get_password" \in LoginPrompts
  BY DEF Reconnect, LoginPrompts, Prompts
<1>3. Phase(s) = "login" /\ at[s] = c /\ at[s] \notin Body
  BY <1>2, LoggingIn DEF Steps
<1>4. PICK b \in Players(n) :
        /\ ~Interactive(b)
        /\ at' = [at EXCEPT ![s] = b] /\ k' = [k EXCEPT ![s] = NoCont]
        /\ body' = [body EXCEPT ![b] = Restarted([body[b] EXCEPT !.link = c])]
  BY DEF Reconnect
<1>5. b \in Body /\ body[b].once /\ body[b].name = n /\ \A u \in Sock : at[u] # b
  BY <1>4 DEF Players, Interactive
<1>6. \A d \in Body : body'[d].once = body[d].once /\ body'[d].name = body[d].name
  <2>1. /\ Restarted([body[b] EXCEPT !.link = c]).once = body[b].once
        /\ Restarted([body[b] EXCEPT !.link = c]).name = body[b].name
    BY <1>1, <1>5 DEF Restarted, Bodies, BodyRec
  <2>2. body'[b] = Restarted([body[b] EXCEPT !.link = c])
        /\ \A d \in Body \ {b} : body'[d] = body[d]
    BY <1>1, <1>4, <1>5 DEF Bodies
  <2> QED
    BY <2>1, <2>2
<1>7. at'[s] = b /\ \A u \in Sock \ {s} : at'[u] = at[u] /\ k'[u] = k[u]
  BY <1>1, <1>4 DEF Places, Prompting
<1>8. Framed({b}, at', body')
  BY <1>3, <1>6, <1>7 DEF Framed, IsOld
<1>9. CASE n \notin Old
  <2>1. ~IsOld(body, b) /\ ~IsOld(body', b)
    BY <1>5, <1>6, <1>9 DEF IsOld
  <2> QED
    BY <1>8, <2>1, OutsideStep
<1>10. CASE n \in Old
  <2>1. Plays(at, body, n, "statue") /\ Plays(at', body', n, s)
    BY <1>5, <1>6, <1>7 DEF Plays
  <2>2. \A u \in Sock \ {s} : at[u] \in Body => body'[at[u]].name = body[at[u]].name
    BY <1>6
  <2>3. \A u \in Sock \ {s} : Phase(u)' = Phase(u)
    BY <1>7, <2>2, OthersStay
  <2>4. "statue" \notin Sock
    BY SessionAssumption
  <2>5. \A d \in Body \cap {b} : /\ body[d].once => body[d].name = n
                                 /\ body'[d].once => body'[d].name = n
    BY <1>5, <1>6
  <2> HIDE DEF n
  <2>6. P!Enter(n, s) \/ P!ThrowOut(n, s)
    BY <1>3, <1>8, <1>10, <2>1, <2>3, <2>4, <2>5, EnterStep
  <2> QED
    BY <1>10, <2>6
<1> QED
  BY <1>9, <1>10

\* exec_old_copy(), "y": who was in the body is aside, or closed, then.
LEMMA ThrowOutSteps ==
    ASSUME Steps, NEW s \in Sock, NEW c \in Conn, At(s, "exec_old_copy", c),
           conn[c].body # None, Interactive(conn[c].body),
           NEW t \in FreeConn, NEW setup \in BOOLEAN, ThrowOut(s, c, conn[c].body, t, setup)
    PROVE  \/ P!Outside
           \/ \E n \in Old : P!Enter(n, s) \/ P!ThrowOut(n, s)
<1> DEFINE b == conn[c].body
           n == body[b].name
           gone == IF MayRemove(conn[c].name) THEN {t} \cup LinkOf(b) ELSE {}
           p == IF setup THEN Ask("complete_setup", b) ELSE NoCont
           a == [Displaced(b, t) EXCEPT ![s] = b]
           linked == [body EXCEPT ![b].link = c, ![b].heart = @ \/ setup]
<1>1. /\ Shaped(at, k, conn, body) /\ Sound({}, at, k, conn, body)
      /\ at \in Places /\ body \in Bodies /\ k \in Prompting /\ conn \in Connections
  BY Now DEF Steps
<1>2. "exec_old_copy" \in LoginPrompts
  BY DEF LoginPrompts, Prompts
<1>3. Phase(s) = "login" /\ at[s] = c /\ at[s] \notin Body
  BY <1>2, LoggingIn DEF Steps
<1>4. b \in Body /\ conn[c].name = n
  <2>1. k[s].f = "exec_old_copy" /\ k[s].ob = c
    BY DEF At
  <2> QED
    BY <1>1, <2>1 DEF Steps, Named, NamedPrompt, Connections, ConnRec
<1>5. PICK x \in Sock : at[x] = b
  BY DEF Interactive
<1>6. body[b].once /\ k[x].f \notin LoginPrompts /\ x # s
  BY <1>3, <1>4, <1>5, InOld DEF Steps
<1>7. \A u \in Sock \ {x} : at[u] # b
  BY <1>1, <1>4, <1>5, SessionAssumption DEF Sound, Apart
<1>8. t \in Conn /\ t \notin Body /\ t # None /\ gone \cap Body = {}
  BY <1>1, <1>4, SessionAssumption DEF FreeConn, LinkOf, Bodies, BodyRec
<1>9. /\ at' = Closed(a, gone) /\ k' = Forgotten([k EXCEPT ![s] = p], a, gone)
      /\ body' = BodiesLess(linked, gone)
  BY DEF ThrowOut
<1>10. a[s] = b /\ a[x] = t /\ \A u \in Sock \ {s, x} : a[u] = at[u]
  BY <1>5, <1>6, <1>7 DEF Displaced, Moved
<1>11. linked \in Bodies
       /\ \A d \in Body : linked[d].once = body[d].once /\ linked[d].name = body[d].name
  BY <1>1, <1>4 DEF Bodies, BodyRec
<1> HIDE DEF a, linked, gone, p, b
<1>12. Framed({b}, a, linked)
  BY <1>3, <1>5, <1>8, <1>10, <1>11 DEF Framed, IsOld
<1>13. CASE n \notin Old
  <2>1. ~IsOld(body, b) /\ ~IsOld(linked, b)
    BY <1>4, <1>11, <1>13 DEF IsOld
  <2> QED
    BY <1>8, <1>9, <1>11, <1>12, <2>1, LessOutside
<1>14. CASE n \in Old
  <2>1. gone = {}
    BY <1>4, <1>14, SessionAssumption DEF Old, MayRemove, gone
  <2>2. body' = linked /\ k' = [k EXCEPT ![s] = p]
        /\ \A u \in Sock : at'[u] = a[u]
    <3>1. body' = linked
      BY <1>9, <1>11, <2>1, NothingGone
    <3>2. \A u \in Sock : at'[u] = a[u]
      BY <1>9, <2>1 DEF Closed
    <3>3. p \in Cont
      BY <1>4, ContShapes DEF Ask, p
    <3>4. [k EXCEPT ![s] = p] \in Prompting
      BY <1>1, <3>3 DEF Prompting
    <3> QED
      BY <1>1, <1>9, <2>1, <3>1, <3>2, <3>4, NothingGone DEF Prompting
  <2>3. Framed({b}, at', body')
    BY <1>12, <2>2 DEF Framed
  <2>4. Plays(at, body, n, x) /\ Plays(at', body', n, s)
    BY <1>4, <1>5, <1>6, <1>10, <1>11, <2>2 DEF Plays
  <2>5. \A u \in Sock \ {s, x} : at'[u] = at[u] /\ k'[u].f = k[u].f
    BY <1>1, <1>10, <2>2 DEF Prompting
  <2>6. \A u \in Sock \ {s, x} : at[u] \in Body => body'[at[u]].name = body[at[u]].name
    BY <1>11, <2>2
  <2>7. \A u \in Sock \ {s, x} : Phase(u)' = Phase(u)
    BY <2>5, <2>6, OthersStay
  <2>8. Phase(x)' = "aside"
    <3>1. at'[x] = t /\ k'[x].f \notin LoginPrompts
      BY <1>1, <1>6, <1>10, <2>2 DEF Prompting
    <3> QED
      BY <1>8, <3>1 DEF Phase
  <2>9. \A d \in Body \cap {b} : /\ body[d].once => body[d].name = n
                                 /\ body'[d].once => body'[d].name = n
    BY <1>11, <2>2
  <2> HIDE DEF n
  <2>10. P!Enter(n, s) \/ P!ThrowOut(n, s)
    BY <1>3, <1>6, <1>14, <2>3, <2>4, <2>7, <2>8, <2>9, EnterStep
  <2> QED
    BY <1>14, <2>10
<1> QED
  BY <1>13, <1>14

LEMMA ExecOldCopySteps ==
    ASSUME Steps, NEW s \in Sock, NEW c \in Conn, ExecOldCopyYes(s, c) \/ ExecOldCopyNo(s, c)
    PROVE  \/ P!Outside
           \/ \E n \in Old : P!Enter(n, s) \/ P!ThrowOut(n, s)
<1>1. At(s, "exec_old_copy", c)
  BY DEF ExecOldCopyYes, ExecOldCopyNo
<1>2. conn[c].body # None => body[conn[c].body].name = conn[c].name
  BY <1>1 DEF At, Steps, Named, NamedPrompt
<1>3. CASE UNCHANGED <<at, body>>
  BY <1>3, StillOutside
<1>4. CASE ExecOldCopyYes(s, c)
  BY <1>1, <1>3, <1>4, ThrowOutSteps DEF ExecOldCopyYes
<1>5. CASE ExecOldCopyNo(s, c)
  <2>1. CASE /\ conn[c].body # None /\ body[conn[c].body].name \in Wizard
             /\ LoginNewCopy(s, c, at, k, conn, body, cfile)
    <3>1. conn[c].name \notin Old
      BY <1>2, <2>1 DEF Old
    <3> QED
      BY <1>5, <2>1, <3>1, AfreshSteps
  <2> QED
    BY <1>3, <1>5, <2>1 DEF ExecOldCopyNo
<1> QED
  BY <1>4, <1>5

\* A link that breaks leaves a statue.
LEMMA NetDeadSteps ==
    ASSUME Steps, NEW s \in Sock, NetDead(s)
    PROVE  P!Outside \/ \E n \in Old : P!Leave(n) \/ P!Break(n)
<1> DEFINE b == at[s]
           n == body[b].name
           gone == LinkOf(b)
           a == [at EXCEPT ![s] = None]
           bs == [body EXCEPT ![b] = NetDeadBody(@)]
<1>1. /\ Sound({}, at, k, conn, body)
      /\ at \in Places /\ body \in Bodies /\ k \in Prompting
  BY Now DEF Steps
<1>2. b \in Body /\ body[b].once /\ b # None
  BY InOld, SessionAssumption DEF NetDead, Steps
<1>3. gone \cap Body = {} /\ \A u \in Sock : at[u] \notin gone
  <2>1. body[b].link # None => body[b].link \in Conn /\ ~In(at, body[b].link)
    BY <1>2, LinkedBody DEF Steps
  <2> QED
    BY <2>1, SessionAssumption DEF LinkOf, In
<1>4. /\ at' = Closed(a, gone) /\ k' = Forgotten([k EXCEPT ![s] = NoCont], a, gone)
      /\ body' = BodiesLess(bs, gone)
  BY DEF NetDead
<1>5. a[s] = None /\ \A u \in Sock \ {s} : a[u] = at[u] /\ a[u] # b
  BY <1>1, <1>2 DEF Places, Sound, Apart
<1>6. bs \in Bodies
      /\ \A d \in Body : bs[d].once = body[d].once /\ bs[d].name = body[d].name
  <2>1. /\ NetDeadBody(body[b]) \in BodyRec
        /\ NetDeadBody(body[b]).once = body[b].once
        /\ NetDeadBody(body[b]).name = body[b].name
    BY <1>1, <1>2 DEF NetDeadBody, BodyRec, Bodies
  <2>2. /\ bs \in Bodies /\ bs[b] = NetDeadBody(body[b])
        /\ \A d \in Body \ {b} : bs[d] = body[d]
    BY <1>1, <1>2, <2>1 DEF Bodies
  <2> QED
    BY <2>1, <2>2
<1> HIDE DEF a, bs, gone
<1>7. Framed({b}, a, bs)
  BY <1>2, <1>5, <1>6, SessionAssumption DEF Framed, IsOld
<1>8. CASE n \notin Old
  <2>1. ~IsOld(body, b) /\ ~IsOld(bs, b)
    BY <1>2, <1>6, <1>8 DEF IsOld
  <2> QED
    BY <1>3, <1>4, <1>6, <1>7, <2>1, LessOutside
<1>9. CASE n \in Old
  <2>1. Framed({b}, at', body')
    <3>1. Framed({b} \cup gone, at', body')
      BY <1>4, <1>6, <1>7, LessFramed
    <3> QED
      BY <1>3, <3>1 DEF Framed
  <2>2. \A d \in Body : body'[d].once = body[d].once /\ body'[d].name = body[d].name
    <3> TAKE d \in Body
    <3>1. body'[d] \in {bs[d], [bs[d] EXCEPT !.link = None]} /\ bs[d] \in BodyRec
      BY <1>3, <1>4, <1>6 DEF BodiesLess, Bodies
    <3>2. body'[d].once = bs[d].once /\ body'[d].name = bs[d].name
      BY <3>1 DEF BodyRec
    <3> QED
      BY <1>6, <3>2
  <2>3. at'[s] = None /\ \A u \in Sock \ {s} : at'[u] = at[u]
    BY <1>3, <1>4, <1>5 DEF Closed
  <2>4. \A u \in Sock \ {s} : k'[u].f = k[u].f
    <3> TAKE u \in Sock \ {s}
    <3>1. a[u] \notin gone
      BY <1>3, <1>5
    <3>2. k'[u] \in {k[u], [k[u] EXCEPT !.ob = None]}
      BY <1>1, <1>4, <3>1 DEF Forgotten, Prompting
    <3> QED
      BY <1>1, <3>2 DEF Prompting, Cont
  <2>5. \A u \in Sock \ {s} : Phase(u)' = Phase(u)
    BY <2>2, <2>3, <2>4, OthersStay
  <2>6. Plays(at, body, n, s) /\ Plays(at', body', n, "statue")
    BY <1>2, <1>5, <2>2, <2>3 DEF Plays
  <2>7. Phase(s)' = "closed"
    BY <2>3 DEF Phase
  <2>8. \A d \in Body \cap {b} : /\ body[d].once => body[d].name = n
                                 /\ body'[d].once => body'[d].name = n
    BY <2>2
  <2> HIDE DEF n, b
  <2>9. P!Leave(n) \/ P!Break(n)
    BY <1>9, <2>1, <2>5, <2>6, <2>7, <2>8, LeaveStep
  <2> QED
    BY <1>9, <2>9
<1> QED
  BY <1>8, <1>9

\* A body that is destructed, perhaps with its link.
LEMMA GoneSteps ==
    ASSUME Steps, NEW b \in Body, NEW gone, b \in gone, gone \subseteq {b} \cup LinkOf(b),
           Destruct(gone)
    PROVE  P!Outside \/ \E n \in Old : P!Leave(n) \/ P!Break(n)
<1> DEFINE n == body[b].name
<1>1. /\ Sound({}, at, k, conn, body)
      /\ at \in Places /\ body \in Bodies /\ k \in Prompting
  BY Now DEF Steps
<1>2. gone \cap Body = {b} /\ \A u \in Sock : at[u] \in gone => at[u] = b
  <2>1. body[b].link # None => body[b].link \in Conn /\ ~In(at, body[b].link)
    BY LinkedBody DEF Steps
  <2> QED
    BY <2>1, SessionAssumption DEF LinkOf, In
<1>3. CASE ~IsOld(body, b)
  BY <1>2, <1>3, DestructOutside
<1>4. CASE IsOld(body, b)
  <2>1. n \in Old /\ b \in Players(n) /\ body[b].once
    BY <1>4 DEF IsOld, Players
  <2>2. /\ at' = Closed(at, gone) /\ k' = Forgotten(k, at, gone)
        /\ body' = BodiesLess(body, gone)
    BY DEF Destruct
  <2>3. Framed({b}, at', body')
    <3>1. Framed({} \cup gone, at', body')
      BY <1>1, <2>2, FramedNow, LessFramed
    <3> QED
      BY <1>2, <3>1 DEF Framed
  <2>4. body'[b] = NoBody /\ ~NoBody.once
    BY <2>2 DEF BodiesLess, NoBody
  <2>5. \A d \in Body \ {b} : body'[d].once = body[d].once /\ body'[d].name = body[d].name
    <3> TAKE d \in Body \ {b}
    <3>1. body'[d] \in {body[d], [body[d] EXCEPT !.link = None]} /\ body[d] \in BodyRec
      BY <1>1, <1>2, <2>2 DEF BodiesLess, Bodies
    <3> QED
      BY <3>1 DEF BodyRec
  <2>6. PICK x \in Sock \cup {"out", "statue"} : Plays(at, body, n, x)
    BY PlaysSome
  <2>7. \/ x \in Sock /\ at[x] = b
        \/ x = "statue" /\ \A u \in Sock : at[u] # b
    BY <2>1, <2>6, PlaysHere DEF Steps
  <2>8. \A u \in Sock \ {x} : at[u] # b
    BY <1>1, <2>7, SessionAssumption DEF Sound, Apart
  <2>9. \A u \in Sock \ {x} : at'[u] = at[u] /\ k'[u].f = k[u].f
    <3> TAKE u \in Sock \ {x}
    <3>1. at[u] \notin gone
      BY <1>2, <2>8
    <3>2. at'[u] = at[u] /\ k'[u] \in {k[u], [k[u] EXCEPT !.ob = None]}
      BY <2>2, <3>1 DEF Closed, Forgotten
    <3> QED
      BY <1>1, <3>2 DEF Prompting, Cont
  <2>10. \A u \in Sock \ {x} : at[u] \in Body => body'[at[u]].name = body[at[u]].name
    BY <2>5, <2>8
  <2>11. \A u \in Sock \ {x} : Phase(u)' = Phase(u)
    BY <2>9, <2>10, OthersStay
  <2>12. x \in Sock => Phase(x)' = "closed"
    <3> SUFFICES ASSUME x \in Sock PROVE Phase(x)' = "closed"
      OBVIOUS
    <3>1. at[x] = b
      BY <2>7, SessionAssumption
    <3>2. at'[x] = None
      BY <2>2, <3>1 DEF Closed
    <3> QED
      BY <3>2 DEF Phase
  <2>13. Plays(at', body', n, "out")
    <3>1. \A d \in Body : body[d].once /\ body[d].name = n => d = b
      BY <2>1 DEF Steps, Named, OneOnce
    <3> QED
      BY <2>4, <2>5, <3>1 DEF Plays
  <2>14. \A d \in Body \cap {b} : /\ body[d].once => body[d].name = n
                                  /\ body'[d].once => body'[d].name = n
    BY <2>4
  <2>15. x # "out"
    BY <2>7, SessionAssumption
  <2> HIDE DEF n
  <2>16. P!Leave(n) \/ P!Break(n)
    BY <2>1, <2>3, <2>6, <2>11, <2>12, <2>13, <2>14, <2>15, LeaveStep
  <2> QED
    BY <2>1, <2>16
<1> QED
  BY <1>3, <1>4

\* switch_body(): the account is played on, from the same socket.
LEMMA SwitchOutside ==
    ASSUME Steps, NEW b \in Body, body[b].link # None, NEW nb \in FreeBody,
           NEW new \in BodyRec, new.name = body[b].name, new.once,
           NEW dead \in BOOLEAN, NEW gone \in {{}, {b}}, SwitchBody(b, nb, new, dead, gone)
    PROVE  P!Outside
<1> DEFINE n == body[b].name
           bs == [body EXCEPT ![nb] = new, ![b].link = None, ![b].once = FALSE,
                              ![b].dying = TRUE]
<1>1. /\ Shaped(at, k, conn, body) /\ Sound({}, at, k, conn, body)
      /\ at \in Places /\ body \in Bodies
  BY Now DEF Steps
<1>2. body[b].once /\ body[b].kind # "none" /\ b # None /\ In(at, b)
  BY LinkedBody, SessionAssumption DEF Steps
<1>3. nb \in Body /\ nb # b /\ ~body[nb].once /\ ~In(at, nb)
  <2>1. nb \in Body /\ body[nb].kind = "none" /\ ~NoBody.once
    BY DEF FreeBody, NoBody
  <2> QED
    BY <1>1, <1>2, <2>1, UnusedBody
<1>4. at' = Moved(b, nb) /\ body' = BodiesLess(bs, gone)
  BY DEF SwitchBody
<1>5. bs \in Bodies /\ bs[nb] = new /\ ~bs[b].once
      /\ \A d \in Body \ {b, nb} : bs[d] = body[d]
  <2>1. bs \in Bodies
    BY <1>3, Now, SwitchShapes DEF Steps
  <2>2. bs[nb] = new /\ \A d \in Body \ {b, nb} : bs[d] = body[d]
    BY <1>1, <1>3 DEF Bodies
  <2>3. ~bs[b].once
    BY <1>1, <1>3 DEF Bodies, BodyRec
  <2> QED
    BY <2>1, <2>2, <2>3
<1> HIDE DEF bs
<1>6. \A d \in Body \ {b} : body'[d].once = bs[d].once /\ body'[d].name = bs[d].name
  <2> TAKE d \in Body \ {b}
  <2>1. body'[d] \in {bs[d], [bs[d] EXCEPT !.link = None]} /\ bs[d] \in BodyRec
    BY <1>4, <1>5 DEF BodiesLess, Bodies
  <2> QED
    BY <2>1 DEF BodyRec
<1>7. ~body'[b].once
  <2>1. body'[b] \in {NoBody, bs[b], [bs[b] EXCEPT !.link = None]}
    BY <1>4 DEF BodiesLess
  <2>2. ~NoBody.once /\ bs[b] \in BodyRec
    BY <1>5 DEF NoBody, Bodies
  <2>3. [bs[b] EXCEPT !.link = None].once = bs[b].once
    BY <2>2 DEF BodyRec
  <2> QED
    BY <1>5, <2>1, <2>2, <2>3
<1>8. body'[nb].once /\ body'[nb].name = n
  BY <1>3, <1>5, <1>6
<1>9. \A d \in Body \ {b, nb} : body'[d].once = body[d].once /\ body'[d].name = body[d].name
  BY <1>5, <1>6
<1>10. \A u \in Sock : at'[u] = IF at[u] = b THEN nb ELSE at[u]
  BY <1>4 DEF Moved
<1>11. Framed({b, nb}, at', body')
  BY <1>9, <1>10 DEF Framed, IsOld
<1>12. ASSUME NEW m \in Old PROVE PlayedBy(m)' = PlayedBy(m)
  <2>1. CASE m = n
    <3>1. PICK x \in Sock : at[x] = b
      BY <1>2 DEF In
    <3>2. Plays(at, body, m, x) /\ Plays(at', body', m, x)
      BY <1>2, <1>3, <1>8, <1>10, <2>1, <3>1 DEF Plays
    <3>3. PlayedBy(m) = x
      BY <3>2, PlayedNow DEF Steps
    <3>4. PlayedBy(m)' = x
      BY <3>2, PlayedThen DEF Steps
    <3> QED
      BY <3>3, <3>4
  <2>2. CASE m # n
    <3>1. \A d \in Body \cap {b, nb} : /\ ~(body[d].once /\ body[d].name = m)
                                       /\ ~(body'[d].once /\ body'[d].name = m)
      BY <1>3, <1>7, <1>8, <2>2
    <3> QED
      BY <1>11, <3>1, FramedKeeps DEF Steps
  <2> QED
    BY <2>1, <2>2
<1>13. ASSUME NEW u \in Sock
       PROVE  PlaysOld(at, body, u) <=> PlaysOld(at', body', u)
  <2>1. at[u] # nb
    BY <1>3 DEF In
  <2>2. CASE at[u] = b
    BY <1>3, <1>8, <1>10, <2>2 DEF PlaysOld
  <2>3. CASE at[u] # b
    BY <1>9, <1>10, <2>1, <2>3 DEF PlaysOld
  <2> QED
    BY <2>2, <2>3
<1> QED
  BY <1>12, <1>13, OutsideMoves DEF Steps

LEMMA CompleteSetupOutside ==
    ASSUME Steps, NEW s \in Sock, CompleteSetup(s)
    PROVE  P!Outside
<1> DEFINE b == k[s].ob
<1>1. k \in Prompting /\ body \in Bodies
  BY Now DEF Steps
<1>2. b \in Body \cup {None}
  BY <1>1, SessionAssumption DEF CompleteSetup, Prompting, Cont, LoginPrompts
<1>3. CASE b # None /\ LinkDead(b)
  <2>1. PICK g \in FreeBody :
          SwitchBody(b, g, GhostOf(body[b].name, body[b].link), TRUE, {b})
    BY <1>3 DEF CompleteSetup
  <2>2. b \in Body /\ body[b].link # None /\ body[b].link \in Conn
        /\ body[b].name \in Name \cup {None}
    BY <1>1, <1>2, <1>3 DEF LinkDead, Bodies, BodyRec
  <2> DEFINE new == GhostOf(body[b].name, body[b].link)
  <2>3. new.name = body[b].name /\ new.once
    BY DEF GhostOf, NoBody
  <2>4. new \in BodyRec
    BY <2>2, BodyShapes
  <2> HIDE DEF new, b
  <2> QED
    BY <2>1, <2>2, <2>3, <2>4, SwitchOutside DEF new
<1>4. CASE ~(b # None /\ LinkDead(b))
  <2>1. UNCHANGED at
        /\ (body' = body \/ (b \in Body /\ body' = [body EXCEPT ![b].env = TRUE]))
    BY <1>2, <1>4 DEF CompleteSetup
  <2>2. \A d \in Body : body'[d].once = body[d].once /\ body'[d].name = body[d].name
    BY <1>1, <2>1 DEF Bodies, BodyRec
  <2>3. Framed({}, at', body')
    BY <2>1, <2>2 DEF Framed, IsOld
  <2> QED
    BY <2>3, OutsideStep
<1> QED
  BY <1>3, <1>4

LEMMA DieReviveOutside ==
    ASSUME Steps, NEW b \in Body, Die(b) \/ Revive(b)
    PROVE  P!Outside
<1>1. body[b].link \in Conn /\ body[b].link # None /\ body[b].name \in Name \cup {None}
  BY Now DEF Die, Revive, LinkDead, TypeOK, BodyRec, Steps
<1> DEFINE ghost == GhostOf(body[b].name, body[b].link)
           user == [PlayingBody(body[b].name, body[b].link) EXCEPT !.env = TRUE]
<1>2. /\ ghost \in BodyRec /\ user \in BodyRec
      /\ ghost.name = body[b].name /\ user.name = body[b].name
      /\ ghost.once /\ user.once
  <2>1. PlayingBody(body[b].name, body[b].link) \in BodyRec /\ ghost \in BodyRec
    BY <1>1, BodyShapes
  <2>2. ghost.name = body[b].name /\ ghost.once
    BY DEF GhostOf, NoBody
  <2>3. /\ PlayingBody(body[b].name, body[b].link).name = body[b].name
        /\ PlayingBody(body[b].name, body[b].link).once
    BY DEF PlayingBody, NoBody
  <2> QED
    BY <2>1, <2>2, <2>3 DEF BodyRec
<1>3. PICK nb \in FreeBody, new \in {ghost, user}, dead \in BOOLEAN, gone \in {{}, {b}} :
        SwitchBody(b, nb, new, dead, gone)
  BY DEF Die, Revive
<1> HIDE DEF ghost, user
<1> QED
  BY <1>1, <1>2, <1>3, SwitchOutside

-----------------------------------------------------------------------------
LEMMA LoginImplements ==
    ASSUME Steps, NEW s \in Sock, NEW c \in Conn, LoginStep(s, c)
    PROVE  P!Next
<1>1. P!Outside \/ \E n \in Old : P!Enter(n, s) \/ P!ThrowOut(n, s)
  <2>1. CASE EnterAfresh(s, c)
    BY <2>1, AfreshSteps
  <2>2. CASE EnterFromLimbo(s, c)
    BY <2>2, LimboSteps
  <2>3. CASE Reconnect(s, c)
    BY <2>3, ReconnectSteps
  <2>4. CASE ExecOldCopyYes(s, c) \/ ExecOldCopyNo(s, c)
    BY <2>4, ExecOldCopySteps
  <2>5. CASE Choice(s, c) \/ GetRealName(s, c)
    BY <2>5, NewAccountOutside
  <2>6. CASE \/ GetNameRefused(s, c) \/ WrongPassword(s, c) \/ ChooseAgain(s, c)
             \/ Rejected(s, c) \/ AskToDisplace(s, c)
             \/ \E n \in Name : GetName(s, c, n) \/ GetNewName(s, c, n)
             \/ \E p \in 1 .. MaxPw : NewPass(s, c, p)
    <3>1. UNCHANGED <<at, body>>
      BY <2>6 DEF GetNameRefused, WrongPassword, ChooseAgain, Rejected, RemoveUser,
           AskToDisplace, GetName, GetNewName, NewPass
    <3> QED
      BY <3>1, StillOutside
  <2> QED
    BY <2>1, <2>2, <2>3, <2>4, <2>5, <2>6 DEF LoginStep
<1> QED
  BY <1>1 DEF P!Next

LEMMA SocketImplements ==
    ASSUME Steps, NEW s \in Sock, SocketStep(s)
    PROVE  P!Next
<1>1. ASSUME P!Outside \/ \E n \in Old : P!Leave(n) \/ P!Break(n)
      PROVE  P!Next
  BY <1>1 DEF P!Next
<1>2. CASE Quit(s)
  <2> DEFINE may == MayRemove(body[at[s]].name)
  <2>1. at[s] \in Body /\ Destruct({at[s]} \cup LinkIf(at[s], may))
    BY <1>2 DEF Quit
  <2>2. LinkIf(at[s], may) \subseteq LinkOf(at[s])
    BY DEF LinkIf
  <2> HIDE DEF may
  <2> QED
    BY <1>1, <2>1, <2>2, GoneSteps
<1>3. CASE Passwd(s)
  BY <1>1, <1>3, StillOutside DEF Passwd
<1>4. CASE Connect(s) \/ HangUp(s)
  BY <1>1, <1>4, LinkOutside
<1>5. CASE NetDead(s)
  BY <1>1, <1>5, NetDeadSteps
<1>6. CASE CompleteSetup(s)
  BY <1>1, <1>6, CompleteSetupOutside
<1>7. CASE \E p \in 0 .. MaxPw : Newpass(s, p)
  BY <1>1, <1>7, PasswdOutside
<1>8. CASE \E c \in Conn : LoginStep(s, c)
  BY <1>8, LoginImplements
<1> QED
  BY <1>2, <1>3, <1>4, <1>5, <1>6, <1>7, <1>8 DEF SocketStep

LEMMA BodyImplements ==
    ASSUME Steps, NEW b \in Body, BodyStep(b)
    PROVE  P!Next
<1>1. CASE Die(b) \/ Revive(b)
  BY <1>1, DieReviveOutside DEF P!Next
<1>2. CASE RemoveDead(b) \/ IdleDump(b) \/ Sweep(b) \/ BodyCleanUp(b)
  <2>1. \E gone \in {{b}, {b} \cup LinkOf(b)} : Destruct(gone)
    BY <1>2 DEF RemoveDead, IdleDump, Sweep, BodyCleanUp
  <2>2. P!Outside \/ \E n \in Old : P!Leave(n) \/ P!Break(n)
    BY <2>1, GoneSteps
  <2> QED
    BY <2>2 DEF P!Next
<1> QED
  BY <1>1, <1>2 DEF BodyStep

LEMMA CrashImplements == Crash => P!Stop
<1> SUFFICES ASSUME Crash PROVE P!Stop
  OBVIOUS
<1>1. \A s \in Sock : Phase(s)' = "closed"
  BY DEF Crash, Phase
<1>2. ASSUME NEW n \in Old PROVE PlayedBy(n)' = "out"
  <2>1. Players(n)' = {}
    BY DEF Crash, Players, NoBody
  <2> QED
    BY <2>1 DEF PlayedBy
<1> QED
  BY <1>1, <1>2 DEF P!Stop

LEMMA StepImplements ==
    ASSUME IInv, IInv', Named, Named', [Next]_vars
    PROVE  [P!Next]_(P!vars)
<1>1. CASE UNCHANGED vars
  BY <1>1 DEF vars, P!vars, Phase, PlayedBy, Players, Interactive
<1>2. CASE Crash
  BY <1>2, CrashImplements DEF P!Next
<1>3. CASE Next /\ ~Crash
  <2>1. Steps
    BY <1>3, OnwardStep DEF Steps
  <2>2. CASE \E s \in Sock : SocketStep(s)
    BY <2>1, <2>2, SocketImplements
  <2>3. CASE \E b \in Body : BodyStep(b)
    BY <2>1, <2>3, BodyImplements
  <2>4. CASE \E c \in Conn : ConnStep(c)
    BY <2>1, <2>4, ConnOutside DEF P!Next
  <2> QED
    BY <1>3, <2>2, <2>3, <2>4 DEF Next
<1> QED
  BY <1>1, <1>2, <1>3

LEMMA InitImplements == Init => P!Init
<1> SUFFICES ASSUME Init PROVE P!Init
  OBVIOUS
<1>1. \A s \in Sock : Phase(s) = "closed"
  BY DEF Init, Phase
<1>2. ASSUME NEW n \in Old PROVE PlayedBy(n) = "out"
  <2>1. Players(n) = {}
    BY DEF Init, Players, NoBody
  <2> QED
    BY <2>1 DEF PlayedBy
<1> QED
  BY <1>1, <1>2 DEF P!Init

\* Logging in, throwing out, dying, breaking off and quitting implement
\* Presence for any sockets, objects and accounts: every callback is one step
\* of it for one account at most, or lets it stand still.
THEOREM SessionImplementsPresence == Spec => ImplementsPresence
<1> QED
  BY Invariant, InvStep, NamedInit, NamedStep, NamesAgree, InitImplements, StepImplements, PTL
  DEF Spec, ImplementsPresence, P!Spec
-----------------------------------------------------------------------------
(* What Presence promises, and Session therefore keeps *)

\* Where the links are and who is played from where, as Presence sees it.
AllPhases == [s \in Sock |-> Phase(s)]
AllPlayed == [n \in Old |-> PlayedBy(n)]

\* PlaysOne in three parts: who plays is in the game, no two accounts share a
\* link, and every link that is in the game plays an account.
Games(phase, who) ==
    /\ phase \in [Sock -> {"closed", "login", "in", "aside"}]
    /\ who \in [Old -> Sock \cup {"out", "statue"}]
    /\ \A n \in Old : who[n] \in Sock => phase[who[n]] = "in"
    /\ \A n, m \in Old : who[n] \in Sock /\ who[m] = who[n] => m = n
    /\ \A s \in Sock : phase[s] = "in" => \E n \in Old : who[n] = s

\* Whatever link s is given to n, the others keep theirs.
LEMMA LinkGiven ==
    ASSUME NEW phase, NEW who, Games(phase, who), NEW n \in Old, NEW s \in Sock,
           phase[s] = "login",
           NEW phases \in [Sock -> {"closed", "login", "in", "aside"}],
           phases[s] = "in",
           \A t \in Sock \ {s} : t # who[n] => phases[t] = phase[t],
           who[n] \in Sock => phases[who[n]] # "in"
    PROVE  Games(phases, [who EXCEPT ![n] = s])
<1> DEFINE w == [who EXCEPT ![n] = s]
<1>1. \A m \in Old : who[m] # s
  BY DEF Games
<1>2. w \in [Old -> Sock \cup {"out", "statue"}]
  BY DEF Games
<1>3. w[n] = s /\ \A m \in Old \ {n} : w[m] = who[m]
  BY DEF Games
<1> HIDE DEF w
<1>4. ASSUME NEW m \in Old \ {n}, who[m] \in Sock PROVE phases[who[m]] = "in"
  <2>1. who[m] # s /\ who[m] # who[n] /\ phase[who[m]] = "in"
    BY <1>1, <1>4 DEF Games
  <2> QED
    BY <1>4, <2>1
<1>5. ASSUME NEW t \in Sock, phases[t] = "in" PROVE \E m \in Old : w[m] = t
  <2>1. CASE t = s
    BY <1>3, <2>1
  <2>2. CASE t # s
    <3>1. t # who[n] /\ phase[t] = "in"
      BY <1>5, <2>2
    <3>2. PICK m \in Old : who[m] = t
      BY <3>1 DEF Games
    <3> QED
      BY <1>3, <3>1, <3>2
  <2> QED
    BY <2>1, <2>2
<1>6. \A m \in Old : w[m] \in Sock => phases[w[m]] = "in"
  BY <1>3, <1>4
<1>7. \A m, l \in Old : w[m] \in Sock /\ w[l] = w[m] => l = m
  BY <1>1, <1>3 DEF Games
<1>8. Games(phases, w)
  BY <1>2, <1>5, <1>6, <1>7 DEF Games
<1> QED
  BY <1>8 DEF w

\* When n has no link any more, its link, if it had one, is closed.
LEMMA LinkTaken ==
    ASSUME NEW phase, NEW who, Games(phase, who), NEW n \in Old, NEW x \in {"out", "statue"},
           NEW phases, phases = IF who[n] \in Sock THEN [phase EXCEPT ![who[n]] = "closed"]
                                ELSE phase
    PROVE  Games(phases, [who EXCEPT ![n] = x])
<1> DEFINE w == [who EXCEPT ![n] = x]
<1>1. x \notin Sock
  BY SessionAssumption
<1>2. /\ w \in [Old -> Sock \cup {"out", "statue"}]
      /\ w[n] = x /\ \A m \in Old \ {n} : w[m] = who[m]
  BY DEF Games
<1>3. /\ phases \in [Sock -> {"closed", "login", "in", "aside"}]
      /\ \A t \in Sock : t # who[n] => phases[t] = phase[t]
      /\ who[n] \in Sock => phases[who[n]] = "closed"
  BY DEF Games
<1> HIDE DEF w
<1>4. \A m \in Old : w[m] \in Sock => phases[w[m]] = "in"
  BY <1>1, <1>2, <1>3 DEF Games
<1>5. \A m, l \in Old : w[m] \in Sock /\ w[l] = w[m] => l = m
  BY <1>1, <1>2 DEF Games
<1>6. ASSUME NEW t \in Sock, phases[t] = "in" PROVE \E m \in Old : w[m] = t
  <2>1. t # who[n] /\ phase[t] = "in"
    BY <1>3, <1>6
  <2>2. PICK m \in Old : who[m] = t
    BY <2>1 DEF Games
  <2> QED
    BY <1>2, <2>1, <2>2
<1>7. Games(phases, w)
  BY <1>2, <1>3, <1>4, <1>5, <1>6 DEF Games
<1> QED
  BY <1>7 DEF w

LEMMA GamesStep ==
    ASSUME Games(AllPhases, AllPlayed), P!Next
    PROVE  Games(AllPhases, AllPlayed)'
<1> DEFINE ph == AllPhases
           wh == AllPlayed
           php == AllPhases'
           whp == AllPlayed'
<1>0. Games(AllPhases, AllPlayed)' = Games(php, whp)
  BY DEF Games
<1>1. CASE P!Outside
  <2>1. whp = wh /\ php \in [Sock -> {"closed", "login", "in", "aside"}]
        /\ \A s \in Sock : php[s] = ph[s] \/ <<ph[s], php[s]>> \in P!Onward
    BY <1>1 DEF P!Outside, AllPhases, AllPlayed
  <2>2. \A s \in Sock : php[s] = "in" <=> ph[s] = "in"
    BY <2>1 DEF P!Onward
  <2> HIDE DEF ph, wh, php, whp
  <2>3. Games(ph, wh)
    BY DEF ph, wh
  <2>4. Games(php, whp)
    BY <2>1, <2>2, <2>3 DEF Games
  <2> QED
    BY <1>0, <2>4
<1>2. ASSUME NEW n \in Old, NEW s \in Sock, P!Enter(n, s)
      PROVE  Games(php, whp)
  <2>1. /\ ph[s] = "login" /\ wh[n] \notin Sock
        /\ php = [ph EXCEPT ![s] = "in"] /\ whp = [wh EXCEPT ![n] = s]
    BY <1>2 DEF P!Enter, AllPhases, AllPlayed
  <2> HIDE DEF ph, wh, php, whp
  <2>2. Games(ph, wh)
    BY DEF ph, wh
  <2>3. php \in [Sock -> {"closed", "login", "in", "aside"}] /\ php[s] = "in"
        /\ \A t \in Sock \ {s} : t # wh[n] => php[t] = ph[t]
    BY <2>1, <2>2 DEF Games
  <2> QED
    BY <2>1, <2>2, <2>3, LinkGiven
<1>3. ASSUME NEW n \in Old, NEW s \in Sock, P!ThrowOut(n, s)
      PROVE  Games(php, whp)
  <2>1. /\ ph[s] = "login" /\ wh[n] \in Sock
        /\ \E p \in {"aside", "closed"} :
              php = [ph EXCEPT ![s] = "in", ![wh[n]] = p]
        /\ whp = [wh EXCEPT ![n] = s]
    BY <1>3 DEF P!ThrowOut, AllPhases, AllPlayed
  <2> HIDE DEF ph, wh, php, whp
  <2>2. Games(ph, wh)
    BY DEF ph, wh
  <2>3. PICK p \in {"aside", "closed"} : php = [ph EXCEPT ![s] = "in", ![wh[n]] = p]
    BY <2>1
  <2>4. ph[wh[n]] = "in" /\ wh[n] # s
    BY <2>1, <2>2 DEF Games
  <2>5. php \in [Sock -> {"closed", "login", "in", "aside"}] /\ php[s] = "in"
        /\ php[wh[n]] = p
        /\ \A t \in Sock \ {s} : t # wh[n] => php[t] = ph[t]
    BY <2>1, <2>2, <2>3, <2>4 DEF Games
  <2> QED
    BY <2>1, <2>2, <2>5, LinkGiven
<1>4. ASSUME NEW n \in Old, P!Break(n) \/ P!Leave(n)
      PROVE  Games(php, whp)
  <2>1. /\ php = IF wh[n] \in Sock THEN [ph EXCEPT ![wh[n]] = "closed"] ELSE ph
        /\ \E x \in {"out", "statue"} : whp = [wh EXCEPT ![n] = x]
    BY <1>4 DEF P!Break, P!Leave, P!LinkClosed, AllPhases, AllPlayed
  <2> HIDE DEF ph, wh, php, whp
  <2>2. Games(ph, wh)
    BY DEF ph, wh
  <2>3. PICK x \in {"out", "statue"} : whp = [wh EXCEPT ![n] = x]
    BY <2>1
  <2>4. Games(php, [wh EXCEPT ![n] = x])
    BY ONLY <2>1, <2>2, n \in Old, x \in {"out", "statue"}, LinkTaken
  <2> QED
    BY <2>3, <2>4
<1>5. CASE P!Stop
  <2>1. php = [s \in Sock |-> "closed"] /\ whp = [n \in Old |-> "out"]
    BY <1>5 DEF P!Stop, AllPhases, AllPlayed
  <2> HIDE DEF php, whp
  <2>2. Games(php, whp)
    BY <2>1, SessionAssumption DEF Games
  <2> QED
    BY <1>0, <2>2
<1> QED
  BY <1>0, <1>1, <1>2, <1>3, <1>4, <1>5 DEF P!Next

LEMMA GamesPlayOne == Games(AllPhases, AllPlayed) => P!PlaysOne
<1> SUFFICES ASSUME Games(AllPhases, AllPlayed), NEW s \in Sock
             PROVE  AllPhases[s] = "in" <=> \E n \in Old :
                        AllPlayed[n] = s /\ \A m \in Old : AllPlayed[m] = s => m = n
  BY DEF P!PlaysOne, AllPhases, AllPlayed
<1>1. ASSUME AllPhases[s] = "in"
      PROVE  \E n \in Old : AllPlayed[n] = s /\ \A m \in Old : AllPlayed[m] = s => m = n
  <2>1. PICK n \in Old : AllPlayed[n] = s
    BY <1>1 DEF Games
  <2>2. \A m \in Old : AllPlayed[m] = s => m = n
    BY <2>1 DEF Games
  <2> QED
    BY <2>1, <2>2
<1>2. ASSUME NEW n \in Old, AllPlayed[n] = s
      PROVE  AllPhases[s] = "in"
  BY <1>2 DEF Games
<1> QED
  BY <1>1, <1>2

\* The promise of Presence, which Session keeps as it implements it: however
\* links log in, throw out each other, break off and quit, a link is in the
\* game exactly when it plays one account.
THEOREM OneAccountPerLink == Spec => []P!PlaysOne
<1>1. P!Init => Games(AllPhases, AllPlayed)
  BY SessionAssumption DEF P!Init, AllPhases, AllPlayed, Games
<1>2. Games(AllPhases, AllPlayed) /\ [P!Next]_(P!vars) => Games(AllPhases, AllPlayed)'
  <2>1. Games(AllPhases, AllPlayed) /\ UNCHANGED P!vars => Games(AllPhases, AllPlayed)'
    BY DEF P!vars, AllPhases, AllPlayed, Games
  <2> QED
    BY <2>1, GamesStep
<1> QED
  BY <1>1, <1>2, GamesPlayOne, SessionImplementsPresence, PTL
  DEF ImplementsPresence, P!Spec
=============================================================================
