-------------------------------- MODULE Mail --------------------------------
(***************************************************************************)
(* Mail within the mud: the mailbox daemon (adm/daemons/mailbox.c), the    *)
(* message daemon (mailmesg.c), the mailer that players use                *)
(* (adm/obj/mailer.c) and the despool command (cmds/xtra/_despool.c).      *)
(*                                                                         *)
(* A message is one file with those who have not deleted it; a mailbox is  *)
(* one file with the numbers of its messages.  The daemon keeps one        *)
(* mailbox in memory and writes it when it opens another, or when asked    *)
(* to.  Headers, flags, groups and mail to other muds are left out, and    *)
(* bounces: expand_to() has dropped the names nobody has.  A player works  *)
(* in one mailer at a time.                                                *)
(***************************************************************************)
EXTENDS SequencesExt, FiniteSetsExt

CONSTANTS
    Users,
    Admins,       \* users whom the limit does not bind
    Ids,          \* bound: the numbers of messages that exist at a time
    MaxMesgs,     \* MAX_MESGS
    MaxHurt,      \* bound: boxes that fail, so that others are left to check
    None

ASSUME MailAssumption ==
    /\ None \notin Users
    /\ None \notin [idx : Ids, left : SUBSET Users, once : BOOLEAN]

VARIABLES
    mb,           \* the mailbox daemon: the owner (file) and the contents
                  \* (mailbox) of the box in memory, and all boxes on disk
    remain,       \* remain[id]: who has message id; its file is gone if {}
    sending,      \* send_mail() at work: [idx, left, once], or None
    mailer,       \* mailer[u]: [view, marked] of u's mailer, or None
    spool,        \* despool's variables: [owner, mailbox], or None when
                  \* nobody is at its question (they are set before it)
    asked,        \* who is at despool's question
    refused,      \* whose quit was refused after it had deleted (history)
    hurt          \* whose box has met a crash, an error or despool (history)

vars == <<mb, remain, sending, mailer, spool, asked, refused, hurt>>

-----------------------------------------------------------------------------
(* The mailbox daemon.                                                     *)

\* update_box(): write the box in memory and read u's.
\* Mutant: the box in memory is not written.
OpenedUnsaved(m, u) ==
    IF m.file = u THEN m
    ELSE [disk |-> m.disk, file |-> u, mailbox |-> m.disk[u]]
Opened(m, u) ==
    IF m.file = u THEN m
    ELSE [disk |-> IF m.file = None THEN m.disk
                   ELSE [m.disk EXCEPT ![m.file] = m.mailbox],
          file |-> u,
          mailbox |-> m.disk[u]]

\* flush_files()
Flushed(m) == IF m.file = None THEN m
              ELSE [m EXCEPT !.disk[m.file] = m.mailbox]

\* u's box, as the daemon has it
Box(m, u) == IF m.file = u THEN m.mailbox ELSE m.disk[u]

Holds(u) == {id \in Ids : u \in remain[id]}
Forget(r, u, ids) == [id \in Ids |-> IF id \in ids THEN r[id] \ {u} ELSE r[id]]

\* remove_message(): the message is taken from u, the entry out of the box.
RemovedMessage(s, u, num) ==
    LET m == Opened(s.mb, u) IN
    IF num \notin DOMAIN m.mailbox THEN [s EXCEPT !.mb = m]
    ELSE [mb     |-> [m EXCEPT !.mailbox = RemoveAt(@, num)],
          remain |-> Forget(s.remain, u, {m.mailbox[num]})]

\* The mailer's update_box(): its marked messages are removed, from the last
\* to the first; for the others set_flags() opens the box.
Settled(s, u, num) ==
    IF num \in mailer[u].marked THEN RemovedMessage(s, u, num)
    ELSE [s EXCEPT !.mb = Opened(@, u)]
\* Mutant: from the first to the last.
UpdatedUpwards(u) ==
    LET after[j \in 0..Len(mailer[u].view)] ==
            IF j = 0 THEN [mb |-> mb, remain |-> remain] ELSE Settled(after[j - 1], u, j)
    IN after[Len(mailer[u].view)]
\* after[j]: the boxes and messages when the last j have been looked at.
UpdatedBox(u) ==
    LET n == Len(mailer[u].view)
        after[j \in 0..n] == IF j = 0 THEN [mb |-> mb, remain |-> remain]
                             ELSE Settled(after[j - 1], u, n + 1 - j)
    IN after[n]

-----------------------------------------------------------------------------
Init ==
    /\ mb = [file |-> None, mailbox |-> <<>>, disk |-> [u \in Users |-> <<>>]]
    /\ remain = [id \in Ids |-> {}]
    /\ sending = None
    /\ mailer = [u \in Users |-> None]
    /\ spool = None /\ asked = {}
    /\ refused = {} /\ hurt = {}

Idle == sending = None
InMailer(u) == Idle /\ mailer[u] # None /\ u \notin asked

\* The mailer's copy of the box, read anew, and its flags.
\* Mutant: the marks of the old copy stay.
RereadKeepsMarks(u, view) ==
    [view |-> view, marked |-> IF mailer[u] = None THEN {} ELSE mailer[u].marked]
Reread(u, view) == [view |-> view, marked |-> {}]

\* The mail command.  init() reads the box from its file, do_resync() then
\* has the daemon open it, if there is something in it, write what it has
\* in memory, and reads again.
StartMail(u) ==
    /\ Idle /\ mailer[u] = None /\ u \notin asked
    /\ mb' = Flushed(IF mb.disk[u] = <<>> THEN mb ELSE Opened(mb, u))
    /\ mailer' = [mailer EXCEPT ![u] = Reread(u, mb'.disk[u])]
    /\ UNCHANGED <<remain, sending, spool, asked, refused, hurt>>

\* delete_mail(), undelete_mail(), do_save(): marks in the mailer's own copy
Mark(u) ==
    /\ InMailer(u)
    /\ \E i \in DOMAIN mailer[u].view :
          mailer' = [mailer EXCEPT ![u].marked =
                        IF i \in @ THEN @ \ {i} ELSE @ \cup {i}]
    /\ UNCHANGED <<mb, remain, sending, spool, asked, refused, hurt>>

\* do_quit(): the box is put in order first, and then it may be too full.
Refused(u) == /\ u \notin Admins
              /\ Len(mailer[u].view) - Cardinality(mailer[u].marked) > MaxMesgs
Quit(u) ==
    /\ InMailer(u)
    /\ remain' = UpdatedBox(u).remain
    /\ IF Refused(u)
       THEN /\ mb' = UpdatedBox(u).mb
            /\ refused' = IF mailer[u].marked = {} THEN refused
                          ELSE refused \cup {u}
            /\ UNCHANGED mailer
       ELSE /\ mb' = Flushed(UpdatedBox(u).mb)
            /\ refused' = refused \ {u}
            /\ mailer' = [mailer EXCEPT ![u] = None]
    /\ UNCHANGED <<sending, spool, asked, hurt>>

\* do_resync()
Resync(u) ==
    /\ InMailer(u)
    /\ remain' = UpdatedBox(u).remain
    /\ mb' = Flushed(UpdatedBox(u).mb)
    /\ refused' = refused \ {u}
    /\ mailer' = [mailer EXCEPT ![u] = Reread(u, mb'.disk[u])]
    /\ UNCHANGED <<sending, spool, asked, hurt>>

\* do_quit("Q"): the mailbox stays as it is.
QuitUnchanged(u) ==
    /\ InMailer(u)
    /\ u \in Admins \/ Len(mailer[u].view) <= MaxMesgs
    /\ mb' = Flushed(mb)
    /\ mailer' = [mailer EXCEPT ![u] = None]
    /\ refused' = refused \ {u}
    /\ UNCHANGED <<remain, sending, spool, asked, hurt>>

\* The player's link breaks: mailer and question are not answered any more.
LinkLost(u) ==
    /\ Idle /\ (mailer[u] # None \/ u \in asked)
    /\ mailer' = [mailer EXCEPT ![u] = None]
    /\ refused' = refused \ {u}
    /\ asked' = asked \ {u}
    /\ spool' = IF asked' = {} THEN None ELSE spool
    /\ UNCHANGED <<mb, remain, sending, hurt>>

-----------------------------------------------------------------------------
(* Sending.                                                                *)

\* send_mail(): add_mesg() writes the message, for all recipients, under a
\* number that no file has.  (Numbers are times, so one that a lost message
\* had does not come again.)  In the mailer, or as "mail <name>".
Send(u, to) ==
    /\ Idle /\ u \notin asked
    /\ \E id \in Ids :
          /\ remain[id] = {}
          /\ \A v \in Users : id \notin Range(Box(mb, v)) \cup Range(mb.disk[v])
          /\ spool # None => id \notin Range(spool.mailbox)
          /\ \A v \in Users : mailer[v] # None => id \notin Range(mailer[v].view)
          /\ remain' = [remain EXCEPT ![id] = to]
          /\ sending' = [idx |-> id, left |-> to, once |-> mailer[u] = None]
    /\ UNCHANGED <<mb, mailer, spool, asked, refused, hurt>>

\* ... and add_message() puts it into one box after the other.  After
\* "mail <name>" the box in memory is written.
\* Mutant: the entry is put into the box in memory, whosever it is.
Misdelivered(m, u, id) ==
    IF m.file = None THEN [Opened(m, u) EXCEPT !.mailbox = Append(@, id)]
    ELSE [m EXCEPT !.mailbox = Append(@, id)]
Delivered(m, u, id) == [Opened(m, u) EXCEPT !.mailbox = Append(@, id)]
Deliver ==
    /\ sending # None
    /\ \E v \in sending.left :
          LET m    == Delivered(mb, v, sending.idx)
              left == sending.left \ {v}
          IN  /\ mb' = IF left = {} /\ sending.once THEN Flushed(m) ELSE m
              /\ sending' = IF left = {} THEN None
                            ELSE [sending EXCEPT !.left = left]
    /\ UNCHANGED <<remain, mailer, spool, asked, refused, hurt>>

\* Another box is opened: somebody logs in or is fingered (mail_status()).
MailStatus(u) == /\ Idle
                 /\ mb' = Opened(mb, u)
                 /\ UNCHANGED <<remain, sending, mailer, spool, asked, refused, hurt>>

-----------------------------------------------------------------------------
(* despool: one command object, which remembers the last who asked.        *)

Despool(u) ==
    /\ Idle /\ mailer[u] = None /\ u \notin asked
    /\ asked' = IF mb.disk[u] = <<>> THEN asked ELSE asked \cup {u}
    /\ spool' = IF asked' = {} THEN None
                ELSE [owner |-> u, mailbox |-> mb.disk[u]]
    /\ UNCHANGED <<mb, remain, sending, mailer, refused, hurt>>

\* check_clean(): "y" of any of them takes the box of the last one, as it
\* was read; the mailbox daemon is not told.  After that owner is "".
DespoolYes(u) ==
    /\ Idle /\ u \in asked
    /\ asked' = asked \ {u}
    /\ IF spool.owner = None
       THEN /\ spool' = IF asked' = {} THEN None ELSE spool
            /\ UNCHANGED <<mb, remain, hurt>>
       ELSE /\ remain' = Forget(remain, spool.owner, Range(spool.mailbox))
            /\ mb' = [mb EXCEPT !.disk[spool.owner] = <<>>]
            /\ spool' = IF asked' = {} THEN None
                        ELSE [spool EXCEPT !.owner = None]
            /\ hurt' = hurt \cup {spool.owner}
    /\ UNCHANGED <<sending, mailer, refused>>

DespoolNo(u) ==
    /\ Idle /\ u \in asked
    /\ asked' = asked \ {u}
    /\ spool' = IF asked' = {} THEN None ELSE spool
    /\ UNCHANGED <<mb, remain, sending, mailer, refused, hurt>>

-----------------------------------------------------------------------------
(* Failures.                                                               *)

Unsaved == {u \in Users : mb.file = u /\ mb.mailbox # mb.disk[u]}
Undelivered == IF sending = None THEN {} ELSE sending.left

\* An error in send_mail(): the rest is not delivered.
SendFails == /\ sending # None
             /\ sending' = None
             /\ hurt' = hurt \cup Undelivered
             /\ UNCHANGED <<mb, remain, mailer, spool, asked, refused>>

\* The mailbox daemon is updated, or the driver crashes, perhaps in the
\* middle of putting a box in order: the files stay.
MemoryLost == mb' = [mb EXCEPT !.file = None, !.mailbox = <<>>]

DaemonUpdated == /\ Idle
                 /\ MemoryLost
                 /\ hurt' = hurt \cup Unsaved
                 /\ UNCHANGED <<remain, sending, mailer, spool, asked, refused>>

Crash ==
    /\ MemoryLost
    /\ \/ hurt' = hurt \cup Unsaved \cup Undelivered /\ UNCHANGED remain
       \/ \E u \in Users : /\ InMailer(u)
                           /\ remain' = UpdatedBox(u).remain
                           /\ hurt' = hurt \cup Unsaved \cup {u}
    /\ sending' = None
    /\ mailer' = [u \in Users |-> None]
    /\ spool' = None /\ asked' = {} /\ refused' = {}

Step ==
    \/ \E u \in Users : StartMail(u)
    \/ \E u \in Users : Mark(u)
    \/ \E u \in Users : Quit(u)
    \/ \E u \in Users : Resync(u)
    \/ \E u \in Users : QuitUnchanged(u)
    \/ \E u \in Users : LinkLost(u)
    \/ \E u \in Users, to \in (SUBSET Users) \ {{}} : Send(u, to)
    \/ Deliver
    \/ \E u \in Users : MailStatus(u)
    \/ \E u \in Users : Despool(u)
    \/ \E u \in Users : DespoolYes(u)
    \/ \E u \in Users : DespoolNo(u)
    \/ SendFails
    \/ DaemonUpdated
    \/ Crash

Next == Step /\ Cardinality(hurt') <= MaxHurt

Spec == Init /\ [][Next]_vars

-----------------------------------------------------------------------------
TypeOK ==
    /\ mb \in [file : Users \cup {None}, mailbox : Seq(Ids), disk : [Users -> Seq(Ids)]]
    /\ mb.file = None => mb.mailbox = <<>>
    /\ remain \in [Ids -> SUBSET Users]
    /\ sending # None =>
          sending \in [idx : Ids, left : (SUBSET Users) \ {{}}, once : BOOLEAN]
    /\ \A u \in Users : mailer[u] # None =>
          mailer[u].view \in Seq(Ids) /\ mailer[u].marked \subseteq DOMAIN mailer[u].view
    /\ spool # None => spool.owner \in Users \cup {None} /\ spool.mailbox \in Seq(Ids)
    /\ asked \subseteq Users /\ refused \subseteq Users /\ hurt \subseteq Users

\* A player's mailbox and the messages that name him agree, one to one,
\* whichever boxes the daemon opens, writes and swaps; a crash or an update
\* of the daemon breaks this for the one box it keeps in memory, or which is
\* being put in order, and for those the mail on its way has not reached.
BoxesMatch ==
    \A u \in Users \ hurt :
       /\ IsInjective(Box(mb, u))
       /\ Range(Box(mb, u)) = {id \in Holds(u) :
                                  ~(u \in Undelivered /\ id = sending.idx)}

\* An entry goes out of a mailbox because its owner has marked that message
\* in his mailer, by whatever number, with new mail coming in meanwhile; if
\* no quit of his was refused: a second one deletes again by the same numbers.
OnlyMarkedGo ==
    [][\A u \in Users \ (hurt' \cup refused) :
          \A id \in Range(Box(mb, u)) \ Range(Box(mb', u)) :
             mailer[u] # None /\ \E i \in mailer[u].marked : mailer[u].view[i] = id
      ]_vars
=============================================================================
