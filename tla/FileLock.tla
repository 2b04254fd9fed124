----------------------------- MODULE FileLock ------------------------------
(***************************************************************************)
(* The file lock daemon (adm/daemons/flock.c) and those who lock through   *)
(* it: the editor command (cmds/file/_ed.c), commands that lock for the    *)
(* length of one call (_rm.c, _cp.c, _mv.c), the log comment command       *)
(* (cmds/adm/_clog.c) and the ftp daemon (network/ftpd.c); with the bodies *)
(* that come, lose their link, reconnect and leave (std/user.c).           *)
(*                                                                         *)
(* A lock is kept under the file name of the object that took it.  Names   *)
(* of clones are not used twice, so a body stands for its name.  Each call *)
(* is one action: LPC runs one at a time.  Paths are abstract; the copy    *)
(* that ed makes of a busy file is <<account, file>>.  Everybody may write *)
(* every file here.  A body's read-only edit takes no lock and is left out.*)
(***************************************************************************)
EXTENDS Places, SequencesExt

CONSTANTS
    Bodies,    \* user bodies; each enters the game once
    Euid,      \* Euid[b]: the account of body b
    Admins,    \* accounts that adminp() accepts
    Files,     \* paths
    FtpD,      \* the ftp daemon, one object for all transfers
    None       \* LPC's 0

Accounts == {Euid[b] : b \in Bodies}
Tmp(b, f) == <<Euid[b], f>>
Paths == Files \cup (Accounts \X Files)
Lockers == Bodies \cup {FtpD}

\* 0 is no path and no object, and the ftp daemon is nobody's body.
ASSUME FileLockAssumption ==
    None \notin Paths \cup Lockers /\ FtpD \notin Bodies

VARIABLES
    table,     \* the daemon's files, lockobjs and filestats
    status,    \* status[b]: "out", "in" (interactive), "linkdead", "gone"
    edit,      \* edit[b]: the path in b's ed buffer, or None
    clog,      \* clog[n]: the file account n comments, file_info of _clog.c
    writing,   \* the bodies at clog's prompt for the comment
    upload     \* the files the ftp daemon is storing

vars == <<table, status, edit, clog, writing, upload>>

-----------------------------------------------------------------------------
(* The table: files[i] is locked by lockobjs[i]; stats[p] is the object    *)
(* that asked ("prevobj"), for the locked paths p.                         *)

Locked(t, p) == p \in ToSet(t.files)
Pos(t, p) == SelectInSeq(t.files, LAMBDA q : q = p)
OwnerOf(t, p) == IF Locked(t, p) THEN t.lockobjs[Pos(t, p)] ELSE None
OwnedBy(t, l) == l \in ToSet(t.lockobjs)

\* flock() with F_LOCK: may object l have path p, when prev asks for it?
\* Mutant: an owner that is no user counts as link-dead.
StaleFtp(p) == Locked(table, p) /\
    (OwnerOf(table, p) \in Bodies => status[OwnerOf(table, p)] = "linkdead")
Stale(p) == OwnerOf(table, p) \in Bodies /\ status[OwnerOf(table, p)] = "linkdead"
\* Mutant: the reuse of an ed lock is not for its owner only.
ReusableByAll(l, p, prev) == /\ Locked(table, p)
                             /\ prev = "ed" /\ table.stats[p] = "ed"
                             /\ edit[l] = None
Reusable(l, p, prev) == /\ OwnerOf(table, p) = l
                        /\ prev = "ed" /\ table.stats[p] = "ed"
                        /\ edit[l] = None
CanLock(l, p, prev) == \/ ~Locked(table, p)
                       \/ Stale(p)
                       \/ Reusable(l, p, prev)

\* ... and what it leaves.  A stale lock changes hands, its stats do not.
\* Mutant: a stale lock is added again, not handed over.
AfterLockTwice(t, l, p, prev) ==
    [files |-> Append(t.files, p), lockobjs |-> Append(t.lockobjs, l),
     stats |-> [q \in DOMAIN t.stats \cup {p} |-> IF q = p THEN prev ELSE t.stats[q]]]
AfterLock(t, l, p, prev) ==
    IF Locked(t, p) THEN [t EXCEPT !.lockobjs[Pos(t, p)] = l]
    ELSE [files |-> Append(t.files, p), lockobjs |-> Append(t.lockobjs, l),
          stats |-> [q \in DOMAIN t.stats \cup {p} |->
                        IF q = p THEN prev ELSE t.stats[q]]]


\* Entry p is deleted: files loses every p, lockobjs the one at p's place.
\* Mutant: no map_delete().
AfterUnlockKeepsStats(t, p) ==
    IF ~Locked(t, p) THEN t
    ELSE [t EXCEPT !.files = At(@, {i \in DOMAIN @ : @[i] # p}),
                   !.lockobjs = At(@, DOMAIN @ \ {Pos(t, p)})]
AfterUnlock(t, p) ==
    IF ~Locked(t, p) THEN t
    ELSE [files |-> At(t.files, {i \in DOMAIN t.files : t.files[i] # p}),
          lockobjs |-> At(t.lockobjs, DOMAIN t.lockobjs \ {Pos(t, p)}),
          stats |-> [q \in DOMAIN t.stats \ {p} |-> t.stats[q]]]

\* query_lockfn() asked by ed: the first file l has locked through ed.
EdFile(t, l) ==
    LET i == SelectInSeq(t.files, LAMBDA q : OwnerOf(t, q) = l /\ t.stats[q] = "ed")
    IN IF i = 0 THEN None ELSE t.files[i]

\* done_editing() of ed, run for body l.
AfterEditing(t, l) == AfterUnlock(t, EdFile(t, l))

\* free_lockobj(): the entries of l are deleted, one after the other; those
\* at the places K are left.
Keeping(t, K) ==
    [files |-> At(t.files, K), lockobjs |-> At(t.lockobjs, K),
     stats |-> [q \in {t.files[i] : i \in K} |-> t.stats[q]]]
\* Mutant: "if" for "while".
AfterFreeOne(t, l) ==
    Keeping(t, DOMAIN t.files \ {SelectInSeq(t.lockobjs, LAMBDA o : o = l)})
AfterFree(t, l) == Keeping(t, {i \in DOMAIN t.files : t.lockobjs[i] # l})

\* free_lockobj() of a body l that edits, called by x # l: entries are
\* deleted up to the first that ed asked for; then done_editing() runs for x
\* instead of l, again and again, and the call ends in "Too long evaluation".
AfterFailedFree(t, l, x) ==
    LET ByEd(i) == t.stats[t.files[i]] = "ed"
        Freed(i) == t.lockobjs[i] = l /\ \A j \in 1..i : t.lockobjs[j] = l => ~ByEd(j)
        Edited(i) == t.lockobjs[i] = x /\ ByEd(i)
    IN Keeping(t, {i \in DOMAIN t.files : ~Freed(i) /\ ~Edited(i)})

-----------------------------------------------------------------------------
(* Bodies *)

Init ==
    /\ table = [files |-> <<>>, lockobjs |-> <<>>, stats |-> <<>>]
    /\ status = [b \in Bodies |-> "out"]
    /\ edit = [b \in Bodies |-> None]
    /\ clog = [n \in Accounts |-> None]
    /\ writing = {}
    /\ upload = {}

\* A body enters the game; an account has one body there at a time.
Login(b) ==
    /\ status[b] = "out"
    /\ \A c \in Bodies : Euid[c] = Euid[b] => status[c] \in {"out", "gone"}
    /\ status' = [status EXCEPT ![b] = "in"]
    /\ UNCHANGED <<table, edit, clog, writing, upload>>

\* The link breaks, or is taken by another connection of the account and
\* the body at once exec'ed to that.  The driver frees the ed buffer and
\* the input_to; done_editing() has no this_player() of the body and fails.
LinkLost(b, st) ==
    /\ status' = [status EXCEPT ![b] = st]
    /\ edit' = [edit EXCEPT ![b] = None]
    /\ writing' = writing \ {b}
    /\ UNCHANGED <<table, clog, upload>>
NetDead(b) == status[b] = "in" /\ LinkLost(b, "linkdead")
Displaced(b) == status[b] = "in" /\ b \in writing \cup {c \in Bodies : edit[c] # None}
                /\ LinkLost(b, "in")

Reconnect(b) ==
    /\ status[b] = "linkdead"
    /\ status' = [status EXCEPT ![b] = "in"]
    /\ UNCHANGED <<table, edit, clog, writing, upload>>

\* The body is removed: quit() (also as "!quit" in the editor), remove().
Leave(b) ==
    /\ status' = [status EXCEPT ![b] = "gone"]
    /\ edit' = [edit EXCEPT ![b] = None]
    /\ writing' = writing \ {b}
    /\ table' = AfterFree(table, b)
    /\ UNCHANGED <<clog, upload>>
Quit(b) == status[b] = "in" /\ Leave(b)

\* call_user_dump() of a link-dead body, LINKDEAD_DUMP after net_dead().
Sweep(b) == status[b] = "linkdead" /\ Leave(b)

\* An admin removes another body ("dest"; "!dest" while it edits itself).
Dest(x, b) ==
    /\ x # b /\ status[x] = "in" /\ Euid[x] \in Admins
    /\ status[b] \in {"in", "linkdead"}
    /\ edit[b] = None \/ EdFile(table, b) = None
    /\ Leave(b)

\* The same for a body in its editor: remove() never gets past free_locks().
DestEditing(x, b) ==
    /\ x # b /\ status[x] = "in" /\ Euid[x] \in Admins
    /\ edit[b] # None /\ EdFile(table, b) # None
    /\ table' = AfterFailedFree(table, b, x)
    /\ UNCHANGED <<status, edit, clog, writing, upload>>

-----------------------------------------------------------------------------
(* Those who lock *)

\* "ed f": the file, or a copy of it when it is busy.
Ed(b, f) ==
    /\ status[b] = "in" /\ edit[b] = None
    /\ LET p == IF CanLock(b, f, "ed") THEN f ELSE Tmp(b, f) IN
        /\ CanLock(b, p, "ed")
        /\ table' = AfterLock(table, b, p, "ed")
        /\ edit' = [edit EXCEPT ![b] = p]
    /\ UNCHANGED <<status, clog, writing, upload>>

\* The editor ends and calls done_editing().
EdQuit(b) ==
    /\ status[b] = "in" /\ edit[b] # None
    /\ edit' = [edit EXCEPT ![b] = None]
    /\ table' = AfterEditing(table, b)
    /\ UNCHANGED <<status, clog, writing, upload>>

\* rm, cp and mv lock, work and unlock in one call: all that is left of a
\* link-dead body's lock is nothing.
LockBriefly(b, f) ==
    /\ status[b] = "in" /\ CanLock(b, f, "other")
    /\ table' = AfterUnlock(AfterLock(table, b, f, "other"), f)
    /\ UNCHANGED <<status, edit, clog, writing, upload>>

\* "clog f": the lock is held while the admin writes a comment.
Clog(b, f) ==
    /\ status[b] = "in" /\ Euid[b] \in Admins
    /\ clog[Euid[b]] = None
    /\ CanLock(b, f, "clog")
    /\ table' = AfterLock(table, b, f, "clog")
    /\ clog' = [clog EXCEPT ![Euid[b]] = f]
    /\ writing' = writing \cup {b}
    /\ UNCHANGED <<status, edit, upload>>

\* edit_done() and abort(); an admin may unlock whatever is locked.  The
\* driver gives input to ed first.
ClogDone(b) ==
    /\ b \in writing /\ edit[b] = None
    /\ writing' = writing \ {b}
    /\ clog' = [clog EXCEPT ![Euid[b]] = None]
    /\ table' = IF clog[Euid[b]] = None THEN table
                ELSE AfterUnlock(table, clog[Euid[b]])
    /\ UNCHANGED <<status, edit, upload>>

\* "clog clear" forgets a comment that was never finished.
ClogClear(b) ==
    /\ status[b] = "in" /\ clog[Euid[b]] # None
    /\ table' = IF OwnerOf(table, clog[Euid[b]]) = b
                THEN AfterUnlock(table, clog[Euid[b]]) ELSE table
    /\ clog' = [clog EXCEPT ![Euid[b]] = None]
    /\ UNCHANGED <<status, edit, writing, upload>>

\* stor, stou, appe: the ftp daemon has no this_player(), so it owns the
\* lock itself and flock() lets it unlock anything.
FtpStore(f) ==
    /\ CanLock(FtpD, f, "other")
    /\ table' = AfterLock(table, FtpD, f, "other")
    /\ upload' = upload \cup {f}
    /\ UNCHANGED <<status, edit, clog, writing>>
FtpStored(f) ==
    /\ f \in upload
    /\ table' = AfterUnlock(table, f)
    /\ upload' = upload \ {f}
    /\ UNCHANGED <<status, edit, clog, writing>>

Next ==
    \/ \E b \in Bodies :
        \/ Login(b) \/ NetDead(b) \/ Displaced(b) \/ Reconnect(b)
        \/ Quit(b) \/ Sweep(b) \/ EdQuit(b) \/ ClogDone(b) \/ ClogClear(b)
        \/ \E x \in Bodies : Dest(x, b) \/ DestEditing(x, b)
        \/ \E f \in Files : Ed(b, f) \/ LockBriefly(b, f) \/ Clog(b, f)
    \/ \E f \in Files : FtpStore(f) \/ FtpStored(f)

\* call_outs come, and the network delivers or breaks a transfer.  Users
\* need not do anything.
Fairness == /\ \A b \in Bodies : WF_vars(Sweep(b))
            /\ \A f \in Files : WF_vars(FtpStored(f))

Spec == Init /\ [][Next]_vars /\ Fairness

-----------------------------------------------------------------------------
(* Properties *)

\* The state is of its types, and there are stats for the locked paths only.
TypeOK ==
    /\ table \in [files : Seq(Paths), lockobjs : Seq(Lockers),
                  stats : [ToSet(table.files) -> {"ed", "clog", "other"}]]
    /\ status \in [Bodies -> {"out", "in", "linkdead", "gone"}]
    /\ edit \in [Bodies -> Paths \cup {None}]
    /\ clog \in [Accounts -> Files \cup {None}]
    /\ writing \subseteq Bodies /\ upload \subseteq Files

\* The two arrays agree, and no path is locked twice.  flock() calls
\* create(), which forgets all locks, when the lengths differ; and one
\* "files -=" takes every equal path away while lockobjs loses one place.
Aligned == /\ Len(table.files) = Len(table.lockobjs)
           /\ IsInjective(table.files)

\* Who goes on editing a path, or storing it by ftp, keeps its lock, although
\* link-dead owners lose theirs and flock() lets some callers unlock what is
\* not theirs.  No command of a player takes such a lock: only one of an admin
\* (a removal that fails because the other edits, a log comment whose lock was
\* lost before), or the end of a transfer from which an admin took the lock.
Unchecked ==
    \/ \E a \in Bodies : Euid[a] \in Admins /\
          (ClogDone(a) \/ ClogClear(a) \/ \E b \in Bodies : DestEditing(a, b))
    \/ \E f \in Files : FtpStored(f) /\ OwnerOf(table, f) # FtpD
LocksInUseStay ==
    [][/\ \A b \in Bodies :
            edit[b] # None /\ edit'[b] = edit[b] /\ OwnerOf(table, edit[b]) = b
                => OwnerOf(table', edit[b]) = b \/ Unchecked
       /\ \A f \in upload \cap upload' :
            OwnerOf(table, f) = FtpD => OwnerOf(table', f) = FtpD \/ Unchecked]_vars

\* A lock that somebody left behind by going link-dead ends, unless they
\* come back.
StaleLocksEnd ==
    \A b \in Bodies : \A p \in Paths :
        OwnerOf(table, p) = b /\ status[b] = "linkdead"
            ~> OwnerOf(table, p) # b \/ status[b] = "in"

\* The arrays implement a table of owners; above all, a body that has left the
\* game owns nothing: its locks could never be taken again.
Promise == INSTANCE LockTable WITH owner <- [p \in Paths |-> OwnerOf(table, p)]
ImplementsLockTable == Promise!Spec
=============================================================================
