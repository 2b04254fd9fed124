----------------------------- MODULE LockTable -----------------------------
(***************************************************************************)
(* What the file lock daemon promises, without its arrays: a table that    *)
(* gives each path at most one owner.  A lock passes from one owner to     *)
(* another only when the first is link-dead, and a body that has left the  *)
(* game owns nothing.                                                      *)
(***************************************************************************)
CONSTANTS Paths, Bodies, FtpD, None
VARIABLES
    owner,   \* owner[p]: the object that locked path p, or None
    status   \* status[b]: "out", "in", "linkdead" or "gone"

vars == <<owner, status>>

Init == /\ owner = [p \in Paths |-> None]
        /\ status = [b \in Bodies |-> "out"]

\* A path may be locked when nobody owns it or its owner has lost its link.
Grant(l, p) ==
    /\ l \in Bodies => status[l] = "in"
    /\ owner[p] \in Bodies => status[owner[p]] = "linkdead"
    /\ owner[p] # FtpD
    /\ owner' = [owner EXCEPT ![p] = l]
    /\ UNCHANGED status

\* Any set of locks may be given up.
Release(S) ==
    /\ owner' = [p \in Paths |-> IF p \in S THEN None ELSE owner[p]]
    /\ UNCHANGED status

\* Bodies come and go; one that leaves for good gives up all its locks.
Move(b) ==
    \E st \in {"in", "linkdead", "gone"} :
        /\ status' = [status EXCEPT ![b] = st]
        /\ owner' = [p \in Paths |->
                        IF st = "gone" /\ owner[p] = b THEN None ELSE owner[p]]

Next == \/ \E l \in Bodies \cup {FtpD}, p \in Paths : Grant(l, p)
        \/ \E S \in SUBSET Paths : Release(S)
        \/ \E b \in Bodies : status[b] # "gone" /\ Move(b)

Spec == Init /\ [][Next]_vars
=============================================================================
