----------------------------- MODULE SessionMC -----------------------------
(***************************************************************************)
(* Instances of Session for TLC.                                           *)
(***************************************************************************)
EXTENDS Session, TLC

\* The members of these sets play the same part; Name is left out because
\* some names are wizards or new.
Symmetry == Permutations(Sock) \cup Permutations(Conn) \cup Permutations(Body)
=============================================================================
