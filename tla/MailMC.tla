------------------------------- MODULE MailMC -------------------------------
(* Two players, one of them an administrator, and up to three messages.    *)
EXTENDS Mail

Symmetry == Permutations(Ids)
=============================================================================
