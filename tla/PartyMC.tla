------------------------------ MODULE PartyMC ------------------------------
(* Three players, parties of up to three, two invitations timed at once.       *)
EXTENDS Party, TLC

Symmetry == Permutations(Players)
=============================================================================
