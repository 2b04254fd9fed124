---------------------------- MODULE FileLockMC -----------------------------
(* Two accounts for TLC: an admin, and a player who comes twice. *)
EXTENDS FileLock
CONSTANTS b1, b2, b3, n1, n2

MCEuid == (b1 :> n1) @@ (b2 :> n2) @@ (b3 :> n2)
=============================================================================
