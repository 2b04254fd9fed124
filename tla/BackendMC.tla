----------------------------- MODULE BackendMC -----------------------------
(* The driver's clock for TLC: the cfgs give all constants. *)
EXTENDS Backend
=============================================================================
