---- MODULE DriverProcess ----
(* The driver's process, which runs the daemons of the mudlib and takes    *)
(* their variables and call_outs with it when it ends, by shutdown() or a  *)
(* crash.  A script starts it again.  Time passes in ticks, and all times  *)
(* are kept relative to the present: only differences of time() are used.  *)
EXTENDS Integers

CONSTANTS
    None,      \* LPC's 0
    MaxLag,    \* the driver calls a call_out at most MaxLag ticks late
    MaxDown    \* bound: the driver is started again within MaxDown ticks

ASSUME LagAssumption == MaxLag \in Nat /\ MaxDown \in Nat
ASSUME NoneAssumption == None \notin Int

VARIABLE
    down       \* 0 while the driver runs, then 1 + the ticks it was down

Up == down = 0

Ended == down' = 1

Started == ~Up /\ down' = 0

\* A tick: a process that has ended is not left so for long.
DownPasses == \/ Up /\ UNCHANGED down
              \/ ~Up /\ down <= MaxDown /\ down' = down + 1

DownTypeOK == down \in 0 .. MaxDown + 1
====
