----------------------------- MODULE RebootMC ------------------------------
(* The daemons with two queues and a tick of half a minute.                *)
EXTENDS Reboot

MCOrder == <<"once", "daily">>
MCPeriod == [t \in {"once", "daily"} |-> IF t = "daily" THEN 11 ELSE 0]
MCWhat == [e \in {"log", "loop", "reboot"} |->
             CASE e = "log" -> "returns" [] e = "loop" -> "runs away"
               [] OTHER -> "shuts down"]
=============================================================================
