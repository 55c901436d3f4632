-------------------------- MODULE MCHealthMonitor --------------------------
(***************************************************************************)
(* One model (models do not interact), two torrents of it and two          *)
(* coroutines; one monitor thread can be left over.                        *)
(***************************************************************************)
EXTENDS HealthMonitorProps

CONSTANTS m1, v1, v2
=============================================================================
