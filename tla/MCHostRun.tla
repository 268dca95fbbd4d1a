----------------------------- MODULE MCHostRun -----------------------------
(* Values of the constants of HostRun for TLC: the three init processes and  *)
(* two more PIDs, which are in use or not when checkc starts.                *)
EXTENDS HostRun

MCPid == 1 .. 5
=============================================================================
