--------------------------- MODULE MCContainerPids ---------------------------
(* Values of the constants of ContainerPids for TLC: PID 1, checkc, the      *)
(* init of the container and three more processes.                           *)
EXTENDS ContainerPids

MCPid == 1 .. 6
MCNs == {"host"}

\* Three events, or up to MaxEvents of them when the last PID is never in use:
\* two processes that are both replaced under a climb take six.
MCBudget == events <= 3 \/ (proc[6].st = "free" /\ proc[6].gen = 0)

MCNext == CpNext /\ MCBudget'

MCSpec == CpInit /\ [][MCNext]_cpVars /\ WF_cpVars(Walk)
=============================================================================
