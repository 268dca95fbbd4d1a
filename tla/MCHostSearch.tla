---------------------------- MODULE MCHostSearch ----------------------------
(* Values of the constants of HostSearch for TLC. *)
EXTENDS HostSearch

\* checkc, a kernel thread, and the processes that may change.
MCPid == 1 .. 4
MCKthread == {2}
MCNs == {"host", "c1", "c2"}
MCHostProcfs == {"host"}

\* A scan of everything, and one of a container.
MCPidCfgs ==
    {[list |-> {}, include |-> FALSE],
     [list |-> {3, 4}, include |-> TRUE]}
=============================================================================
