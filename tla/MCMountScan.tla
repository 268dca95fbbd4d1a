----------------------------- MODULE MCMountScan -----------------------------
(* Values of the constants of MountScan for TLC. *)
EXTENDS MountScan

MCPid == 1 .. 5
MCKthread == {2}
MCNs == {"host", "c1", "c2"}

\* No list; the processes of a container; everything but a container.
MCPidCfgs ==
    {[list |-> {}, include |-> FALSE],
     [list |-> {3, 4}, include |-> TRUE],
     [list |-> {4}, include |-> FALSE]}
=============================================================================
