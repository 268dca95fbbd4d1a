------------------------------- MODULE Census -------------------------------
(***************************************************************************)
(* What a caller in main.rs may rely on when it asks a question about the  *)
(* processes of a system that does not stand still: which are those of the *)
(* container (get_container_pids), whose mount namespaces were searched    *)
(* (fs_config_hostview).  The answer is no snapshot.  It names every       *)
(* process that qualified throughout, and only processes that may have     *)
(* qualified; the call fails only if something lets it, a process that     *)
(* vanished under it or one whose name it cannot read.                     *)
(***************************************************************************)
CONSTANT Pid

VARIABLES
    census,     \* "taking" the census, or its outcome
    must,       \* the processes that have qualified all along
    may,        \* the processes that may have qualified at some time
    disturbed,  \* there is, or was, something that lets the call fail
    counted     \* the answer

censusVars == <<census, must, may, disturbed, counted>>

CensusInit ==
    /\ census = "taking"
    /\ must \subseteq may
    /\ may \subseteq Pid
    /\ disturbed \in BOOLEAN
    /\ counted = {}

\* The system changes, also after the answer.  What qualified throughout can
\* only become less, what may have qualified only more.
Change ==
    /\ must' \in SUBSET must
    /\ may \subseteq may' /\ may' \subseteq Pid
    /\ disturbed => disturbed'
    /\ UNCHANGED <<census, counted>>

Return ==
    /\ census = "taking"
    /\ census' = "ok"
    /\ \E answer \in SUBSET may : must \subseteq answer /\ counted' = answer
    /\ UNCHANGED <<must, may, disturbed>>

Fail ==
    /\ census = "taking"
    /\ disturbed
    /\ census' = "err"
    /\ UNCHANGED <<must, may, disturbed, counted>>

CensusNext == Return \/ Fail \/ Change

\* What the call answers, if it does.
CensusSafety == CensusInit /\ [][CensusNext]_censusVars

\* Somebody is counting: the call returns, or fails.
Answered == <>(census # "taking")

CensusSpec == CensusSafety /\ Answered
=============================================================================
