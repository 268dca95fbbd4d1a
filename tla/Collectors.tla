------------------------------ MODULE Collectors ------------------------------
(***************************************************************************)
(* The collectors of host mode that read a system in motion, in the order  *)
(* in which main.rs calls them: the hierarchy of the user namespaces, the  *)
(* limits of the cgroup, the uniqueness of the mapping.  Each reads /proc  *)
(* on its own; an error or a panic of one ends the run.  The hierarchy of  *)
(* the PID namespaces is built by the same code.                           *)
(***************************************************************************)
EXTENDS NsHierarchy, UserNsMapping, CgroupLimits

coVars == <<unsVars, nhVars, umVars, cgWorldVars, cgVars>>

\* The calls of main().
CallHierarchy == NhNext /\ UNCHANGED <<umVars, cgVars>>
CallCgroup == hierarchy = "built" /\ CgNext /\ UNCHANGED <<nhVars, umVars>>
CallMapping == cg = "done" /\ UmNext /\ UNCHANGED <<nhVars, cgVars>>

Checkc ==
    /\ CallHierarchy \/ CallCgroup \/ CallMapping
    /\ UNCHANGED <<unsVars, cgWorldVars>>

\* The two kinds of events touch nothing in common and share one bound.
\* While the limits are read nobody looks at user namespaces: what happens to
\* them then is as if it happened when unique_mapping starts.
World ==
    /\ uevents + cgevents < MaxUEvents
    /\ \/ (hierarchy = "built" => cg = "done") /\ UnsNext /\ UNCHANGED cgWorldVars
       \/ CgWorldNext /\ UNCHANGED unsVars
    /\ UNCHANGED <<nhVars, umVars, cgVars>>

CoInit == UnsInit /\ NhInit /\ UmInit /\ CgInit

CoNext == Checkc \/ World

CoSpec == CoInit /\ [][CoNext]_coVars

\* Every variable has its type, a collector runs after those before it, and
\* a climb through the cgroups ends in an answer that is not that of a cgroup
\* without the file.
CoTypeOK ==
    /\ UnsTypeOK
    /\ CgTypeOK
    /\ hierarchy \in {"list", "read", "built"}
    /\ hpids \subseteq UPid /\ upids \subseteq UPid \ {Cont}
    /\ id_map \subseteq UserNs \X UserNs
    /\ tree \subseteq Populated(UserNs \X UserNs)
    /\ unique \in {"start", "id", "owner", "map", "true", "false", "err"}
    /\ read_id \in UserNs
    /\ unique # "start" => cg = "done"
    /\ cg # "cgroup" => hierarchy = "built"
    /\ cg = "done" => \A r \in Resource : interface_files[r] # "unread"
=============================================================================
