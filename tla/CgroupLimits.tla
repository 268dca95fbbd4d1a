----------------------------- MODULE CgroupLimits -----------------------------
(***************************************************************************)
(* cgroup_config() of src/c_config/cgroup.rs: the limits of the container. *)
(* Its cgroup is read from /proc/<pid>/cgroup again for each file; for     *)
(* cpu.max and for memory.max the code climbs towards the root, one file   *)
(* at a time, and stops for different reasons.                             *)
(***************************************************************************)
EXTENDS ProcessTree

CONSTANTS
    Cgroup,         \* the cgroups but the root
    RootCgroup,
    CgroupParent,   \* the parent of each
    Limits,         \* what the limits may be to begin with
    MaxCgEvents     \* bound on the changes of limits and moves

Resource == {"cpu", "memory"}
Limit == {"absent", "max", "limit"}

\* No cgroup is above itself.
ASSUME CgroupAssumption ==
    /\ RootCgroup \notin Cgroup
    /\ CgroupParent \in [Cgroup -> Cgroup \cup {RootCgroup}]
    /\ \A S \in SUBSET Cgroup : S # {} => \E g \in S : CgroupParent[g] \notin S
    /\ Limits \subseteq [Resource -> [Cgroup -> Limit]]
    /\ MaxCgEvents \in Nat

VARIABLES
    cgroup_of,      \* the cgroup of the container's init process
    limit,          \* what cpu.max and memory.max say in each cgroup
    removed,        \* cgroups that are gone
    cgevents,       \* how many events have happened
    cg_moved,       \* history: the container was moved
    relimited,      \* history: cgroups the limit of which was changed
    cg,             \* where cgroup_config is
    path_cgroup,    \* the cgroup it looks at
    interface_files \* the result

cgWorldVars == <<cgroup_of, limit, removed, cgevents, cg_moved, relimited>>
cgVars == <<cg, path_cgroup, interface_files>>

CgTypeOK ==
    /\ cgroup_of \in Cgroup
    /\ limit \in [Resource -> [Cgroup -> Limit]]
    /\ removed \subseteq Cgroup
    /\ cgevents \in 0 .. MaxCgEvents
    /\ cg_moved \in BOOLEAN
    /\ relimited \subseteq Resource \X Cgroup
    /\ cg \in {"cgroup", "controllers", "get", "cpu", "memory", "done", "err", "panic"}
    /\ path_cgroup \in Cgroup \cup {RootCgroup}
    /\ interface_files \in [Resource -> {"unread", "none", "max", "limit"}]

CgInit ==
    /\ limit \in Limits
    /\ cgroup_of \in {g \in Cgroup : \A h \in Cgroup : CgroupParent[h] # g}
    /\ removed = {}
    /\ cgevents = 0
    /\ cg_moved = FALSE
    /\ relimited = {}
    /\ cg = "cgroup"
    /\ path_cgroup = RootCgroup
    /\ interface_files = [r \in Resource |-> "unread"]

\* What happens before the first read is in the initial states, what happens
\* after the last shows nowhere.
CgHappens ==
    /\ cg \notin {"cgroup", "done", "err", "panic"}
    /\ cgevents < MaxCgEvents
    /\ cgevents' = cgevents + 1

\* podman update, systemctl set-property on the container or a slice above it.
SetLimit(r, g, l) ==
    /\ CgHappens
    /\ g \in Lineage(CgroupParent, {cgroup_of})
    /\ limit[r][g] \notin {"absent", l}
    /\ limit' = [limit EXCEPT ![r][g] = l]
    /\ relimited' = relimited \cup {<<r, g>>}
    /\ UNCHANGED <<cgroup_of, removed, cg_moved>>

\* The container goes to another cgroup, and its old one is removed.
MoveCgroup(g) ==
    /\ CgHappens
    /\ g \notin removed \cup {cgroup_of}
    /\ CgroupParent[g] = CgroupParent[cgroup_of]
    /\ cgroup_of' = g
    /\ removed' = removed \cup {cgroup_of}
    /\ cg_moved' = TRUE
    /\ UNCHANGED <<limit, relimited>>

CgWorldNext ==
    \/ \E g \in Cgroup : MoveCgroup(g)
    \/ \E r \in Resource, g \in Cgroup, l \in {"max", "limit"} : SetLimit(r, g, l)

(***************************************************************************)
(* cgroup_config().                                                        *)
(***************************************************************************)
\* get_cgroup(), once for the report and once for each of the three files.
GetCgroup ==
    /\ cg \in {"cgroup", "get"}
    /\ path_cgroup' = cgroup_of
    /\ cg' = IF cg = "cgroup" THEN "controllers"
             ELSE IF interface_files["cpu"] = "unread" THEN "cpu" ELSE "memory"
    /\ UNCHANGED interface_files

\* cgroup.controllers is in every cgroup; its absence is a panic.
GetControllers ==
    /\ cg = "controllers"
    /\ cg' = IF path_cgroup \in removed THEN "panic" ELSE "get"
    /\ UNCHANGED <<path_cgroup, interface_files>>

\* Mutant of Climbs: the climb for memory.max ends like the one for cpu.max.
Climbs_First(r) == limit[r][path_cgroup] = "absent"

\* cpu.max: the first file there is; memory.max: the first that is not "max".
Climbs(r) ==
    limit[r][path_cgroup] = "absent" \/ (r = "memory" /\ limit[r][path_cgroup] = "max")

Found(r, l) ==
    /\ interface_files' = [interface_files EXCEPT ![r] = l]
    /\ cg' = IF r = "cpu" THEN "get" ELSE "done"

ClimbStep(r) ==
    /\ cg = r
    /\ IF path_cgroup = RootCgroup THEN Found(r, "none") /\ UNCHANGED path_cgroup
       ELSE IF path_cgroup \in removed \/ Climbs(r)
       THEN path_cgroup' = CgroupParent[path_cgroup] /\ UNCHANGED <<cg, interface_files>>
       ELSE Found(r, limit[r][path_cgroup]) /\ UNCHANGED path_cgroup

\* The container moves while checkc has the file of its cgroup open: the cgroup
\* is removed, the read fails, and `?` ends cgroup_config.
ReadFails(r) ==
    /\ cg = r
    /\ path_cgroup = cgroup_of
    /\ limit[r][path_cgroup] # "absent"
    /\ cg' = "err"
    /\ UNCHANGED <<path_cgroup, interface_files>>

CgNext ==
    \/ GetCgroup \/ GetControllers
    \/ \E r \in Resource : ClimbStep(r) \/ ReadFails(r)

\* The cgroups whose limits hold for the container.
Chain == Lineage(CgroupParent, {cgroup_of})

Limited(r) == {g \in Chain : limit[r][g] = "limit"}

\* What evaluation takes for a limit limits the container, up to a change of
\* that limit: a limit in the report is one of a cgroup above the container,
\* a memory limit that is there all along is not missed, and a CPU limit is
\* not missed where no cgroup between it and the container has a cpu.max file.
LimitsAreEffective ==
    cg = "done" /\ ~cg_moved =>
        /\ \A r \in Resource :
            interface_files[r] = "limit" =>
                Limited(r) # {} \/ \E g \in Chain : <<r, g>> \in relimited
        /\ \A r \in Resource : \A g \in Limited(r) :
            /\ <<r, g>> \notin relimited
            /\ r = "cpu" => \A h \in Chain \ Lineage(CgroupParent, {g}) : limit["cpu"][h] = "absent"
            => interface_files[r] = "limit"
=============================================================================
