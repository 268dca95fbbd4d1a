----------------------------- MODULE MCJudgement -----------------------------
(* Configurations for TLC. *)
EXTENDS Judgement

AllOwn == [n \in NsType |-> IF n = "user" THEN "host" ELSE "own"]
AllHost == [n \in NsType |-> "host"]

Baseline ==
    [unshared |-> NsType, owner |-> AllOwn, cap_prm |-> {}, root |-> "pivot",
     host_flags |-> {}, ref_flags |-> {}, dev_devices |-> {}, mknod_devices |-> {},
     cpu_max |-> "limited", memory_max |-> "limited", uid_map_parents |-> {"user"},
     unique_mapping |-> TRUE]

Unshared ==
    {{}, {"user"}, {"user", "mount"}, {"mount", "pid", "network"}, NsType}
        \cup {NsType \ {n} : n \in NsType}

\* The namespaces of a container without a user namespace belong to the
\* host's, or to some other one.
Owners(unshared) ==
    IF "user" \in unshared
    THEN {AllOwn, AllHost, [AllOwn EXCEPT !["pid"] = "other"],
          [AllOwn EXCEPT !["cgroup"] = "host"]}
    ELSE {AllHost, [AllHost EXCEPT !["pid"] = "other"]}

CapSets ==
    {{}, {"SYS_CHROOT"}, {"KILL", "NET_BROADCAST"}, {"MKNOD"}, {"SYS_ADMIN", "LEASE"},
     Capability}

DeviceSets ==
    {{}, {[type |-> "char", list |-> "unprivileged"]},
     {[type |-> "char", list |-> "general"], [type |-> "char", list |-> "major"]},
     {[type |-> "block", list |-> "none"]}}

DevFiles == DeviceSets \cup {{[type |-> "other", list |-> "none"]}}

\* Goals S1 and S2: namespaces, their owners, capabilities, root, devices.
IsolationConfigs ==
    UNION {{[Baseline EXCEPT !.unshared = u, !.owner = o, !.cap_prm = p, !.root = r,
                             !.dev_devices = d, !.uid_map_parents = m] :
                o \in Owners(u), p \in CapSets, r \in {"host", "chroot", "pivot"},
                d \in DevFiles, m \in {{"user"}, {"root", "user"}}} : u \in Unshared}

\* Goals S3 and S4: flag files, mappings, mknod and limits.
LeakConfigs ==
    {[Baseline EXCEPT !.unshared = u, !.owner = IF u = {} THEN AllHost ELSE AllOwn,
                      !.host_flags = h, !.ref_flags = f, !.cpu_max = l, !.memory_max = k,
                      !.unique_mapping = q, !.mknod_devices = d] :
        u \in {NsType, NsType \ {"cgroup"}, {}}, h \in SUBSET Flag,
        f \in {{}, {[uuid |-> TRUE, in_root |-> FALSE]}}, l \in Limit,
        k \in Limit \ {"max"}, q \in BOOLEAN, d \in DeviceSets}

MCConfigs == IsolationConfigs \cup LeakConfigs
=============================================================================
