------------------------------ MODULE Evaluation ------------------------------
(***************************************************************************)
(* EvalResult::from_config() of src/evaluation/mod.rs: what the raw        *)
(* configuration of a container, collected inside and outside of it, says  *)
(* of its isolation, category by category.                                 *)
(*                                                                         *)
(* A configuration is reduced to what the tests tell apart: the owner of a *)
(* namespace is the container's user namespace, the host's, or another     *)
(* one; a device is known by the whitelist that has it; a flag file by     *)
(* whether its name holds a UUID and whether it lies under the container's *)
(* root; a limit by whether the word "max" is in it.                       *)
(***************************************************************************)
EXTENDS Naturals, FiniteSets

NsType == {"cgroup", "ipc", "network", "mount", "pid", "time", "user", "uts"}

Category ==
    {"network", "filesystem", "devices", "resource_control", "process_control",
     "access_control", "time", "global"}

\* The capabilities each category looks for.
CategoryCaps ==
    [network |-> {"NET_ADMIN", "NET_BIND_SERVICE", "NET_RAW"},
     filesystem |-> {"SYS_CHROOT", "LINUX_IMMUTABLE", "LEASE"},
     devices |-> {"MKNOD", "SYS_RAWIO", "SYS_TTY_CONFIG"},
     resource_control |-> {"SYS_NICE", "SYS_RESOURCE"},
     process_control |->
        {"SYS_PTRACE", "SYS_PACCT", "CHECKPOINT_RESTORE", "KILL", "SYS_BOOT"},
     access_control |->
        {"CHOWN", "DAC_OVERRIDE", "DAC_READ_SEARCH", "FOWNER", "FSETID", "SETUID",
         "SETGID", "SETPCAP", "SETFCAP", "IPC_OWNER", "MAC_OVERRIDE", "MAC_ADMIN"},
     time |-> {"SYS_TIME"},
     global |->
        {"SYS_ADMIN", "AUDIT_CONTROL", "AUDIT_READ", "AUDIT_WRITE", "SYS_MODULE",
         "SYSLOG", "WAKE_ALARM", "PERFMON", "BPF", "NET_BROADCAST", "IPC_LOCK",
         "BLOCK_SUSPEND"}]

\* The namespaces each category wants active; two categories have none.
CategoryNs ==
    [network |-> {"network", "uts"},
     filesystem |-> {"mount"},
     devices |-> {},
     resource_control |-> {"cgroup"},
     process_control |-> {"pid", "ipc"},
     access_control |-> {"user"},
     time |-> {"time"},
     global |-> {}]

\* The capabilities of the kernel, as c_config/caps.proto numbers them.
Capability ==
    {"CHOWN", "DAC_OVERRIDE", "DAC_READ_SEARCH", "FOWNER", "FSETID", "KILL", "SETGID",
     "SETUID", "SETPCAP", "LINUX_IMMUTABLE", "NET_BIND_SERVICE", "NET_BROADCAST",
     "NET_ADMIN", "NET_RAW", "IPC_LOCK", "IPC_OWNER", "SYS_MODULE", "SYS_RAWIO",
     "SYS_CHROOT", "SYS_PTRACE", "SYS_PACCT", "SYS_ADMIN", "SYS_BOOT", "SYS_NICE",
     "SYS_RESOURCE", "SYS_TIME", "SYS_TTY_CONFIG", "MKNOD", "LEASE", "AUDIT_WRITE",
     "AUDIT_CONTROL", "SETFCAP", "MAC_OVERRIDE", "MAC_ADMIN", "SYSLOG", "WAKE_ALARM",
     "BLOCK_SUSPEND", "AUDIT_READ", "PERFMON", "BPF", "CHECKPOINT_RESTORE"}

(***************************************************************************)
(* The raw configuration.  The host's process and the container's may have *)
(* the same root directory; a flag file found through a namespace of the   *)
(* host or of the reference container was written in the test container.   *)
(***************************************************************************)
Device ==
    [type : {"char", "block"}, list : {"major", "general", "unprivileged", "none"}]
        \cup {[type |-> "other", list |-> "none"]}
Flag == [uuid : BOOLEAN, in_root : BOOLEAN]
Limit == {"absent", "max", "limited"}

RawConfig ==
    [unshared : SUBSET NsType,                      \* not shared with the host
     owner : [NsType -> {"own", "host", "other"}],  \* of the unshared namespaces
     cap_prm : SUBSET Capability,
     root : {"host", "chroot", "pivot"},
     host_flags : SUBSET Flag,
     ref_flags : SUBSET Flag,
     dev_devices : SUBSET Device,
     mknod_devices : SUBSET {d \in Device : d.type # "other"},
     cpu_max : Limit,
     memory_max : Limit \ {"max"},
     uid_map_parents : SUBSET {"root", "user"},
     unique_mapping : BOOLEAN]

\* Only a container with a user namespace of its own has namespaces that it
\* owns; the user namespace itself is owned by its parent.
Config ==
    {c \in RawConfig : \A n \in NsType :
        c.owner[n] = "own" => "user" \in c.unshared /\ n # "user"}

(***************************************************************************)
(* The namespaces that count: those owned by the container's own user      *)
(* namespace or, without one, by the host's.                               *)
(***************************************************************************)
Unprivileged(c) == "user" \in c.unshared

\* Mutant of NsSet: the owners are not compared.
NsSet_AnyOwner(c) == c.unshared

NsSet(c) ==
    IF Unprivileged(c)
    THEN {"user"} \cup {n \in c.unshared : c.owner[n] = "own"}
    ELSE {n \in c.unshared : c.owner[n] = "host"}

(***************************************************************************)
(* The tests.                                                              *)
(***************************************************************************)
\* Mutant of FlagMatchesHost: the files under the container's root count too.
FlagMatchesHost_Root(c) == {f \in c.host_flags : f.uuid}

\* do_check_flags_host: the flag files outside of the container's root; a
\* file without a UUID in its name is not looked at.
FlagMatchesHost(c) == {f \in c.host_flags : f.uuid /\ ~f.in_root}

\* do_check_flags_refcontainer: all of them.
FlagMatchesRef(c) == c.ref_flags

\* Mutant of NotAllowed: the condition on the user namespace is inverted.
NotAllowed_Inverted(devices, unprivileged) ==
    {d \in devices :
        /\ d.type \in {"char", "block"}
        /\ d.list \notin {"major", "general"}
        /\ ~(~unprivileged /\ d.list = "unprivileged")}

\* dev_whitelist_compliance: only character and block devices count, and one
\* whitelist is for containers with a user namespace only.
NotAllowed(devices, unprivileged) ==
    {d \in devices :
        /\ d.type \in {"char", "block"}
        /\ d.list \notin {"major", "general"}
        /\ ~(unprivileged /\ d.list = "unprivileged")}

\* The tests that the assessment asks for, and whether they passed.  Every
\* one is marked valid.
Tests(c) ==
    [flag_matches_host |-> FlagMatchesHost(c) = {},
     flag_matches_refcontainer |-> FlagMatchesRef(c) = {},
     dev_whitelist_compliance |-> NotAllowed(c.dev_devices, "user" \in NsSet(c)) = {},
     mknod_whitelist_compliance |-> NotAllowed(c.mknod_devices, "user" \in NsSet(c)) = {},
     cpu_max_limited |-> c.cpu_max = "limited",
     memory_max_limited |-> c.memory_max = "limited",
     user_ns_maps_to_non_root_user |-> "root" \notin c.uid_map_parents,
     user_ns_mapping_unique |-> c.unique_mapping]

(***************************************************************************)
(* The report.                                                             *)
(***************************************************************************)
\* Mutant of CategoryOf: the default category does not collect capabilities.
CategoryOf_NoGlobal(c, k) ==
    [capabilities |-> IF k = "global" THEN {} ELSE CategoryCaps[k] \cap c.cap_prm,
     active |-> CategoryNs[k] \cap NsSet(c),
     desired |-> CategoryNs[k]]

CategoryOf(c, k) ==
    [capabilities |-> CategoryCaps[k] \cap c.cap_prm,
     active |-> CategoryNs[k] \cap NsSet(c),
     desired |-> CategoryNs[k]]

EvalResult(c) ==
    [unprivileged |-> Unprivileged(c),
     categories |-> [k \in Category |-> CategoryOf(c, k)],
     chroot |-> c.root # "host",
     pivot_root |-> c.root = "pivot",
     tests |-> Tests(c)]
=============================================================================
