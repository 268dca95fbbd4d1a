---------------------------- MODULE UserNamespaces ----------------------------
(***************************************************************************)
(* The user namespaces of the system and the processes in them, as         *)
(* src/c_config/ns.rs and user_ns.rs see them through /proc/<pid>/ns/user, *)
(* two ioctls and /proc/<pid>/uid_map.  They belong to the kernel.  A user *)
(* namespace exists as long as a process is in it or in one below it; its  *)
(* id, an inode number, may then be given to another one.  PID namespaces  *)
(* form a hierarchy in the same way.                                       *)
(***************************************************************************)
EXTENDS ProcessTree

CONSTANTS
    UPid,           \* the PIDs; 1 is in the initial user namespace
    Cont,           \* the init process of the test container
    UserNs,         \* the ids of user namespaces
    InitNs,         \* the initial one
    InitMap,        \* its mapping: every identifier to itself
    IdMaps,         \* the mappings that may be written, as checkc reads them
    MaxUEvents      \* bound on what the processes do

NoProcess == "no process"

ASSUME UserNsAssumption ==
    /\ UPid \subseteq Nat \ {0}
    /\ {1, Cont} \subseteq UPid /\ Cont # 1
    /\ InitNs \in UserNs /\ NoProcess \notin UserNs
    /\ IsFiniteSet(UserNs)
    /\ {InitMap} \cup IdMaps \subseteq SUBSET [parent : Nat, range : Nat]
    /\ {} \notin {InitMap} \cup IdMaps
    /\ MaxUEvents \in Nat

VARIABLES
    userns,         \* the namespace of each process, if there is one
    ns_parent,      \* the parent of each namespace, itself for the initial one
    uid_map,        \* its mapping; empty until it is written, once
    uevents,        \* how many events have happened
    stirred,        \* history: PIDs that were started, or left their namespace
    remapped,       \* history: namespaces that were given their mapping
    seen,           \* history: ids in use since checkc started
    recycled        \* history: ids that were given to a second namespace

unsVars == <<userns, ns_parent, uid_map, uevents, stirred, remapped, seen, recycled>>

Runs(p) == userns[p] # NoProcess
Above(n) == Lineage(ns_parent, {n})
Live == Lineage(ns_parent, {userns[p] : p \in {q \in UPid : Runs(q)}})
Steady(p) == Runs(p) /\ p \notin stirred

UnsTypeOK ==
    /\ userns \in [UPid -> UserNs \cup {NoProcess}]
    /\ ns_parent \in [UserNs -> UserNs]
    /\ uid_map \in [UserNs -> {InitMap, {}} \cup IdMaps]
    /\ uevents \in 0 .. MaxUEvents
    /\ stirred \subseteq UPid
    /\ {remapped, seen, recycled} \subseteq SUBSET UserNs

UnsInit ==
    /\ userns \in [UPid -> UserNs \cup {NoProcess}]
    /\ userns[1] = InitNs
    /\ Runs(Cont)
    /\ ns_parent \in [UserNs -> UserNs]
    /\ ns_parent[InitNs] = InitNs
    /\ \A n \in UserNs : InitNs \in Above(n) /\ (n \notin Live => ns_parent[n] = InitNs)
    /\ \E maps \in [UserNs \ {InitNs} -> IdMaps \cup {{}}] :
        uid_map = [n \in UserNs |-> IF n = InitNs THEN InitMap ELSE maps[n]]
    /\ \A n \in UserNs \ Live : uid_map[n] = {}
    /\ uid_map[userns[Cont]] # {}
    /\ uevents = 0
    /\ stirred = {}
    /\ remapped = {}
    /\ seen = Live
    /\ recycled = {}

UHappens ==
    /\ uevents < MaxUEvents
    /\ uevents' = uevents + 1

USpawn(p, q) ==
    /\ UHappens
    /\ Runs(p) /\ ~Runs(q)
    /\ userns' = [userns EXCEPT ![q] = userns[p]]
    /\ stirred' = stirred \cup {q}
    /\ UNCHANGED <<ns_parent, uid_map, remapped, seen, recycled>>

UExit(p) ==
    /\ UHappens
    /\ Runs(p) /\ p \notin {1, Cont}
    /\ userns' = [userns EXCEPT ![p] = NoProcess]
    /\ UNCHANGED <<ns_parent, uid_map, stirred, remapped, seen, recycled>>

\* unshare(CLONE_NEWUSER): a namespace below the one the process is in.
UUnshare(p, n) ==
    /\ UHappens
    /\ Runs(p) /\ p \notin {1, Cont}
    /\ n \notin Live
    /\ userns' = [userns EXCEPT ![p] = n]
    /\ ns_parent' = [ns_parent EXCEPT ![n] = userns[p]]
    /\ uid_map' = [uid_map EXCEPT ![n] = {}]
    /\ stirred' = stirred \cup {p}
    /\ seen' = seen \cup {n}
    /\ recycled' = IF n \in seen THEN recycled \cup {n} ELSE recycled
    /\ UNCHANGED remapped

\* newuidmap writes the mapping of a namespace.
USetMap(n) ==
    /\ UHappens
    /\ n \in Live
    /\ uid_map[n] = {}
    /\ \E map \in IdMaps : uid_map' = [uid_map EXCEPT ![n] = map]
    /\ remapped' = remapped \cup {n}
    /\ UNCHANGED <<userns, ns_parent, stirred, seen, recycled>>

UnsNext ==
    \/ \E p, q \in UPid : USpawn(p, q)
    \/ \E p \in UPid : UExit(p) \/ \E n \in UserNs : UUnshare(p, n)
    \/ \E n \in UserNs : USetMap(n)
=============================================================================
