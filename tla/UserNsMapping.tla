---------------------------- MODULE UserNsMapping ----------------------------
(***************************************************************************)
(* unique_mapping() of src/c_config/user_ns.rs: does the mapping of the    *)
(* container's user namespace overlap with that of another child of the    *)
(* initial one?  The id of a namespace, its owner and its mapping are read *)
(* through one /proc file after the other, and the process may exit or     *)
(* unshare in between.                                                     *)
(***************************************************************************)
EXTENDS UserNamespaces

CONSTANT W          \* width of an identifier in bits

\* The kernel refuses an extent that is empty or wraps around.
ASSUME WidthAssumption ==
    /\ W \in Nat /\ 2 ^ W \in Nat
    /\ \A map \in IdMaps \cup {InitMap} : \A e \in map : e.range > 0 /\ e.parent + e.range < 2 ^ W

VARIABLES
    unique,         \* where unique_mapping is
    upids,          \* the processes it has yet to compare
    read_id         \* the namespace that was read for the first of them

umVars == <<unique, upids, read_id>>

UmInit ==
    /\ unique = "start"
    /\ upids = {}
    /\ read_id = InitNs

LeastUPid(p) == p \in upids /\ \A q \in upids : p <= q

\* Mutant of ListUPids: the container's PID stays in the list.
ListUPids_All ==
    /\ unique = "start"
    /\ upids' = {p \in UPid : Runs(p)}
    /\ unique' = "id"
    /\ UNCHANGED read_id

\* get_pid_list(), without the container's PID; its own namespace and mapping
\* are read before, and stay what they are.
ListUPids ==
    /\ unique = "start"
    /\ upids' = {p \in UPid \ {Cont} : Runs(p)}
    /\ unique' = "id"
    /\ UNCHANGED read_id

NextUPid(p) ==
    /\ upids' = upids \ {p}
    /\ unique' = "id"

\* The process has exited: the next one.
SkipUPid(p) ==
    /\ unique \in {"id", "owner"}
    /\ LeastUPid(p)
    /\ ~Runs(p)
    /\ NextUPid(p)
    /\ UNCHANGED read_id

ReadId(p) ==
    /\ unique = "id"
    /\ LeastUPid(p)
    /\ Runs(p)
    /\ read_id' = userns[p]
    /\ unique' = "owner"
    /\ UNCHANGED upids

\* The owner of a user namespace is its parent; the initial one is its own.
ReadOwner(p) ==
    /\ unique = "owner"
    /\ LeastUPid(p)
    /\ Runs(p)
    /\ IF read_id \notin {userns[Cont], InitNs} /\ ns_parent[userns[p]] = InitNs
       THEN unique' = "map" /\ UNCHANGED upids
       ELSE NextUPid(p)
    /\ UNCHANGED read_id

\* Identifiers are u32.
Plus(a, b) == (a + b) % (2 ^ W)

\* Mutant of Overlap: ranges that touch count as overlapping.
Overlap_Adjacent(e, f) ==
    ~(Plus(e.parent, e.range) < f.parent \/ Plus(f.parent, f.range) < e.parent)

Overlap(e, f) ==
    ~(Plus(e.parent, e.range) <= f.parent \/ Plus(f.parent, f.range) <= e.parent)

Overlaps(map) == \E e \in map, f \in uid_map[userns[Cont]] : Overlap(e, f)

\* The mapping is that of the namespace the process is in by now; when the
\* process has exited, `?` leaves unique_mapping and ends the run.
ReadMap(p) ==
    /\ unique = "map"
    /\ LeastUPid(p)
    /\ IF ~Runs(p) THEN unique' = "err" /\ UNCHANGED upids
       ELSE IF Overlaps(uid_map[userns[p]]) THEN unique' = "false" /\ UNCHANGED upids
       ELSE NextUPid(p)
    /\ UNCHANGED read_id

AllCompared ==
    /\ unique = "id"
    /\ upids = {}
    /\ unique' = "true"
    /\ UNCHANGED <<upids, read_id>>

UmNext ==
    \/ ListUPids \/ AllCompared
    \/ \E p \in UPid : SkipUPid(p) \/ ReadId(p) \/ ReadOwner(p) \/ ReadMap(p)

\* The identifiers that a mapping takes from its parent.
Ids(map) == UNION {e.parent .. (e.parent + e.range - 1) : e \in map}

\* The verdict is about identifiers: a mapping said to be unique shares none
\* with any other child of the initial namespace in which a process was all
\* along and that was mapped when checkc started; one said not to be unique
\* shares one with a namespace that is not the initial one, unless the PID at
\* which the search stopped was reused or changed its namespace, or the id of
\* one was given away twice.
UniqueMeansDisjoint ==
    LET own == userns[Cont]
        Shares(n) == Ids(uid_map[n]) \cap Ids(uid_map[own]) # {}
    IN  /\ unique = "true" =>
            \A p \in UPid :
                LET n == userns[p]
                IN  Steady(p) /\ n \notin remapped \cup {own, InitNs} /\ ns_parent[n] = InitNs
                    => ~Shares(n)
        /\ unique = "false" /\ recycled = {} =>
            \/ \E p \in stirred : LeastUPid(p)
            \/ \E n \in UserNs \ {own, InitNs} : Shares(n)
=============================================================================
