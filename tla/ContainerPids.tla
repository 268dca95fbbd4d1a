---------------------------- MODULE ContainerPids ----------------------------
(***************************************************************************)
(* get_container_pids() of src/lib.rs: the PIDs of a container, given the  *)
(* PID of its init process.  For every PID in /proc the function climbs    *)
(* from parent to parent, one read of /proc/<pid>/stat at a time, until it *)
(* meets the container's init.  Meanwhile the processes fork, exit and are *)
(* given new parents.                                                      *)
(***************************************************************************)
EXTENDS ProcTable, ProcessTree, Integers

CONSTANT CInit      \* the init process of the container

ASSUME CInitAssumption ==
    /\ 1 \in Others
    /\ CInit \in Others \ {1}

VARIABLES
    ppid,           \* the parent of each process
    contained,      \* PIDs whose process was started in the container
    linked,         \* history: PIDs whose process is below CInit since the
                    \* start, by parents none of which was replaced
    walk,           \* where get_container_pids is
    unlisted,       \* PIDs that readdir() has not reached
    all_pids,       \* PIDs whose ancestors are yet to be looked at
    current,        \* the ancestor the walk is at
    stat_gen,       \* the process behind the open /proc/<current>/stat
    container_pids, \* the result
    met             \* history: the ancestors that the climb under way has left
                    \* behind since a PID was last given to another process

treeVars == <<ppid, contained, linked>>
walkVars == <<walk, unlisted, all_pids, current, stat_gen, container_pids>>
cpVars == <<procVars, treeVars, walkVars, met>>

(***************************************************************************)
(* The process tree.  It belongs to the kernel, like ProcTable: every      *)
(* process of the container was forked in it, or entered it from outside   *)
(* (podman exec), and then its parent is not one of its processes.  A      *)
(* process of the container whose parent exits becomes a child of the      *)
(* container's init, any other one a child of PID 1.                       *)
(***************************************************************************)
CpTypeOK ==
    /\ ProcTypeOK
    /\ ppid \in [Pid -> Pid \cup {NoParent}]
    /\ contained \subseteq Pid
    /\ linked \subseteq Pid
    /\ walk \in {"readdir", "next", "open_stat", "read_stat", "done", "err"}
    /\ unlisted \subseteq Pid
    /\ all_pids \subseteq Pid
    /\ current \in Pid \cup {NoParent}
    /\ stat_gen \in Nat
    /\ container_pids \subseteq Pid
    /\ met \subseteq Pid

\* PID 1 and the container's init never exit: a system without the first is
\* down, and the scripts keep the container running until checkc is done.
Lasting == {1, CInit}

\* Kernel threads and free PIDs have no parent; parents are older processes,
\* and the parent of the container's init is outside.
TreeInit ==
    /\ \A p \in Lasting : proc[p].st = "run"
    /\ \E parent \in [Others \ Lasting -> Others \cup {NoParent}] :
        ppid = [p \in Pid |-> IF p \in DOMAIN parent THEN parent[p]
                              ELSE IF p \in {Self, CInit} THEN 1 ELSE NoParent]
    /\ \A p \in Others \ Lasting :
        /\ ppid[p] = NoParent <=> proc[p].st = "free"
        /\ ppid[p] # NoParent => ppid[p] < p /\ proc[ppid[p]].st = "run"
    /\ contained \in SUBSET (Others \ {1})
    /\ CInit \in contained
    /\ \A p \in Others \ Lasting :
        /\ proc[p].st = "free" => p \notin contained
        /\ p \in contained => ppid[p] \in contained \cup {1}
        /\ p \notin contained => ppid[p] \notin contained
    /\ linked = Descendants(ppid, CInit)

\* Where the kernel puts an orphan.
Reaper(p) == IF p \in contained THEN CInit ELSE 1

TreeFork(p, q) ==
    /\ Fork(p, q)
    /\ ppid' = [ppid EXCEPT ![q] = p]
    /\ contained' = IF p \in contained THEN contained \cup {q} ELSE contained \ {q}
    /\ UNCHANGED linked

\* podman exec: conmon, outside, starts a process in the container.
TreeEnter(p, q) ==
    /\ Fork(p, q)
    /\ p \notin contained
    /\ ppid' = [ppid EXCEPT ![q] = 1]
    /\ contained' = contained \cup {q}
    /\ UNCHANGED linked

TreeExit(p) ==
    /\ p \notin Lasting
    /\ Exit(p)
    /\ ppid' = [q \in Pid |-> IF ppid[q] = p THEN Reaper(q) ELSE ppid[q]]
    /\ linked' = linked \ (Descendants(ppid, p) \ {p})
    /\ UNCHANGED contained

TreeReap(p) ==
    /\ Reap(p)
    /\ ppid' = [ppid EXCEPT ![p] = NoParent]
    /\ linked' = linked \ {p}
    /\ UNCHANGED contained

TreeNext ==
    \/ \E p, q \in Others : TreeFork(p, q) \/ TreeEnter(p, q)
    \/ \E p \in Others : TreeExit(p) \/ TreeReap(p)

(***************************************************************************)
(* get_container_pids().                                                   *)
(***************************************************************************)
WalkInit ==
    /\ walk = "readdir"
    /\ unlisted = Pid
    /\ all_pids = {}
    /\ current = NoParent
    /\ stat_gen = 0
    /\ container_pids = {CInit}

Least(S, p) == p \in S /\ \A q \in S : p <= q

\* get_pid_list() reads one more entry of /proc.
ListPid ==
    /\ walk = "readdir"
    /\ \E p \in unlisted :
        /\ Least(unlisted, p)
        /\ unlisted' = unlisted \ {p}
        /\ all_pids' = IF Listed(p) THEN all_pids \cup {p} ELSE all_pids
    /\ walk' = IF unlisted' = {} THEN "next" ELSE "readdir"
    /\ UNCHANGED <<current, stat_gen, container_pids>>

StartAt(p) ==
    /\ walk = "next"
    /\ Least(all_pids, p)
    /\ current' = p
    /\ walk' = "open_stat"
    /\ UNCHANGED <<unlisted, all_pids, stat_gen, container_pids>>

ListDone ==
    /\ walk = "next"
    /\ all_pids = {}
    /\ walk' = "done"
    /\ UNCHANGED <<unlisted, all_pids, current, stat_gen, container_pids>>

\* Mutants of LeaveLoop: the PID is processed again; current gets a sentinel.
LeaveLoop_Again(p) ==
    /\ all_pids' = all_pids
    /\ current' = NoParent
    /\ walk' = "next"

LeaveLoop_Sentinel(p) ==
    /\ all_pids' = all_pids \ {p}
    /\ current' = -1
    /\ walk' = "next"

\* The inner loop is left: the next PID is taken.
LeaveLoop(p) ==
    /\ all_pids' = all_pids \ {p}
    /\ current' = NoParent
    /\ walk' = "next"

\* while current > 1: the climb ends above the container, or opens the file.
OpenStat(p) ==
    /\ walk = "open_stat"
    /\ Least(all_pids, p)
    /\ IF current > 1 /\ Listed(current)
       THEN /\ stat_gen' = proc[current].gen
            /\ walk' = "read_stat"
            /\ UNCHANGED <<all_pids, current>>
       ELSE LeaveLoop(p) /\ UNCHANGED stat_gen
    /\ UNCHANGED <<unlisted, container_pids>>

\* The process behind the open file is gone, or its PID is another's now.
StatGone == ~Listed(current) \/ proc[current].gen # stat_gen

\* read_to_string() fails with ESRCH, or with InvalidData because the name of
\* the process is no UTF-8, or the pattern does not match: each leaves
\* get_container_pids.
FailOnStat ==
    /\ walk = "read_stat"
    /\ StatGone \/ MayBeNoText(current)
    /\ walk' = "err"
    /\ UNCHANGED <<unlisted, all_pids, current, stat_gen, container_pids>>

\* Mutants of ReadStat: only the children of the container's init are found;
\* whatever is below a child of PID 1 is taken for the container; the parent
\* is not assigned to current.
ReadStat_NoClimb(p) ==
    /\ walk = "read_stat"
    /\ Least(all_pids, p)
    /\ ~StatGone
    /\ container_pids' = IF ppid[current] = CInit THEN container_pids \cup {p} ELSE container_pids
    /\ LeaveLoop(p)
    /\ UNCHANGED <<unlisted, stat_gen>>

ReadStat_AnyParent(p) ==
    /\ walk = "read_stat"
    /\ Least(all_pids, p)
    /\ ~StatGone
    /\ container_pids' = IF ppid[current] > 1 THEN container_pids \cup {p} ELSE container_pids
    /\ LeaveLoop(p)
    /\ UNCHANGED <<unlisted, stat_gen>>

ReadStat_Stays(p) ==
    /\ walk = "read_stat"
    /\ Least(all_pids, p)
    /\ ~StatGone
    /\ IF ppid[current] = CInit
       THEN container_pids' = container_pids \cup {p} /\ LeaveLoop(p)
       ELSE walk' = "open_stat" /\ UNCHANGED <<all_pids, current, container_pids>>
    /\ UNCHANGED <<unlisted, stat_gen>>

\* The parent is the container's init, or the climb goes on from it.
ReadStat(p) ==
    /\ walk = "read_stat"
    /\ Least(all_pids, p)
    /\ ~StatGone
    /\ IF ppid[current] = CInit
       THEN container_pids' = container_pids \cup {p} /\ LeaveLoop(p)
       ELSE /\ current' = ppid[current]
            /\ walk' = "open_stat"
            /\ UNCHANGED <<all_pids, container_pids>>
    /\ UNCHANGED <<unlisted, stat_gen>>

WalkNext ==
    \/ ListPid \/ ListDone \/ FailOnStat
    \/ \E p \in Pid : StartAt(p) \/ OpenStat(p) \/ ReadStat(p)

CpInit == ProcInit /\ TreeInit /\ WalkInit /\ met = {}

\* Each climb starts from nowhere, and a read of a stat file leaves a PID behind.
Walk ==
    /\ WalkNext
    /\ met' = CASE walk = "next" -> {}
                [] walk = "read_stat" -> met \cup {current}
                [] OTHER -> met
    /\ UNCHANGED <<procVars, treeVars>>

\* A PID that was freed is given to another process.
ReusesPid == \E p \in Pid : proc[p].st = "free" /\ proc[p].gen > 0 /\ proc'[p].st = "run"

World ==
    /\ TreeNext
    /\ met' = IF ReusesPid THEN {} ELSE met
    /\ UNCHANGED walkVars

CpNext == Walk \/ World

CpSpec == CpInit /\ [][CpNext]_cpVars /\ WF_cpVars(Walk)

(***************************************************************************)
(* Properties.                                                             *)
(***************************************************************************)
\* A process that is not of the container is in the result only if a PID was
\* reused: the climb mixes parents read at different times, but a process
\* outside never was the child of one inside.
OnlyContainerPids == container_pids \subseteq contained \/ moved # {}

\* A process of the container is missing from the result only if it was
\* started during the call, entered the container from outside, or one of
\* its ancestors lost its parent while the climb was under way.
AllContainerPids == walk = "done" => linked \subseteq container_pids

\* `while current > 1` makes progress: as long as no PID is given to another
\* process, a climb comes to no PID a second time, although it reads each
\* parent at another moment and orphans are given new parents meanwhile.
NoPidTwice == walk \in {"open_stat", "read_stat"} => current \notin met

\* What the call promises main.rs: the census of the processes that are in the
\* container, which it may fail to take only when a PID was freed under it or
\* a process may have a name that is no text.
Counting == INSTANCE Census WITH
    census <- CASE walk = "done" -> "ok" [] walk = "err" -> "err" [] OTHER -> "taking",
    must <- linked,
    may <- IF moved = {} THEN contained ELSE Pid,
    disturbed <- \E p \in Pid : proc[p].gen > 0 \/ MayBeNoText(p),
    counted <- IF walk = "done" THEN container_pids ELSE {}

\* get_container_pids() implements the census: at the moment it returns, its
\* answer is right up to the processes that changed during the call, and what
\* happens later does not touch it.  It returns if PIDs are not given away
\* again and again: the climb uses up no PID of the list per turn, so that a
\* chain of parents that is renewed under it may lead it on without end.
CountsContainer ==
    /\ Counting!CensusSafety
    /\ <>[][~ReusesPid]_procVars => Counting!Answered

=============================================================================
