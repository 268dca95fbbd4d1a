------------------------------ MODULE ProcTable ------------------------------
(***************************************************************************)
(* The kernel's process table, as checkc reads it through /proc.  The      *)
(* kernel is not part of this repository: the module states only what the  *)
(* code in src/lib.rs and src/c_config/fs.rs observes of it, which files   *)
(* of /proc/<pid> can be opened and read in which state of the process.    *)
(* Every process but checkc itself may fork, exit, be reaped or change its *)
(* mount namespace between any two accesses.                               *)
(***************************************************************************)
EXTENDS Naturals, FiniteSets

CONSTANTS
    Pid,        \* the PIDs, in checkc's PID namespace
    Kthread,    \* those that are kernel threads
    Self,       \* checkc's own PID
    Garbled,    \* PIDs whose process may be called something that is no text
    Ns,         \* the mount namespaces
    HostNs,     \* the one kernel threads and checkc start in
    Churn,      \* the kinds of events the other processes may perform
    MaxEvents   \* bound on the number of those events

EventKinds == {"fork", "exit", "reap", "move", "reuse"}

ASSUME ProcAssumption ==
    /\ Pid \subseteq Nat \ {0}
    /\ Kthread \subseteq Pid
    /\ Self \in Pid \ Kthread
    /\ Garbled \subseteq Pid \ (Kthread \cup {Self})
    /\ HostNs \in Ns
    /\ Churn \subseteq EventKinds
    /\ MaxEvents \in Nat

VARIABLES
    proc,       \* the process behind each PID
    events,     \* how many events have happened so far
    fresh,      \* history: PIDs forked since the start
    moved       \* history: PIDs whose process changed its mount namespace or
                \* that were given to another process

procVars == <<proc, events, fresh, moved>>

Process == [st : {"free", "run", "zombie"}, mnt : Ns, gen : Nat]

ProcTypeOK ==
    /\ proc \in [Pid -> Process]
    /\ events \in Nat
    /\ fresh \subseteq Pid
    /\ moved \subseteq Pid

(***************************************************************************)
(* checkc and the kernel threads run in the host's mount namespace; every  *)
(* other PID is free, a zombie, or runs in any namespace.                  *)
(***************************************************************************)
ProcInit ==
    /\ proc \in [Pid -> [st : {"free", "run", "zombie"}, mnt : Ns, gen : {0}]]
    /\ \A p \in Kthread \cup {Self} : proc[p] = [st |-> "run", mnt |-> HostNs, gen |-> 0]
    /\ \A p \in Pid : proc[p].st # "run" => proc[p].mnt = HostNs
    /\ events = 0
    /\ fresh = {}
    /\ moved = {}

(***************************************************************************)
(* What the files of /proc/<pid> answer.                                   *)
(***************************************************************************)
\* The directory exists, and /proc/<pid>/cmdline can be opened.
Listed(p) == proc[p].st # "free"

\* /proc/<pid>/ns/mnt and /proc/<pid>/mountinfo can be opened: an exiting
\* process has given up its namespaces before its parent reaps it.
HasNs(p) == proc[p].st = "run"

\* The process has user memory, so its command line is not empty.
HasCmdline(p) == proc[p].st = "run" /\ p \notin Kthread

\* Its name in /proc/<pid>/stat and its command line, which a process sets
\* itself and at any time, may be bytes that are no UTF-8, or its name contain
\* a line break, which the pattern of a stat line does not match.
MayBeNoText(p) == p \in Garbled /\ Listed(p)

\* The process has been there, in one namespace, since the start.
Steady(p) == HasNs(p) /\ p \notin fresh \cup moved

(***************************************************************************)
(* The events.                                                             *)
(***************************************************************************)
Others == Pid \ (Kthread \cup {Self})

Happens(kind) ==
    /\ kind \in Churn
    /\ events < MaxEvents
    /\ events' = events + 1

\* p forks a child, which gets the PID q and inherits p's mount namespace.
Fork(p, q) ==
    /\ Happens("fork")
    /\ HasCmdline(p)
    /\ proc[q].st = "free"
    /\ proc[q].gen > 0 => "reuse" \in Churn
    /\ proc' = [proc EXCEPT ![q] = [st |-> "run", mnt |-> proc[p].mnt, gen |-> @.gen]]
    /\ fresh' = fresh \cup {q}
    /\ moved' = IF proc[q].gen > 0 THEN moved \cup {q} ELSE moved

Exit(p) ==
    /\ Happens("exit")
    /\ proc[p].st = "run"
    /\ proc' = [proc EXCEPT ![p] = [st |-> "zombie", mnt |-> HostNs, gen |-> @.gen]]
    /\ UNCHANGED <<fresh, moved>>

Reap(p) ==
    /\ Happens("reap")
    /\ proc[p].st = "zombie"
    /\ proc' = [proc EXCEPT ![p] = [st |-> "free", mnt |-> HostNs, gen |-> @.gen + 1]]
    /\ UNCHANGED <<fresh, moved>>

\* unshare(CLONE_NEWNS), or setns() into a namespace that exists.
Move(p, n) ==
    /\ Happens("move")
    /\ proc[p].st = "run"
    /\ proc[p].mnt # n
    /\ proc' = [proc EXCEPT ![p].mnt = n]
    /\ moved' = moved \cup {p}
    /\ UNCHANGED fresh

ProcNext ==
    \/ \E p, q \in Others : Fork(p, q)
    \/ \E p \in Others : Exit(p) \/ Reap(p) \/ \E n \in Ns : Move(p, n)
=============================================================================
