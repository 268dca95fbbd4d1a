------------------------------ MODULE HostSearch ------------------------------
(***************************************************************************)
(* fs_config_hostview() of src/c_config/fs.rs: fs_config_generic() around  *)
(* process_mountpoints_host().  checkc remembers its own mount namespace   *)
(* in a file descriptor, scans the system for mount namespaces             *)
(* (MountScan), joins each of them through one of its processes to search  *)
(* its mount points for flag files, and returns to its own namespace.      *)
(*                                                                         *)
(* The mount namespace of checkc is process-wide state: it decides which   *)
(* procfs a path /proc/<pid> is resolved in.  It is proc[Self].mnt.        *)
(***************************************************************************)
EXTENDS MountScan

CONSTANTS
    HostProcfs,     \* the namespaces whose /proc shows checkc's PID namespace
    SetnsFails      \* the calls of setns() that may fail

SetnsCalls == {"rejoin", "join", "restore"}

\* "rejoin": back to checkc's namespace before /proc is used; "join": into a
\* namespace to search it; "restore": back at the end.  The kernel refuses
\* setns(CLONE_NEWNS) with EINVAL while another thread shares the caller's
\* fs_struct, which the threads of a search do until they are gone.
ASSUME SearchAssumption ==
    /\ HostNs \in HostProcfs
    /\ HostProcfs \subseteq Ns
    /\ SetnsFails \subseteq SetnsCalls

VARIABLES
    fs,             \* where fs_config_hostview is
    result,         \* what process_mountpoints_host returned
    checkc_fd,      \* the namespaces that open descriptors of checkc hold
    cwd,            \* the working directory of checkc
    todo,           \* creators of the entries that are not processed yet
    untried,        \* ns_pids of the current entry that are not tried yet
    cmdline,        \* the process whose cmdline file is open
    refused         \* history: the calls of setns() that have failed

searchVars == <<fs, result, checkc_fd, cwd, todo, untried, cmdline, refused>>

SearchTypeOK ==
    /\ fs \in {"open", "scan", "entry", "rejoin", "open_cmdline", "read_cmdline",
               "join", "restore", "returned"}
    /\ result \in {"none", "ok", "err"}
    /\ checkc_fd \subseteq Ns
    /\ cwd \in {"original", "root", "elsewhere"}
    /\ todo \subseteq Pid
    /\ untried \subseteq Pid
    /\ cmdline \in [pid : Pid, gen : Nat]
    /\ refused \subseteq SetnsCalls

SearchInit ==
    /\ fs = "open"
    /\ result = "none"
    /\ checkc_fd = {}
    /\ cwd = "original"
    /\ todo = {}
    /\ untried = {}
    /\ cmdline = [pid |-> Self, gen |-> 0]
    /\ refused = {}

Current == proc[Self].mnt

\* Mutant of IsEntry: any entry that is left.
IsEntry_Any(e) == e \in mount_namespaces /\ e.by \in todo

\* The entry being processed is the first one that is left.
IsEntry(e) == e \in mount_namespaces /\ Least(todo, e.by)

\* The processes that the path /proc/<p> may name: p, or, in a namespace
\* with a procfs of its own, one of the processes that run there.
Resolves(p) ==
    IF Current \in HostProcfs
    THEN {p}
    ELSE {q \in Pid \ {Self} : HasNs(q) /\ proc[q].mnt = Current}

\* The path may name no process, although the process p answers: elsewhere
\* than in checkc's own procfs, there may be none with that number.
Missing(answers) == Current \notin HostProcfs \/ ~answers

\* A successful setns() takes the working directory to the root of n.
EnterNs(n) ==
    /\ proc' = [proc EXCEPT ![Self].mnt = n]
    /\ cwd' = "root"

SetnsRefused(call) ==
    /\ call \in SetnsFails
    /\ refused' = refused \cup {call}

KernelHistory == <<events, fresh, moved>>

(***************************************************************************)
(* fs_config_generic() up to the call of process_mountpoints_host(), and   *)
(* the scan.                                                               *)
(***************************************************************************)
OpenOwnNs ==
    /\ fs = "open"
    /\ checkc_fd' = checkc_fd \cup {Current}
    /\ fs' = "scan"
    /\ UNCHANGED <<procVars, scanVars, result, cwd, todo, untried, cmdline, refused>>

ScanStep ==
    /\ fs = "scan"
    /\ ScanNext
    /\ UNCHANGED <<procVars, searchVars>>

BeginSearch ==
    /\ fs = "scan"
    /\ scan = "done"
    /\ todo' = {e.by : e \in mount_namespaces}
    /\ fs' = "entry"
    /\ UNCHANGED <<procVars, scanVars, result, checkc_fd, cwd, untried, cmdline, refused>>

(***************************************************************************)
(* The loops of process_mountpoints_host().                                *)
(***************************************************************************)
NextEntry ==
    /\ fs = "entry"
    /\ \E e \in mount_namespaces : IsEntry(e) /\ untried' = e.ns_pids
    /\ fs' = "rejoin"
    /\ UNCHANGED <<procVars, scanVars, result, checkc_fd, cwd, todo, cmdline, refused>>

\* No PID worked: only a warning is logged, and the entry stays as it is.
GiveUpEntry ==
    /\ fs = "rejoin"
    /\ untried = {}
    /\ \E e \in mount_namespaces : IsEntry(e) /\ todo' = todo \ {e.by}
    /\ fs' = "entry"
    /\ UNCHANGED <<procVars, scanVars, result, checkc_fd, cwd, untried, cmdline, refused>>

\* Mutant of Rejoin: the search of the next namespace starts in the last one.
Rejoin_Never ==
    /\ fs = "rejoin"
    /\ untried # {}
    /\ fs' = "open_cmdline"
    /\ UNCHANGED <<procVars, scanVars, result, checkc_fd, cwd, todo, untried, cmdline, refused>>

\* When setns() fails, the search continues where it is.
Rejoin ==
    /\ fs = "rejoin"
    /\ untried # {}
    /\ \/ UNCHANGED refused /\ \E n \in checkc_fd : EnterNs(n)
       \/ SetnsRefused("rejoin") /\ UNCHANGED <<proc, cwd>>
    /\ fs' = "open_cmdline"
    /\ UNCHANGED <<KernelHistory, scanVars, result, checkc_fd, todo, untried, cmdline>>

\* Mutants of SkipTry: the loop tries p again; `break` in place of `continue`.
SkipTry_Again(p) ==
    /\ untried' = untried
    /\ fs' = "rejoin"

SkipTry_Break(p) ==
    /\ untried' = {}
    /\ fs' = "rejoin"

SkipTry(p) ==
    /\ untried' = untried \ {p}
    /\ fs' = "rejoin"

OpenCmdline(p) ==
    /\ fs = "open_cmdline"
    /\ Least(untried, p)
    /\ \/ \E q \in Resolves(p) :
            /\ Listed(q)
            /\ cmdline' = [pid |-> q, gen |-> proc[q].gen]
            /\ fs' = "read_cmdline"
            /\ UNCHANGED untried
       \/ /\ Missing(Listed(p))
          /\ SkipTry(p)
          /\ UNCHANGED cmdline
    /\ UNCHANGED <<procVars, scanVars, result, checkc_fd, cwd, todo, refused>>

\* The process behind the open file is gone, or its PID is another's now.
CmdlineGone ==
    proc[cmdline.pid].st = "free" \/ proc[cmdline.pid].gen # cmdline.gen

\* The file has a command line, and that may be no UTF-8.
CmdlineGarbled == HasCmdline(cmdline.pid) /\ MayBeNoText(cmdline.pid)

\* Mutant of FailOnCmdline: `?` leaves fs_config_generic as well.
FailOnCmdline_Return ==
    /\ fs = "read_cmdline"
    /\ CmdlineGone \/ CmdlineGarbled
    /\ result' = "err"
    /\ fs' = "returned"
    /\ UNCHANGED <<procVars, scanVars, checkc_fd, cwd, todo, untried, cmdline, refused>>

\* read_to_string() fails, with ESRCH or with InvalidData, and `?` leaves
\* process_mountpoints_host in the middle of the search.
FailOnCmdline ==
    /\ fs = "read_cmdline"
    /\ CmdlineGone \/ CmdlineGarbled
    /\ result' = "err"
    /\ fs' = "restore"
    /\ UNCHANGED <<procVars, scanVars, checkc_fd, cwd, todo, untried, cmdline, refused>>

\* An empty command line: a kernel thread, or a process that has exited.
ReadCmdline(p) ==
    /\ fs = "read_cmdline"
    /\ Least(untried, p)
    /\ ~CmdlineGone
    /\ IF HasCmdline(cmdline.pid)
       THEN fs' = "join" /\ UNCHANGED untried
       ELSE SkipTry(p)
    /\ UNCHANGED <<procVars, scanVars, result, checkc_fd, cwd, todo, cmdline, refused>>

\* join_ns_by_path(): open, setns, close.  Once in the namespace, checkc
\* searches every mount point of the entry, and is done with the entry.
JoinAndSearch(p) ==
    /\ fs = "join"
    /\ Least(untried, p)
    /\ \E q \in Resolves(p), e \in mount_namespaces :
        /\ HasNs(q)
        /\ IsEntry(e)
        /\ EnterNs(proc[q].mnt)
        /\ mount_namespaces' =
            (mount_namespaces \ {e})
                \cup {[e EXCEPT !.searched = @ \cup {proc[q].mnt}]}
        /\ todo' = todo \ {e.by}
    /\ fs' = "entry"
    /\ UNCHANGED <<KernelHistory, pid_cfg, scan, unread, pids, mountinfo_of,
                   result, checkc_fd, untried, cmdline, refused>>

JoinFails(p) ==
    /\ fs = "join"
    /\ Least(untried, p)
    /\ \/ Missing(HasNs(p)) /\ UNCHANGED refused
       \/ SetnsRefused("join") /\ \E q \in Resolves(p) : HasNs(q)
    /\ SkipTry(p)
    /\ UNCHANGED <<procVars, scanVars, result, checkc_fd, cwd, todo, cmdline>>

EndSearch ==
    /\ fs = "entry"
    /\ todo = {}
    /\ result' = "ok"
    /\ fs' = "restore"
    /\ UNCHANGED <<procVars, scanVars, checkc_fd, cwd, todo, untried, cmdline, refused>>

(***************************************************************************)
(* The rest of fs_config_generic(): setns, close, chdir.  A failure is     *)
(* logged and the result of the search returned all the same.              *)
(***************************************************************************)
Restore ==
    /\ fs = "restore"
    /\ \E n \in checkc_fd :
        \/ /\ UNCHANGED refused
           /\ proc' = [proc EXCEPT ![Self].mnt = n]
           /\ cwd' = "original"
        \/ /\ SetnsRefused("restore")
           /\ cwd' = IF Current = n THEN "original" ELSE "elsewhere"
           /\ UNCHANGED proc
    /\ checkc_fd' = {}
    /\ fs' = "returned"
    /\ UNCHANGED <<KernelHistory, scanVars, result, todo, untried, cmdline>>

SearchNext ==
    \/ OpenOwnNs \/ ScanStep \/ BeginSearch
    \/ NextEntry \/ GiveUpEntry \/ Rejoin \/ FailOnCmdline \/ EndSearch \/ Restore
    \/ \E p \in Pid :
        OpenCmdline(p) \/ ReadCmdline(p) \/ JoinAndSearch(p) \/ JoinFails(p)

hostVars == <<vars, searchVars>>

HostInit == Init /\ SearchInit

HostNext ==
    \/ SearchNext
    \/ ProcNext /\ UNCHANGED <<scanVars, searchVars>>

\* checkc is one thread that never blocks, so it is scheduled again and again;
\* the other processes owe it nothing.
HostSpec == HostInit /\ [][HostNext]_hostVars /\ WF_hostVars(SearchNext)

(***************************************************************************)
(* Properties.                                                             *)
(***************************************************************************)
\* Every variable has its type.
HostTypeOK == TypeOK /\ SearchTypeOK

\* checkc looks at /proc only from the namespace that its descriptor holds,
\* whose procfs shows the PIDs that the scan collected, unless setns() refused
\* to bring it back there.
ProcReadAtHome ==
    "rejoin" \notin refused =>
        (fs \in {"scan", "open_cmdline", "read_cmdline", "join"} => checkc_fd = {Current})

\* On every way out, the error of the vanished process included, no descriptor
\* is left open, and checkc is in the namespace and the directory it was called
\* in: the setns() calls that fail on the way do no harm if the last succeeds.
LeavesNoTrace ==
    fs = "returned" =>
        /\ checkc_fd = {}
        /\ "restore" \notin refused => Current = HostNs /\ cwd = "original"

\* The flag files of an entry come from the namespace with the ns_id of the
\* entry, unless one of its processes has left that namespace meanwhile, or
\* setns() refused to bring checkc home and an earlier entry was searched: the
\* first entry that is searched is always the right one.
SearchesItsNamespace ==
    \A e \in mount_namespaces :
        \/ e.searched \subseteq {e.ns_id}
        \/ e.ns_pids \cap moved # {}
        \/ /\ "rejoin" \in refused
           /\ \E f \in mount_namespaces : f.by < e.by /\ f.searched # {}

\* An entry without flag files was searched and is clean: when the search
\* returns a result, every namespace in which a user process ran all along
\* was searched, although other processes of it vanished or are kernel threads.
EveryNamespaceSearched ==
    fs = "returned" /\ result = "ok" /\ refused \subseteq {"restore"} =>
        \A e \in mount_namespaces, p \in Pid \ Kthread :
            p \in e.ns_pids /\ Steady(p) /\ e.ns_pids \cap moved = {} =>
                e.searched = {e.ns_id}

\* What the call promises main.rs: the census of the processes whose mount
\* namespace was searched, among the user processes that the PID list admits.
\* It owes nothing when a process moved or setns() was refused on the way to a
\* search, and it fails only when a process moved or was reaped, or when one
\* that it has to look at may have a command line that is no text: one of the
\* list, unless setns() refused to bring checkc back to its own procfs.
Viewing == INSTANCE Census WITH
    census <- IF scan = "panic" THEN "err"
              ELSE IF fs = "returned" THEN result ELSE "taking",
    must <- IF moved = {} /\ refused \subseteq {"restore"}
            THEN {p \in Pid \ Kthread : Steady(p) /\ Selected(p)} ELSE {},
    may <- {p \in Pid : Selected(p) /\ (Listed(p) \/ p \in fresh \/ proc[p].gen > 0)},
    disturbed <- \/ moved # {}
                 \/ \E p \in Pid :
                    \/ proc[p].gen > 0
                    \/ MayBeNoText(p) /\ (Selected(p) \/ "rejoin" \in refused),
    counted <- IF fs = "returned" /\ result = "ok"
               THEN UNION {e.ns_pids : e \in {f \in mount_namespaces : f.searched = {f.ns_id}}}
               ELSE {}

\* fs_config_hostview() implements the census: the steps of the scan, of the
\* search and of the way back change nothing but what it returns.
ViewIsCensus == Viewing!CensusSpec

\* "did process vanish?" (fs.rs:339): the search goes on with the next PID of
\* a namespace when a process of it has vanished.
VanishingIsSkipped == result # "err"
=============================================================================
