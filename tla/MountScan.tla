------------------------------ MODULE MountScan ------------------------------
(***************************************************************************)
(* get_mountinfos() and Info::info_by_pid() of src/c_config/fs.rs: group   *)
(* the processes of the system by mount namespace, and read the mount      *)
(* points of each namespace through the first of its processes.            *)
(*                                                                         *)
(* Every access to /proc is a step of its own, because the processes fork, *)
(* exit and change their namespace in between: a namespace is looked up    *)
(* with one read of /proc/<pid>/ns/mnt and recorded with another.          *)
(*                                                                         *)
(* readdir("/proc") and the loop over its result go by ascending PID, and  *)
(* the vector of entries is in the order of the PIDs that created them, so *)
(* sets with a least element stand for the three sequences.                *)
(***************************************************************************)
EXTENDS ProcTable

CONSTANT PidCfgs    \* the arguments pid_cfg the scan is called with

ASSUME PidCfgAssumption == PidCfgs \subseteq [list : SUBSET Pid, include : BOOLEAN]

VARIABLES
    pid_cfg,            \* the include or exclude list
    scan,               \* where the scan is
    unread,             \* PIDs that readdir() has not reached
    pids,               \* PIDs the loop has yet to process
    mountinfo_of,       \* the namespace whose mountinfo info_by_pid has open
    mount_namespaces    \* the result

scanVars == <<pid_cfg, scan, unread, pids, mountinfo_of, mount_namespaces>>

(***************************************************************************)
(* An entry of the result: the PID that created it, its ns_id, the         *)
(* namespace its mountinfo was read from, its ns_pids and the namespaces   *)
(* whose file systems flag_files was collected in.                         *)
(***************************************************************************)
MountNamespace ==
    [by : Pid, ns_id : Ns, mountinfo : Ns, ns_pids : SUBSET Pid, searched : SUBSET Ns]

ScanTypeOK ==
    /\ pid_cfg \in PidCfgs
    /\ scan \in {"readdir", "ns_id", "mountinfo", "info_ns_id", "done", "panic"}
    /\ unread \subseteq Pid
    /\ pids \subseteq Pid
    /\ mountinfo_of \in Ns
    /\ mount_namespaces \subseteq MountNamespace

ScanInit ==
    /\ pid_cfg \in PidCfgs
    /\ scan = "readdir"
    /\ unread = Pid
    /\ pids = {}
    /\ mountinfo_of = HostNs
    /\ mount_namespaces = {}

Least(S, p) == p \in S /\ \A q \in S : p <= q

\* The PID is not dropped by the include or exclude list.
Selected(p) == IF pid_cfg.include THEN p \in pid_cfg.list ELSE p \notin pid_cfg.list

\* Mutants of WithId: the filter finds nothing; it is forgotten.
WithId_Nothing(n) == {}
WithId_Any(n) == mount_namespaces

\* mountns_filter: the entries whose id is n.
WithId(n) == {e \in mount_namespaces : e.ns_id = n}

PushPid(e, p) ==
    mount_namespaces' =
        (mount_namespaces \ {e}) \cup {[e EXCEPT !.ns_pids = @ \cup {p}]}

\* Mutant of NewEntry: ns_id is left at its default.
NewEntry_DefaultId(p, id, src) ==
    [by |-> p, ns_id |-> "default", mountinfo |-> src, ns_pids |-> {p}, searched |-> {}]

NewEntry(p, id, src) ==
    [by |-> p, ns_id |-> id, mountinfo |-> src, ns_pids |-> {p}, searched |-> {}]

(***************************************************************************)
(* The steps.                                                              *)
(***************************************************************************)
\* get_pid_list() reads one more entry of /proc.
Readdir ==
    /\ scan = "readdir"
    /\ \E p \in unread :
        /\ Least(unread, p)
        /\ unread' = unread \ {p}
        /\ pids' = IF Listed(p) THEN pids \cup {p} ELSE pids
    /\ scan' = IF unread' = {} THEN "ns_id" ELSE "readdir"
    /\ UNCHANGED <<pid_cfg, mountinfo_of, mount_namespaces>>

\* The loop is done with p: every `continue`, and the end of the body.
NextPid(p) ==
    /\ pids' = pids \ {p}
    /\ scan' = "ns_id"

Finish ==
    /\ scan = "ns_id"
    /\ pids = {}
    /\ scan' = "done"
    /\ UNCHANGED <<pid_cfg, unread, pids, mountinfo_of, mount_namespaces>>

\* Mutant of SkipPid: `break` in place of `continue`.
SkipPid_Break(p) ==
    /\ scan = "ns_id"
    /\ Least(pids, p)
    /\ ~Selected(p) \/ ~HasNs(p)
    /\ pids' = {}
    /\ UNCHANGED <<pid_cfg, scan, unread, mountinfo_of, mount_namespaces>>

SkipPid(p) ==
    /\ scan = "ns_id"
    /\ Least(pids, p)
    /\ ~Selected(p) \/ ~HasNs(p)
    /\ NextPid(p)
    /\ UNCHANGED <<pid_cfg, unread, mountinfo_of, mount_namespaces>>

\* Mutant of LookUpNs: the `continue` after the push is missing.
LookUpNs_NoContinue(p) ==
    /\ scan = "ns_id"
    /\ Least(pids, p)
    /\ Selected(p)
    /\ HasNs(p)
    /\ \/ \E e \in WithId(proc[p].mnt) : PushPid(e, p)
       \/ WithId(proc[p].mnt) = {} /\ UNCHANGED mount_namespaces
    /\ scan' = "mountinfo"
    /\ UNCHANGED <<pid_cfg, unread, pids, mountinfo_of>>

\* Id::from_type(p) succeeds, and the id is looked up in the result so far.
LookUpNs(p) ==
    /\ scan = "ns_id"
    /\ Least(pids, p)
    /\ Selected(p)
    /\ HasNs(p)
    /\ \/ /\ \E e, f \in WithId(proc[p].mnt) : e # f
          /\ scan' = "panic"
          /\ UNCHANGED <<pids, mount_namespaces>>
       \/ \E e \in WithId(proc[p].mnt) :
          /\ WithId(proc[p].mnt) = {e}
          /\ PushPid(e, p)
          /\ NextPid(p)
       \/ /\ WithId(proc[p].mnt) = {}
          /\ scan' = "mountinfo"
          /\ UNCHANGED <<pids, mount_namespaces>>
    /\ UNCHANGED <<pid_cfg, unread, mountinfo_of>>

\* info_by_pid() opens /proc/p/mountinfo.  The open file stays on the
\* namespace the process is in now, whatever becomes of the process.
OpenMountinfo(p) ==
    /\ scan = "mountinfo"
    /\ Least(pids, p)
    /\ HasNs(p)
    /\ mountinfo_of' = proc[p].mnt
    /\ scan' = "info_ns_id"
    /\ UNCHANGED <<pid_cfg, unread, pids, mount_namespaces>>

\* info_by_pid() asks for the namespace again, and the new entry is keyed
\* by this second answer.
AppendEntry(p) ==
    /\ scan = "info_ns_id"
    /\ Least(pids, p)
    /\ HasNs(p)
    /\ mount_namespaces' =
        mount_namespaces \cup {NewEntry(p, proc[p].mnt, mountinfo_of)}
    /\ NextPid(p)
    /\ UNCHANGED <<pid_cfg, unread, mountinfo_of>>

\* info_by_pid() fails: the process exited under it.
DropPid(p) ==
    /\ scan \in {"mountinfo", "info_ns_id"}
    /\ Least(pids, p)
    /\ ~HasNs(p)
    /\ NextPid(p)
    /\ UNCHANGED <<pid_cfg, unread, mountinfo_of, mount_namespaces>>

ScanNext ==
    \/ Readdir
    \/ Finish
    \/ \E p \in Pid :
        SkipPid(p) \/ LookUpNs(p) \/ OpenMountinfo(p) \/ AppendEntry(p) \/ DropPid(p)

(***************************************************************************)
(* The scan and the processes it reads, interleaved.                       *)
(***************************************************************************)
vars == <<procVars, scanVars>>

Init == ProcInit /\ ScanInit

Scan == ScanNext /\ UNCHANGED procVars
Churns == ProcNext /\ UNCHANGED scanVars

Next == Scan \/ Churns

Spec == Init /\ [][Next]_vars

(***************************************************************************)
(* Properties.                                                             *)
(***************************************************************************)
\* Every variable has its type.
TypeOK == ProcTypeOK /\ ScanTypeOK

\* A process is listed under at most one namespace, however often it moves
\* while the scan runs: process_mountpoints_host never searches a namespace
\* with a PID that another entry counts as its own.
OnePlace ==
    \A e, f \in mount_namespaces : e.ns_pids \cap f.ns_pids # {} => e = f

\* Two entries share an ns_id only if the process that created the later one
\* changed its namespace (or its PID was reused).  So the panic of the scan,
\* which asserts that ns_ids are unique, needs a process that moves.
DuplicateOnlyByMove ==
    /\ \A e, f \in mount_namespaces :
           e.ns_id = f.ns_id /\ e.by < f.by => f.by \in moved
    /\ scan = "panic" => moved # {}

\* An entry is about one namespace: its mountinfo was read from the namespace
\* with its ns_id, and the processes in its ns_pids that are still running
\* are there, but for the processes that moved.
EntryIsOneNamespace ==
    \A e \in mount_namespaces :
        /\ e.by \notin moved => e.mountinfo = e.ns_id
        /\ \A p \in e.ns_pids : Steady(p) => proc[p].mnt = e.ns_id

\* When the scan ends, every process that was there all along, and that the
\* include or exclude list admits, is listed under the namespace it is in;
\* processes that vanish under the scan make it lose no other.
Complete ==
    scan = "done" =>
        \A p \in Pid : Steady(p) /\ Selected(p) =>
            \E e \in mount_namespaces : p \in e.ns_pids /\ e.ns_id = proc[p].mnt

\* panic!("Error: mountns_handle.len() > 1"): the code asserts that no two
\* entries have the same ns_id.
UniqueIds == scan # "panic"
=============================================================================
