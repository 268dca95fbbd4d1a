------------------------------- MODULE LeakTest -------------------------------
(***************************************************************************)
(* The test for data leaks, from one end to the other: the flag files that *)
(* checkc writes in the test container (FlagWriter), the search for them   *)
(* through the host's and the reference container's mount namespaces       *)
(* (process_mountpoints_host() of src/c_config/fs.rs), and the tests that  *)
(* evaluate what was found (do_check_flags_host and _refcontainer of       *)
(* src/evaluation/mod.rs).                                                 *)
(***************************************************************************)
EXTENDS FlagWriter, Evaluation

CONSTANTS
    HostView,       \* the namespaces that are searched as the host's
    RefView,        \* and as the reference container's
    RootPaths,      \* paths under the test container's root, seen from the host
    StaleDirs       \* where flag files of an earlier run may be left

ASSUME LeakAssumption ==
    /\ HostView \subseteq Ns /\ RefView \subseteq Ns
    /\ RootPaths \subseteq Path
    /\ StaleDirs \subseteq Dir

VARIABLES
    stale,          \* directories with a flag file of an earlier run
    unsearched,     \* the paths that the search has yet to look at
    lost,           \* history: namespaces no process of which could be joined
    found           \* flag files that were found: namespace and path

leakVars == <<stale, unsearched, lost, found>>
ltVars == <<mountVars, writerVars, leakVars>>

LtInit ==
    /\ MountsInit
    /\ WriterInit
    /\ stale \in SUBSET StaleDirs
    /\ unsearched = (HostView \cup RefView) \X Path
    /\ lost = {}
    /\ found = {}

\* Mutant of HasFlag: only the names this run has given are searched for.
HasFlag_Recorded(n, p) ==
    at[n][p].dir \in flagged /\ \E f \in flag_files : f.mountpoint[2] = p

\* FLAG_BASE_NAME is common to the flag files of all runs.
HasFlag(n, p) == at[n][p].dir \in flagged \cup stale

\* The host mode runs when the container's report is there, and views the
\* reference container before the host.
InTurn(n) ==
    /\ writer = "done"
    /\ n \in RefView \/ unsearched \cap (RefView \X Path) = {}

\* A search starts from every mount point of the namespace and descends; what
\* it finds is what it passes, at the time it passes.
SearchPath(n, p) ==
    /\ InTurn(n)
    /\ <<n, p>> \in unsearched
    /\ unsearched' = unsearched \ {<<n, p>>}
    /\ found' = IF HasFlag(n, p) THEN found \cup {<<n, p>>} ELSE found
    /\ UNCHANGED <<stale, lost>>

\* The processes of the namespace have exited, or moved.
LoseNs(n) ==
    /\ InTurn(n)
    /\ {n} \X Path \subseteq unsearched
    /\ unsearched' = unsearched \ ({n} \X Path)
    /\ lost' = lost \cup {n}
    /\ UNCHANGED <<stale, found>>

Search == \E n \in HostView \cup RefView : LoseNs(n) \/ \E p \in Path : SearchPath(n, p)

LtNext ==
    \/ WriterNext /\ UNCHANGED <<mountVars, leakVars>>
    \/ Search /\ UNCHANGED <<mountVars, writerVars>>
    \/ Mounts /\ UNCHANGED <<writerVars, leakVars>>

LtSpec == LtInit /\ [][LtNext]_ltVars

(***************************************************************************)
(* The evaluation of what was found.                                       *)
(***************************************************************************)
FlagsIn(view) ==
    {[uuid |-> TRUE, in_root |-> f[2] \in RootPaths] : f \in {g \in found : g[1] \in view}}

Collected == [host_flags |-> FlagsIn(HostView), ref_flags |-> FlagsIn(RefView)]

HostLeak == FlagMatchesHost(Collected) # {}
RefLeak == FlagMatchesRef(Collected) # {}

(***************************************************************************)
(* Properties.                                                             *)
(***************************************************************************)
\* Every variable has its type.
LtTypeOK ==
    /\ WriterTypeOK
    /\ stale \subseteq StaleDirs
    /\ unsearched \subseteq MountPoint
    /\ lost \subseteq Ns
    /\ found \subseteq MountPoint

Steady(n, p) == <<n, p>> \notin remounted

\* A directory that the container can write to through a mount of its own.
Exposed(d) ==
    \E p \in Path :
        /\ Steady(Own, p)
        /\ at[Own][p].mounted /\ Writable(at[Own][p])
        /\ at[Own][p].dir = d /\ d \notin Unlisted

SeenAt(view, paths, d) ==
    \E n \in view \ lost, p \in paths : Steady(n, p) /\ at[n][p].dir = d

\* Nothing that is shared goes unnoticed: a directory that is mounted writable
\* in the test container and that a namespace of the host or of the reference
\* container has at some path makes the test for that view fail, except for the
\* host's view of the container's own root.  Neither a second path to the
\* directory nor a mount that changes elsewhere hides it.
LeakIsReported ==
    writer = "done" /\ unsearched = {} =>
        \A d \in Dir : Exposed(d) =>
            /\ SeenAt(HostView, Path \ RootPaths, d) => HostLeak
            /\ SeenAt(RefView, Path, d) => RefLeak

\* A leak that is reported is one: the container could write to a directory
\* that the host has outside of the container's root, or the reference
\* container anywhere, unless an earlier run left a flag file there, or the
\* path was remounted since.
LeakIsReal ==
    /\ HostLeak =>
        \E f \in found : f[1] \in HostView /\ f[2] \notin RootPaths
            /\ (at[f[1]][f[2]].dir \in writable \cup stale \/ ~Steady(f[1], f[2]))
    /\ RefLeak =>
        \E f \in found : f[1] \in RefView
            /\ (at[f[1]][f[2]].dir \in writable \cup stale \/ ~Steady(f[1], f[2]))
=============================================================================
