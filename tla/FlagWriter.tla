------------------------------ MODULE FlagWriter ------------------------------
(***************************************************************************)
(* process_mountpoints_container() of src/c_config/fs.rs: checkc, inside   *)
(* of the test container, lists the mount points of every mount namespace  *)
(* it sees there, and puts a flag file into each.  It stays in its own     *)
(* mount namespace while it does so: a mount point of another namespace is *)
(* a path that leads wherever it leads in checkc's own, and one directory  *)
(* may be mounted at several paths.                                        *)
(*                                                                         *)
(* A directory stands for what is identical wherever it is mounted; all    *)
(* flag files of one run have one name, so a directory has it or not.      *)
(***************************************************************************)
EXTENDS Naturals, FiniteSets

CONSTANTS
    Ns,             \* the mount namespaces of the system
    ContainerNs,    \* those of processes of the container
    Own,            \* checkc's own, in the container
    Path,           \* the paths that are mount points somewhere
    Dir,            \* the directories
    Unlisted,       \* those in a file system of MOUNTPOINT_FS_SKIPS
    Tables,         \* what may be mounted in each namespace to begin with
    MaxRemounts     \* bound on the mounts that happen meanwhile

\* What a path leads to where it leads to a file, or nowhere.
NoDir == "no directory"

Place == [dir : Dir \cup {NoDir}, ro : BOOLEAN, mounted : BOOLEAN]

ASSUME FlagAssumption ==
    /\ ContainerNs \subseteq Ns
    /\ Own \in ContainerNs
    /\ Path # {}        \* a namespace has a root
    /\ NoDir \notin Dir
    /\ Unlisted \subseteq Dir
    /\ Tables \subseteq [Ns -> [Path -> Place]]
    /\ MaxRemounts \in Nat

VARIABLES
    at,             \* what is at each path of each namespace
    remounts,       \* how many mounts have happened
    remounted,      \* history: the paths, per namespace, where they did
    writable,       \* history: the directories the container could write to
    writer,         \* where process_mountpoints_container is
    unscanned,      \* the namespaces that the scan has not reached
    todo,           \* the mount points it has yet to process
    flag_path,      \* the one it is at
    flagged,        \* the directories that have a flag file
    flag_files      \* the result: flag files, per namespace and path

mountVars == <<at, remounts, remounted, writable>>
writerVars == <<writer, unscanned, todo, flag_path, flagged, flag_files>>

MountPoint == Ns \X Path

WriterTypeOK ==
    /\ at \in [Ns -> [Path -> Place]]
    /\ remounts \in 0 .. MaxRemounts
    /\ remounted \subseteq MountPoint
    /\ writable \subseteq Dir
    /\ writer \in {"scan", "stat", "create", "done"}
    /\ unscanned \subseteq ContainerNs
    /\ todo \subseteq MountPoint
    /\ flag_path \in MountPoint
    /\ flagged \subseteq Dir
    /\ flag_files \subseteq [mountpoint : MountPoint, dir : Dir]

Writable(place) == place.dir \in Dir /\ ~place.ro

WritableIn(table) == {table[p].dir : p \in {q \in DOMAIN table : Writable(table[q])}}

MountsInit ==
    /\ at \in Tables
    /\ remounts = 0
    /\ remounted = {}
    /\ writable = WritableIn(at[Own])

WriterInit ==
    /\ writer = "scan"
    /\ unscanned = ContainerNs
    /\ todo = {}
    /\ flag_path = CHOOSE m \in MountPoint : TRUE
    /\ flagged = {}
    /\ flag_files = {}

(***************************************************************************)
(* Somebody mounts something, or unmounts it, which brings back what was   *)
(* there; no path but that one changes.                                    *)
(***************************************************************************)
Places == [m \in MountPoint |-> {table[m[1]][m[2]] : table \in Tables}]

Remount(n, p) ==
    /\ remounts < MaxRemounts
    /\ remounts' = remounts + 1
    /\ \E place \in Places[<<n, p>>] \ {at[n][p]} : at' = [at EXCEPT ![n][p] = place]
    /\ remounted' = remounted \cup {<<n, p>>}
    /\ writable' = writable \cup WritableIn(at'[Own])

Mounts == \E n \in Ns, p \in Path : Remount(n, p)

(***************************************************************************)
(* get_mountinfos(None).  Its races about processes are those of MountScan *)
(* and HostSearch; here a namespace may be missed because its processes    *)
(* have exited, all but checkc's own.                                      *)
(***************************************************************************)
Listed(n) ==
    {<<n, p>> : p \in {q \in Path : at[n][q].mounted /\ at[n][q].dir \notin Unlisted}}

ScanNs(n) ==
    /\ writer = "scan"
    /\ n \in unscanned
    /\ unscanned' = unscanned \ {n}
    /\ \/ todo' = todo \cup Listed(n)
       \/ n # Own /\ UNCHANGED todo
    /\ writer' = IF unscanned' = {} THEN "stat" ELSE "scan"
    /\ UNCHANGED <<flag_path, flagged, flag_files>>

(***************************************************************************)
(* The loops over namespaces and mount points: their order, the one of the *)
(* PIDs and of the mounts, is left open.                                   *)
(***************************************************************************)
Here(m) == at[Own][m[2]]

\* The branch for FLAG_SKIP_FS is never taken: info_by_pid() has dropped these
\* file systems, which are all in MOUNTPOINT_FS_SKIPS.
FlagThere(m) == Here(m).dir \in flagged

\* Mutant of SkipMountPoint: `break` in place of `continue`.
SkipMountPoint_Break(m) ==
    /\ writer = "stat"
    /\ m \in todo
    /\ FlagThere(m)
    /\ todo' = {n \in todo : n[1] # m[1]}
    /\ UNCHANGED <<writer, unscanned, flag_path, flagged, flag_files>>

\* A file with the name is there: left alone, and not recorded.
SkipMountPoint(m) ==
    /\ writer = "stat"
    /\ m \in todo
    /\ FlagThere(m)
    /\ todo' = todo \ {m}
    /\ UNCHANGED <<writer, unscanned, flag_path, flagged, flag_files>>

\* Mutant of StatFlag: the file is created without a look at what is there.
StatFlag_Always(m) ==
    /\ writer = "stat"
    /\ m \in todo
    /\ flag_path' = m
    /\ writer' = "create"
    /\ UNCHANGED <<unscanned, todo, flagged, flag_files>>

StatFlag(m) ==
    /\ writer = "stat"
    /\ m \in todo
    /\ ~FlagThere(m)
    /\ flag_path' = m
    /\ writer' = "create"
    /\ UNCHANGED <<unscanned, todo, flagged, flag_files>>

\* Mutant of CreateFlag: the file is recorded although it was not created.
CreateFlag_Unchecked ==
    /\ writer = "create"
    /\ flagged' = flagged \cup WritableIn([p \in {flag_path[2]} |-> Here(flag_path)])
    /\ flag_files' =
        flag_files \cup {[mountpoint |-> flag_path, dir |-> Here(flag_path).dir]}
    /\ todo' = todo \ {flag_path}
    /\ writer' = "stat"
    /\ UNCHANGED <<unscanned, flag_path>>

\* File::create() resolves the path once more.  On a path that is read-only,
\* no directory, or gone, it fails, which is only logged.
CreateFlag ==
    /\ writer = "create"
    /\ LET place == Here(flag_path)
       IN  IF Writable(place)
           THEN /\ flagged' = flagged \cup {place.dir}
                /\ flag_files' =
                    flag_files \cup {[mountpoint |-> flag_path, dir |-> place.dir]}
           ELSE UNCHANGED <<flagged, flag_files>>
    /\ todo' = todo \ {flag_path}
    /\ writer' = "stat"
    /\ UNCHANGED <<unscanned, flag_path>>

AllFlagged ==
    /\ writer = "stat"
    /\ todo = {}
    /\ writer' = "done"
    /\ UNCHANGED <<unscanned, todo, flag_path, flagged, flag_files>>

WriterNext ==
    \/ \E n \in ContainerNs : ScanNs(n)
    \/ \E m \in MountPoint : SkipMountPoint(m) \/ StatFlag(m)
    \/ CreateFlag \/ AllFlagged

(***************************************************************************)
(* Properties.                                                             *)
(***************************************************************************)
\* The result accounts for every flag file that was written: each is recorded,
\* and only once although it is seen at several paths and in several
\* namespaces, unless a mount between the look and the creation came in between.
FlagsAccounted ==
    /\ \A d \in flagged : \E f \in flag_files : f.dir = d
    /\ \A f, g \in flag_files :
        f # g /\ f.dir = g.dir =>
            \E m \in {f.mountpoint, g.mountpoint} : <<Own, m[2]>> \in remounted
=============================================================================
