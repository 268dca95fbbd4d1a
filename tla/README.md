# A TLA+ verification project for checkc

checkc collects the configuration of a Linux container from inside and from
the host, evaluates what it collected and assesses the result against four
security goals (S1 restriction of global resource modification, S2 restricted
device access, S3 no container data leak, S4 no availability impact). This
directory models its core, checks it with TLC and proves the main results with
TLAPS. Paths below are relative to the repository (`src/c_config/fs.rs` is the
file of that name); `PROJECT.json` lists every modelled definition with the
lines it stands for.

## 1. Inventory

One binary, four modes, run one after the other; files connect them.

    container mode --> container_data_raw.json --+
                                                 +--> evaluation --> assessment
    host mode ------> host_data_raw.json --------+

checkc is one thread of control. What makes it hard is not its own concurrency
but that of the machine it looks at: it reads `/proc` one file at a time while
every process listed there forks, exits, is reaped, moves to another namespace
or leaves its PID to another process; and it changes its own mount namespace
while it does so.

| component | state | operations | interacts with | hard behaviour | what makes it correct |
|---|---|---|---|---|---|
| mount scan (`get_mountinfos`, `info_by_pid`, `get_pid_list`) | PIDs left, entries so far | list, look up, open, append, drop | process table | a namespace is read twice per process, processes vanish in between | no steady process lost, none twice, an entry is about one namespace |
| host search (`fs_config_hostview`, `fs_config_generic`, `process_mountpoints_host`, `join_ns_by_path`) | own namespace, cwd, descriptor, entries and PIDs left | rejoin, read cmdline, join, search, restore | mount scan, process table, setns | setns refused, `/proc` resolved in the wrong namespace, vanished or moved processes, early return | searches the namespace it reports, misses none, leaves nothing changed, returns |
| container PIDs (`get_container_pids`) | PIDs left, position of the climb | list, open stat, read stat | process table | parents read at different times, orphans, PID reuse | finds the container's processes and no others, gets on with each climb |
| host mode (`main`) | the answers of nine calls | six container lists, three views, the report | the three above, three parties that go on | the lists are computed at different times, a view may leave namespaces out | every process is scanned as one of its own party, the report is about one set of processes |
| flag writer (`process_mountpoints_container`) | flag files, the list of them | scan, look, create | mounts of several namespaces | one directory at several paths, paths resolved in checkc's own namespace, mounts that change | each flag file recorded, and once |
| leak test (flag writer, host search, evaluation) | flag files found | write, search, compare | container, reference container, host | flag files of earlier runs, the container's root seen from the host, lost namespaces | what is shared is reported, what is reported is shared |
| evaluation (`EvalResult::from_config`) | none | combine the reports, eight categories, tests | reads both raw reports | ownership of namespaces, hand-written lists | every capability judged, only owned namespaces count |
| assessment (`assess_eval_result`, `CAP_MAP`) | none | goals S2, S1, S3, S4 | reads the evaluation report | S1 depends on S2, order of criticalities | verdicts mean what they say, hardening never hurts |
| report files and scripts (`store_report`, `run_example_podman.sh`, `entrypoint.sh`) | five files, the script, the container | check, create, write; wait, copy, run the modes | all modes | half-written and old files, interruption at any point, failures nobody notices | reports match, the verdict is about this run |
| cgroup limits (`cgroup_config`) | cgroup and file of the climb | climb for `cpu.max`, for `memory.max` | cgroup hierarchy | the two climbs stop differently, the container moves meanwhile | a limit found is one, a limit there is found |
| user namespace mappings (`unique_mapping`) | PIDs left, id read | overlap test against every process | process table | id, owner and mapping read one by one, 32-bit sums | unique means disjoint |
| namespace hierarchies (`Hierarchy`) | edges, tree | climb from each process, build the tree | process table | namespaces without processes, ids used again | every steady namespace in it once, below its ancestors |
| devices (`device_config`) | owner and mode of the files, the two lists | walk, open, chown, chmod, open again; mknod | `/dev`, other processes | the test changes what it tests, one device at several paths, ends of the number range | the report lists what can be obtained |
| capability sets, chroot, UTS, seccomp | none | single reads | `/proc` | little | - |
| skip lists, whitelists (`config/mod.rs`) | constants | - | evaluation, scan | - | - |

`PROJECT.json` has the hazards of this code, at their lines, each with the
properties that would catch it, or with the reason why there is none.

## 2. Modules

An arrow points to the module that is extended; `~~>` to an abstract
specification that is shown to be implemented (`INSTANCE ... WITH`); `-->>` to a
composition that uses the abstract specification in place of the component.

    ProcTable <--- MountScan <--- HostSearch ~~> Census <~~ ContainerPids ---> ProcTable, ProcessTree
                                                   |
                                                   +-->> HostRun ---> ProcessTree

    Evaluation <--- Assessment <--- Judgement
         ^   ^
         |   +--- DeviceProbe
         +------- LeakTest ---> FlagWriter

    ProcessTree <--- UserNamespaces <--- NsHierarchy ----+
         ^                 ^                             +--- Collectors
         |                 +----------- UserNsMapping ---+
         +--- CgroupLimits ------------------------------+

    Pipeline

Each `MC...` module gives the constants of one of these their values for TLC, and
each `...Proofs` module extends the module of that name with the proofs about it.
`HostSearchProofs` is about MountScan too, `LeakTestProofs` about FlagWriter,
`CollectorsProofs` about the three collectors and UserNamespaces, and
`VerdictProofs` about Judgement and DeviceProbe, which both end in a test of Evaluation.
`ProcessTreeProofs` has the lemmas about ancestors that three of them share.

**ProcTable** is external: the kernel's process table, stated only as far as
`lib.rs` and `fs.rs` can see it. A PID is `free`, runs, or is a `zombie`; `HasNs`,
`Listed` and `HasCmdline` say which files of `/proc/<pid>` answer in which state.
`gen` tells the owners of a reused PID apart, because an open file of
`/proc/<pid>` stays with the process it was opened for. The history variables
`fresh` and `moved` let properties speak about processes that were steady while
checkc looked. The processes `Garbled` may have a name or a command line that is no UTF-8,
which `read_to_string()` and `read_line()` refuse: `MayBeNoText`. checkc and the kernel threads are the only processes that do
nothing on their own. `Churn` names the events that may happen, `MaxEvents`
bounds their number. **ProcessTree** has what is common to all trees of parents
(`Lineage`, `Descendants`), of processes, namespaces and cgroups: sets that hold the
parents of their members, rather than a recursion, so that the same definition
can be evaluated and reasoned about.

**MountScan** is `get_mountinfos()` with `info_by_pid()`. `scan` is the
program counter, `pids` the rest of the `for` loop, `mount_namespaces` the
result. One action per access to `/proc`: `Readdir`, `SkipPid` and `LookUpNs`
(fs.rs:161, with the panic of fs.rs:175 as an outcome), `OpenMountinfo`
(fs.rs:73), `AppendEntry` (fs.rs:77 and the push), `DropPid` (the error path).
`readdir("/proc")` goes by ascending PID, and so does everything derived from
it, so sets with a least element stand for the vectors.
An entry has, next to the fields of the code, the namespace its mountinfo was
read from and the namespaces it was searched in: lines and file names are
abstracted to where they came from.

**HostSearch** adds the callers. `proc[Self].mnt` is the namespace of checkc
itself, which the code changes with `setns()`; it decides what a path
`/proc/<pid>` means (`Resolves`): only the namespaces in `HostProcfs` show the
PIDs that were collected, elsewhere the same number may be any process there, or
none. `SetnsFails` says which `setns()` calls the kernel may refuse (a search
uses threads, and `CLONE_NEWNS` is refused while a thread shares the
`fs_struct`); `refused` remembers which were. The walk over the files of an
entry's mount points is one step, `JoinAndSearch`, since nothing it does can
fail and its result depends only on the namespace checkc is in.

**ContainerPids** is `get_container_pids()`, against a process tree (`TreeFork`,
`TreeEnter`, `TreeExit`, `TreeReap`) in which orphans go to the init process of
their PID namespace. PID 1 and the container's init do not exit. The inner loop
(lib.rs:214) uses up no PID of the list per turn; the history `met`, the PIDs a climb has left
since a PID was last reused, is there to say that it advances all the same.

**Census** is the abstract specification of both: a question about the processes
of a system in motion has an answer that names at least those that qualified
all along and at most those that may have qualified; it may fail only if there is
something that lets it (`disturbed`). That is `CensusSafety`; that the answer comes is `Answered`, and
`CensusSpec` is both. Four variables of Census say which these are, and they
change with the system. The refinement mappings:

| Census | in ContainerPids (`CountsContainer`) | in HostSearch (`ViewIsCensus`) |
|---|---|---|
| `census` | `walk`: done, err, or still taking | `result` once `fs` is back; a panic is an error |
| `must` | `linked`: under parents that lead to the container's init, since the start | steady listed processes, unless one moved or a setns() before the last was refused |
| `may` | `contained`; any PID after a reuse | listed now, started since, or reused |
| `disturbed` | a PID was freed, or a process may have a name that is no text | a PID was freed, a process moved, or one of the listed (any, if the way back was refused) may have a command line that is no text |
| `counted` | `container_pids` on return | the PIDs of the entries searched in their own namespace |

The mapping of `may` and `must` is where the interleavings go: `Change` lets them
move only one way, so a step of checkc that is not `Return`, `Fail` or a stutter
is refused, and so is an answer that was right once but is not when it is given.

**HostRun** is host mode, composed from what Census promises and not from the
detailed modules. `Calls` is the sequence of questions of `main.rs`
(PIDs of both containers, two views, the PIDs again, the view of the host, the
PIDs once more for the report), `got` has the answers. `Begin` opens a census on
what the call is asked for, `Answer` and `Abort` close it, and the
processes of the three parties fork, exit, unshare and enter the containers
from outside (`podman exec`) at all times, narrowing `must` and widening `may` as
they do. `Refuse` is a `setns()` that is refused on the way to a search: the view owes nothing any
more and returns all the same, with checkc at home; `refused` remembers which views that happened in.
A view may also leave checkc `astray` in a foreign mount namespace, when the last `setns()` is
refused; after that nothing is promised. Any call may fail, since a process may vanish or
have a name that is no text at any time. Kernel threads, of which a view owes nothing, are
left out. That HostRun asks for no more than the detailed modules give
is an argument, not a theorem, because their states are not its states. It goes event by event:

| in HostRun | in ContainerPids (a `pids` call) | in HostSearch (a `view` call) |
|---|---|---|
| `must` of `Begin` | `linked` at the start: parents lead to the container's init | the listed processes with a mount namespace; HostRun has no zombie and no kernel thread |
| `may` of `Begin` | `contained` at the start | listed by the PID list, and in the process table |
| `Fork`, `Enter` widen `may` | `TreeFork`, `TreeEnter` add to `contained` if the new process is in the container | a process started since is `fresh`, and listed if the PID list admits it |
| `Exit` narrows `must` | `TreeExit` takes the process and all below it out of `linked` | it is no longer steady |
| `Unshare` | no effect | `moved`: nothing is owed |
| `Refuse` | does not occur | `refused` has a `setns()` before the last: nothing is owed |
| `astray` of `Answer` | does not occur | the last `setns()` was refused (`LeavesNoTrace`) |
| `disturbed` is TRUE | weaker than a freed PID or a name that is no text | weaker than what is listed above |

**FlagWriter** is container mode's `process_mountpoints_container()`. A path of a
mount namespace leads to a directory; what makes it hard is that the list of
mount points comes from several namespaces while all files are created through
checkc's own, so `Here` resolves every path there, and again at each access.
**LeakTest** puts the host's search and the tests of the evaluation behind it. The
two modules and Evaluation together carry a flag file from its creation to the
verdict.

**Pipeline** has the report files and the scripts. `store_report()` is three
steps (`is_file()`, create, write), of which a crash can separate any two, and the container's
checkc is a process of its own beside the script that waits for its file. A file
is none, partial, or full, and a full one remembers which container and which host
run it is about. `Kill`, `Start`, `RunContainers` and `RemoveReports` are what users do.

**UserNamespaces** (external) is the tree of user namespaces with the processes in
it; a namespace lives as long as a process is in it or below it, and its id may
be used again. On it: **NsHierarchy**, the edges collected process by process and
the tree that `populate()` makes of them, as the set of its paths;
**UserNsMapping**, the three reads per process, and the overlap of intervals with
sums modulo `2^W`; and beside it **CgroupLimits**, the two climbs one file at a
time. **Collectors** runs the three one after the other, as `main.rs` does; an
error of one ends the run (`ReadFails`: the cgroup whose file is open is removed).

**DeviceProbe** is `device_config()`: the walk over `/dev`, with an action per open,
chown and chmod, on files that other processes change; then the loop over
device numbers, with the real ends 2^12 and 256 and a sample of the numbers in
between. The whitelists of `config/mod.rs` have their real numbers.

**Evaluation** and **Assessment** are the pure parts: operators from a
configuration to an evaluation report and from that to verdicts. A
configuration is reduced to what the tests tell apart (the comment of
`Evaluation` says how); sets that `HashMap` and `HashSet` iterate in no fixed
order are sets. `CapMap` is the complete capability table. **Judgement** runs the
two modes one after the other. The texts in a report are left out, and so are the
tests that no goal reads (hostname, domain name, seccomp, cgroup controllers).

## 3. Runs

| run | question | bounds |
|---|---|---|
| `mount_scan` | does the scan group all processes, once, by the right namespace? | PIDs 1..5 (one checkc, one kernel thread, three others), three namespaces, three events of any kind |
| `mount_scan_panic` | violation: can two entries get one id? | as above, one `move` |
| `host_search` | does the search find, search and return, and is it a census? | PIDs 1..4, the namespaces and `HostProcfs` of `MCHostSearch`, three events, each of the three `setns()` calls may fail, one process may have a command line that is no text |
| `host_search_vanish` | violation: is a vanished process only skipped? | two events, `exit` and `reap`; no `setns()` fails |
| `container_pids` | does the climb find the container's processes and no others, does a climb advance, and is it a census? | PIDs 1..6, every initial tree, one name that may be no text; three events, or up to six while the last PID was never used (`MCBudget`) |
| `judgement` | what do the verdicts mean? | the configurations of `MCJudgement`: every namespace missing, every kind of owner, the capability sets each branch of `CAP_MAP` needs, devices of each whitelist, flags, limits, mappings |
| `host_run` | whose processes end up in which view and list? | three init processes and two more PIDs, in use or not at the start, two events, a refused `setns()` being one |
| `leak_test` | does the leak test report what is shared, and only that? | two namespaces of the container, one of the host, one of the reference container; three paths, six directories, every mix of the mounts of `MCLeakTest`; one remount; an old flag file or none |
| `pipeline` | what is the last verdict about? | three rounds of the script, two containers, any number of crashes and removals |
| `pipeline_return_code` | violation: is the return code that of checkc? | as above |
| `collectors` | do tree, limits and mapping tell the truth about a system in motion? | four PIDs, three user namespaces, three mappings of three-bit identifiers, three cgroups; two events, of which one on cgroups |
| `device_probe` | does the report list what can be obtained? | the entries, files and rules of `MCDeviceProbe`, numbers on both sides of each end of the loops, one change by others |

Why the bounds suffice. A race in the scan takes two reads about one process
and a second process that shares a namespace with it, and the panic takes a
third; five PIDs leave room for the kernel thread that is never joined. Two
events make a PID vanish (exit, reap) and a third reuses it, which is the
longest chain of events any check of the code can be confused by; `move` needs
one. In `container_pids` six PIDs give the container a child and a grandchild next
to a process outside; six events replace two processes under a climb, the fewest that lead it to a
PID it has met. Every initial process table within the bounds is explored.
In `host_run` two events let a process start between any two calls and another
one lose its parent; PIDs are not reused there, since both components admit in
their contract what reuse does to them. In `leak_test` one directory can be at
two paths of checkc's namespace, in the side namespace, in the host's and in the
reference container's at once. In `pipeline` a third round finds every mix of files that two
can leave. In `collectors` two events reuse an id (the namespace dies, another gets
it) or a PID; two identifier ranges that touch and one that reaches into both
cover the cases of the overlap test. In `device_probe` two entries lead to one
device, so a visit finds it as the one before left it.

What the passing runs show:

- *Scan* (`TypeOK`, `OnePlace`, `DuplicateOnlyByMove`, `EntryIsOneNamespace`,
  `Complete`): processes may come and go, and only a process that
  changes its namespace (or a reused PID) can confuse the scan, and then only
  about itself.
- *Search* (`HostTypeOK`, `ProcReadAtHome`, `LeavesNoTrace`,
  `SearchesItsNamespace`, `EveryNamespaceSearched`, `ViewIsCensus`): as long as the
  kernel lets checkc back into its namespace, it reads `/proc` only there; on
  every way out it restores namespace, directory and descriptor; an entry is
  searched in the namespace it names unless a process of the entry moved, or
  unless the way back was refused and an earlier entry was searched; it
  returns, with the answer that a census may give, or fails, but only if a process moved or
  was reaped, or may have a command line that is no UTF-8 (fs.rs:345).
- *Container PIDs* (`CpTypeOK`, `OnlyContainerPids`, `AllContainerPids`,
  `NoPidTwice`, `CountsContainer`): no process outside is taken for one inside without PID
  reuse, and one inside is missed only if it is new, came in from outside, or
  lost an ancestor. As long as no PID is reused a climb comes to no PID twice, and so ends; the
  call returns if there is an end to the reuse of PIDs, and nothing is promised if there is none.
  It fails only if a PID was freed or a process may have a name that is no UTF-8 (lib.rs:225).
- *Host mode* (`HrTypeOK`, `FalseLeakOnlyByRace`, `OneViewEach`,
  `ReportListsScanned`): a container's process is scanned as one of the host (and its
  flag files count as leaks) only if it was started after the lists to exclude
  were begun, came in by `podman exec`, or lost an ancestor; a steady process is in
  no view but that of its own party, and in that one unless a process changed its namespace or a
  `setns()` of that view was refused; the PID lists of the report, computed after the views, still
  agree with them for every process under unchanged parents, but for the namespaces that such
  a view has left out without a word in the report.
- *Leak test* (`LtTypeOK`, `FlagsAccounted`, `LeakIsReported`, `LeakIsReal`): every flag file
  is recorded, once unless a mount came between look and creation. A directory
  that the container can write to and another party sees makes the test fail
  although its flag file is recorded under one path only; a test that fails has a shared
  directory behind it, a remount, or a flag file of an earlier run.
- *Pipeline* (`PlTypeOK`, `ReportsMatch`, `VerdictIsOfThisRun`, `ScriptEnds`): refusing to
  overwrite is what keeps the reports consistent over interrupted runs. If no
  mode failed the verdict is about this run's host and container, except that a
  script not started from its own directory may keep an old copy of the container's report when
  `podman cp` fails. The loop ends once the container has a report, and it may
  wait forever for one that never comes.
- *Collectors* (`CoTypeOK`, `HierarchyIsFaithful`, `UniqueMeansDisjoint`,
  `LimitsAreEffective`): the tree is right for everything that was there all
  along; "unique" is right for namespaces mapped before the scan; "not unique" is right
  unless a PID was reused, or moved, between the read of its id and that of its
  mapping. A memory limit is never missed; a CPU limit of an outer cgroup
  is, behind a `cpu.max` that says `max` further in (the property states for
  which cgroups the CPU limit is found; nothing in the repository promises more).
- *Devices* (`DpTypeOK`, `AccessObtainable`, `MknodVerdict`): the record of a device says
  what can be obtained of it although the first chmod may take away what the
  second gives, and although its owner and mode are not put back; the extra
  number at the end of the major loop never changes the verdict.
- *Verdicts* (`JudgementTypeOK`, `EveryCapabilityJudged`, `S1MeansIsolated`,
  `S3MeansNoLeak`, `HardeningNeverHurts`): see the theorems. A by-product of
  `S1MeansIsolated`: goal S1 is never INFO or WARN, because whatever makes
  `CAP_MAP` answer one of these also misses a namespace, which is an ERROR.

The three violations are disagreements of the code with itself: the panic asserts
that ids are unique, which a moving process refutes (fs.rs:175 against 161 and
188); a process that vanishes between open and read of its cmdline aborts the
search of all namespaces, although the branch before it says to go on
(fs.rs:345 against 338-341); and the script prints as the return code of checkc
what is the one of `tee` (run_example_podman.sh:100, 105 and 110 against 98, 104
and 109, without `pipefail`), so it announces 0 for a mode that failed and
goes on.

*Deadlock.* checkc ends, so the runs do not check for deadlock. The
liveness of Census (in `ViewIsCensus` and `CountsContainer`) and `ScriptEnds` say
where it does end and does not get stuck on the way.

*Fairness.* Weak fairness of checkc's own step (`HostSearch`, `ContainerPids`), and none for the other processes. checkc is one thread that never
waits for anything there: every access to `/proc` answers or fails at once, so
one of its actions is always enabled until it is done, and the scheduler runs it
again and again. That the other processes do something is never assumed. The
loops of the scan and of the search use up a PID that was listed before with each turn, so
they end however long the system goes on. The climb of `get_container_pids()` does not: with
exits and reuse it may go round for as long as they last. `CountsContainer`
therefore promises an end only if the reuse of PIDs ends (`<>[][~ReusesPid]_procVars`). With `MaxEvents` it
always does in the model, so the part that does not lean on the bound is `NoPidTwice`: without reuse a climb
meets each of finitely many PIDs at most once. In `Pipeline` only the script is fair:
not the checkc in the container, nor the user. `DeviceProbe` and the other modules state no
fairness; an open of a pipe below `/dev` really may wait forever.

Every property of a passing run has a mutant, listed in `PROJECT.json`: an
operator next to the mapped definition, with a plausible bug, under which TLC
finds the property violated. The refinements have two, one against their safety
and one against their liveness.

## 4. Proofs

TLAPS proves every invariant that a passing run checks, for every value of the
constants that the named assumptions admit: any number of processes, namespaces,
paths, files, cgroups, containers and rounds, every kind of churn, and any number of
events (each bound such as `MaxEvents` is an arbitrary natural number). It
also proves the safety part of the two refinements. The properties alone are
seldom inductive; each module has an invariant that is, of parts named for
what they say, and one lemma per step or kind of step that it survives it. TLC
checked each of these invariants, or the part of it that was new, on the instance
of the run before it was proved.

**The scan** (`ScanInv`, in `HostSearchProofs`). `Cursor`: PIDs are processed in ascending
order, so that the entries were created by PIDs behind the current one. `InHand`: what
was read about the current PID (no entry had its namespace; its mountinfo was
opened) is still where the process is, unless it has moved. `Accounted`: a
steady process is still to be read, still to be processed, dropped by the PID
list, or in an entry of its namespace. `NoPanicWithoutMoves` is the counterpart
of the violation: if no process changes its namespace and no PID is reused, the
panic is unreachable.

**The search** (`HostInv`, in `HostSearchProofs`). While the scan runs it contains `ScanInv`;
afterwards `Entries` keeps the part of it that stays true of a system
that moves on. `AtHome` says when checkc may be in another namespace than its own: only
once an entry was searched, and while it looks at `/proc` only if the way back was refused. `Processed` and
`Tried` say which entries are dealt with and which processes of the entry in
hand were tried in vain, `Opened` relates the open cmdline file to the
process that has the PID now, `Outcome` the result to what is left to do.

**The PIDs of a container** (`CpInv`, in `ContainerPidsProofs`). `Tree` is what the kernel
guarantees of parents, `Links` what that means for links nobody broke. `Climb`: if
the ancestor the climb is at is in the container, so is the process it began at, as long as no PID
is reused; this gives `OnlyContainerPids` although every parent was read at another
time. `Ahead` and `Acyclic` say that
the PIDs a climb has met are never above the one it is at, whatever orphans are given as parents, which gives
`NoPidTwice` (`ClimbsAdvance`). `Accounted` has the hard part, that a climb from a linked process cannot
miss the container's init: the process it is at is in every linked set closed
under parents that holds the one it began at (`Meets`), and such a set cannot be
left before its end, since trees of parents have no cycle (`NoCycle`).

**Refinement.** `ViewIsCensusStepwise` and `CountIsCensusStepwise` prove that initial
states of HostSearch and of ContainerPids map to those of Census, and that every step,
of checkc or of the system, maps to a step of Census or a stutter.

**Host mode** (`HrInv`, in `HostRunProofs`). `Answers` says of every call of `main.rs` that has
returned, and of the bounds of the one under way, that it is `Sound` (whom it names is
excused or belongs there) and `Complete` (a process there early enough is named).
`History` relates the histories to the tree, `Progress` the calls to their order.
The invariant rests on the contract that Census states, with the bounds that this module's own events
give it. The refinement theorems above establish such a contract for each component under the events
of that component's module; that HostRun's bounds are no tighter is the table of section 2.

**The leak test** (`LtInv`, in `LeakTestProofs`). `Unflagged`: what the look at a path found
is still true when the file is created, or the path was remounted. `Reached`: a
mount point of checkc's own that the container may write to is flagged, or still listed. `Passed`:
the search has found the flag files it passed, and nothing else.

**The pipeline** (`PlInv`, in `PipelineProofs`). `Provenance`: which container and round a
complete file may be about. `InMemory`: what the mode under way read is what its inputs still
say. `OfThisRound` and `NoneLeft`: what the modes of this round have
left, if none failed, and if no report was there when it began.

**The collectors** (`CoInv`, in `CollectorsProofs`): a part about the system (`UnsInv`:
a namespace in use lies below the initial one; `Stays`: what every step of the
system preserves above it) and one per collector. For the hierarchy,
that the edges read are still those of the system, and that from them
`populate()` makes exactly one path to each steady namespace: one exists because the climb from a
namespace ends (its ancestors are finitely many), and no second one since a namespace has one
parent. For the mapping, that every namespace compared is
disjoint from the container's (`Compared`) and that the overlap test modulo `2^W` is the one on
identifiers. For the limits, what the climb went past (`PassedBy`).

**The devices** (`DpInv`, in `VerdictProofs`). `KnownOf` says for each step of a visit what is known of the
accesses found so far, and of the file's mode: what can be had without a change is
found by the first attempt, and the two chmods set the mode for just what it missed. `Kept`:
a file that nobody else changed is as it was, or checkc can still change it, so
that a later visit finds the same. `NodesMade`: the numbers recorded
are those usable among those tried; the number beyond the kernel's never is.

**The verdicts** (`ReportInv`, in `VerdictProofs`): each report is the function of the
configuration it should be. The work is in the lemmas about these functions: the
worst of a set of criticalities is its maximum (`WorstIsGreatest`), the categories cover
the namespaces and partition the capabilities, with all namespaces active no
capability but `CAP_SYS_CHROOT` is rated (`CapabilitiesInside`), so goal S1 is the predicate
`Isolated` (`GoalS1IsIsolation`), and every goal is monotone in what hardening changes
(`NoLooserIsNoWorse`).

**Assumptions.** All are named in the module that declares the constants, and TLC
evaluates them in the runs. Most are types. The others: PIDs are numbers from 1
(`ProcAssumption`), which gives their order; PID 1 and the container's init do not
exit (the model; `CInitAssumption` names them); the three init processes of host mode
differ (`HostRunAssumption`); the cgroups form a tree (`CgroupAssumption`: no set of them has all
its parents, which for finitely many says that none is above itself); user
namespaces are finitely many at a time (`UserNsAssumption`); `2^W` is a number, which
the provers do not know by themselves, and no mapping that the kernel admits
reaches beyond it (`WidthAssumption`); a namespace has a root
(`FlagAssumption`); no driver has major number 0, or one beyond what the
kernel can tell apart (`DeviceAssumption`). Apart from the user namespaces
no set needs to be finite.

**Only model-checked.** Liveness, since fairness and ENABLED are beyond the prover:
`ScriptEnds`, and the `<>` of Census in `ViewIsCensus` and `CountsContainer`. HostRun
uses Census with its own variables; that its bounds are those of the detailed
modules is argued in section 2, and there is no module that runs all of them in one state.

## 5. Not modelled, and abstractions to know about

- The capability, chroot, UTS and seccomp collectors and the two namespace sets are
  single reads or one system call; the evaluation takes what they read as input,
  and HostRun that they may fail.
- `gid_map` is only copied to the report. The PID-namespace hierarchy is built by
  the code modelled for user namespaces.
- `store_report` with a directory in place of a file: no script does that.
- Log files, image builds, `scripts/vm`, the protobuf schemas and generated code.
- That `open("/proc/<own pid>/ns/mnt")`, `current_dir()` and `close()` of the descriptor
  succeed is assumed: these come before the first and after the last change of state of a call.
  That the number in a line of `stat` and the lines of `uid_map` parse is assumed too. A name or a
  command line that is no UTF-8, and a name with a line break, are modelled (`MayBeNoText`): they end the call
  in the middle. Lines of `mountinfo` that are no text, or do not match, are dropped where they
  are read (fs.rs:108-133), so writer and search skip them alike.
- The walk over a mount point is done by the crate `rust_search`, which is not
  part of the repository. That it finds the flag file at the top of a mount point that checkc
  can read, whatever its rules on ignored and hidden files, is an assumption of LeakTest.
- `RemoveReports` of Pipeline removes all reports at once; removing some of them
  by hand is left out.
- `/proc/<pid>/mounts` is opened, and after the second read of the namespace
  `mounts` and `mountinfo` are read, from files that stay on the namespace they
  were opened in; the model opens `mountinfo` and `mounts` in one step.
- The threads of a process, and those of a file search, are not modelled; their
  one visible effect is that `setns()` may be refused, which is a choice.
- HostRun reaps a process as it exits and does not reuse PIDs; zombies and reuse
  are in the two modules that implement Census.
- DeviceProbe samples the numbers between the ends of its loops; nothing in the loop
  body depends on the number but the ends and the whitelists, of which the
  sample has members and non-members.

## 6. Plan

What is left to prove:

1. Action properties: that answers, once given, do not change, and that `store_report`
   never overwrites a complete report, as `[][A]_vars` from the invariants there are.
2. Closed forms of goals S2 and S4, as `Isolated` is one of S1.
3. The rest of the evaluation: that a capability counts exactly in the
   namespaces that own what it governs.
4. The steps that no process but checkc takes: a measure that each of them decreases,
   which is as much of termination as can be stated without fairness.
