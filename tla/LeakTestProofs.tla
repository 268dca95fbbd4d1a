---------------------------- MODULE LeakTestProofs ----------------------------
(***************************************************************************)
(* Proofs of the safety properties of FlagWriter and LeakTest: what is     *)
(* shared is reported, and what is reported is shared, for any number of   *)
(* namespaces, paths and directories and any mounts between the steps.     *)
(***************************************************************************)
EXTENDS LeakTest, TLAPS

(***************************************************************************)
(* The inductive invariant.                                                *)
(***************************************************************************)
\* Where the writer is: nothing is searched before it is done.
Stages ==
    /\ writer # "scan" => unscanned = {}
    /\ writer = "done" => todo = {}
    /\ writer # "done" => unsearched = (HostView \cup RefView) \X Path

\* The flag files lie where the container could write, and are recorded.
Recorded ==
    /\ WritableIn(at[Own]) \subseteq writable /\ flagged \subseteq writable
    /\ \A f \in flag_files : f.dir \in flagged
    /\ FlagsAccounted

\* What StatFlag saw still holds when CreateFlag comes, or the path was
\* remounted in between.
Unflagged ==
    writer = "create" => Here(flag_path).dir \notin flagged \/ ~Steady(Own, flag_path[2])

\* A mount point that the container may write to is flagged, or still listed.
Reached ==
    Own \notin unscanned =>
        \A p \in Path :
            Steady(Own, p) /\ at[Own][p].mounted /\ Writable(at[Own][p])
            /\ at[Own][p].dir \notin Unlisted =>
                <<Own, p>> \in todo \/ at[Own][p].dir \in flagged

\* The search has found the flag files it passed, and only flag files.
Passed ==
    /\ \A m \in found : m[1] \in HostView \cup RefView /\
           (Steady(m[1], m[2]) => HasFlag(m[1], m[2]))
    /\ \A n \in (HostView \cup RefView) \ lost, p \in Path :
           <<n, p>> \notin unsearched /\ Steady(n, p) /\ HasFlag(n, p) => <<n, p>> \in found

LtInv ==
    /\ LtTypeOK
    /\ Stages
    /\ Recorded
    /\ Unflagged
    /\ Reached
    /\ Passed

LEMMA LtInvInit == LtInit => LtInv
<1> SUFFICES ASSUME LtInit PROVE LtInv
  OBVIOUS
<1> USE DEF LtInit, MountsInit, WriterInit
<1>1. LtTypeOK
  <2>1. \E m \in MountPoint : TRUE
    <3>1. PICK p \in Path : TRUE
      BY FlagAssumption
    <3>2. <<Own, p>> \in MountPoint
      BY FlagAssumption DEF MountPoint
    <3>3. QED
      BY <3>2
  <2>2. flag_path \in MountPoint
    BY <2>1
  <2>3. at \in [Ns -> [Path -> Place]] /\ Own \in Ns
    BY FlagAssumption
  <2>4. writable \subseteq Dir
    BY <2>3 DEF WritableIn, Writable
  <2>5. unsearched \subseteq MountPoint
    BY LeakAssumption DEF MountPoint
  <2>6. remounts \in 0 .. MaxRemounts
    BY FlagAssumption
  <2>7. QED
    BY <2>2, <2>3, <2>4, <2>5, <2>6 DEF LtTypeOK, WriterTypeOK
<1>2. Stages /\ Recorded /\ Unflagged
  BY DEF Stages, Recorded, FlagsAccounted, Unflagged
<1>3. Reached /\ Passed
  BY FlagAssumption DEF Reached, Passed
<1>4. QED
  BY <1>1, <1>2, <1>3 DEF LtInv

(***************************************************************************)
(* The mounts.                                                             *)
(***************************************************************************)
\* A mount: what is at the other paths stays, and the path has been remounted.
LEMMA MountStep == LtInv /\ Mounts /\ UNCHANGED <<writerVars, leakVars>> => LtInv'
<1> SUFFICES ASSUME LtInv, NEW n \in Ns, NEW p \in Path, Remount(n, p),
                    UNCHANGED <<writerVars, leakVars>>
             PROVE  LtInv'
  BY DEF Mounts
<1> USE DEF LtInv
<1>1. /\ UNCHANGED <<writer, unscanned, todo, flag_path, flagged, flag_files>>
      /\ UNCHANGED <<stale, unsearched, lost, found>>
  BY DEF writerVars, leakVars
<1>2. PICK place \in Places[<<n, p>>] :
          /\ at' = [at EXCEPT ![n][p] = place]
          /\ remounts < MaxRemounts /\ remounts' = remounts + 1
          /\ remounted' = remounted \cup {<<n, p>>}
          /\ writable' = writable \cup WritableIn(at'[Own])
  BY DEF Remount
<1>3. at' \in [Ns -> [Path -> Place]] /\ Own \in Ns
  <2>1. <<n, p>> \in MountPoint /\ <<n, p>>[1] = n /\ <<n, p>>[2] = p
    BY DEF MountPoint
  <2>2. PICK table \in Tables : place = table[n][p]
    BY <1>2, <2>1 DEF Places
  <2>3. place \in Place
    BY <2>2, FlagAssumption
  <2>4. QED
    BY <1>2, <2>3, FlagAssumption DEF LtTypeOK, WriterTypeOK
<1>4. \A m \in Ns, q \in Path :
          Steady(m, q)' => Steady(m, q) /\ at'[m][q] = at[m][q]
  BY <1>2 DEF Steady, LtTypeOK, WriterTypeOK
<1>5. LtTypeOK'
  <2>1. writable' \subseteq Dir
    BY <1>2, <1>3 DEF LtTypeOK, WriterTypeOK, WritableIn, Writable
  <2>2. remounts' \in 0 .. MaxRemounts
    BY <1>2, FlagAssumption DEF LtTypeOK, WriterTypeOK
  <2>3. remounted' \subseteq MountPoint
    <3>1. remounted \subseteq MountPoint /\ <<n, p>> \in MountPoint
      BY DEF LtTypeOK, WriterTypeOK, MountPoint
    <3>2. QED
      BY <1>2, <3>1
  <2>4. QED
    BY <1>1, <1>3, <2>1, <2>2, <2>3 DEF LtTypeOK, WriterTypeOK
<1>6. Stages' /\ Recorded'
  <2>1. Stages'
    BY <1>1 DEF Stages
  <2>2. WritableIn(at[Own])' \subseteq writable' /\ flagged' \subseteq writable'
    BY <1>1, <1>2 DEF Recorded, WritableIn
  <2>3. FlagsAccounted'
    <3>1. remounted \subseteq remounted'
      BY <1>2
    <3>2. FlagsAccounted
      BY DEF Recorded
    <3>3. QED
      BY <1>1, <3>1, <3>2 DEF FlagsAccounted
  <2>4. QED
    BY <1>1, <2>1, <2>2, <2>3 DEF Recorded
<1>7. Unflagged'
  <2>1. flag_path[2] \in Path
    BY DEF LtTypeOK, WriterTypeOK, MountPoint
  <2>2. QED
    BY <1>1, <1>3, <1>4, <2>1 DEF Unflagged, Here
<1>8. Reached'
  BY <1>1, <1>3, <1>4 DEF Reached
<1>9. Passed'
  <2>1. HostView \cup RefView \subseteq Ns
    BY LeakAssumption
  <2>2. \A m \in Ns, q \in Path : Steady(m, q)' => (HasFlag(m, q)' <=> HasFlag(m, q))
    BY <1>1, <1>4 DEF HasFlag
  <2>3. \A m \in found : m[1] \in Ns /\ m[2] \in Path
    BY DEF LtTypeOK, MountPoint
  <2>4. QED
    BY <1>1, <1>4, <2>1, <2>2, <2>3 DEF Passed
<1>10. QED
  BY <1>5, <1>6, <1>7, <1>8, <1>9

(***************************************************************************)
(* The writer.                                                             *)
(***************************************************************************)
LEMMA ScanStep ==
    ASSUME LtInv, NEW n \in ContainerNs, ScanNs(n), UNCHANGED <<mountVars, leakVars>>
    PROVE  LtInv'
<1> USE DEF LtInv
<1>1. /\ writer = "scan" /\ unscanned' = unscanned \ {n}
      /\ writer' = IF unscanned' = {} THEN "stat" ELSE "scan"
      /\ todo' = todo \cup Listed(n) \/ (n # Own /\ todo' = todo)
      /\ UNCHANGED <<flag_path, flagged, flag_files>>
      /\ UNCHANGED <<at, remounts, remounted, writable>> /\ UNCHANGED <<stale, unsearched, lost, found>>
  BY DEF ScanNs, mountVars, leakVars
<1>2. Own \in Ns /\ n \in Ns
  BY FlagAssumption
<1>3. LtTypeOK'
  <2>1. Listed(n) \subseteq MountPoint
    BY <1>2 DEF Listed, MountPoint
  <2>2. QED
    BY <1>1, <2>1 DEF LtTypeOK, WriterTypeOK
<1>4. Stages' /\ Recorded' /\ Unflagged'
  BY <1>1 DEF Stages, Recorded, FlagsAccounted, Unflagged, Here, Steady
<1>5. Reached'
  <2> SUFFICES ASSUME Own \notin unscanned', NEW p \in Path, Steady(Own, p), at[Own][p].mounted,
                      Writable(at[Own][p]), at[Own][p].dir \notin Unlisted
               PROVE  <<Own, p>> \in todo' \/ at[Own][p].dir \in flagged
    BY <1>1 DEF Reached, Steady
  <2>1. CASE n = Own
    <3>1. <<Own, p>> \in Listed(n)
      BY <2>1 DEF Listed
    <3>2. QED
      BY <1>1, <2>1, <3>1
  <2>2. CASE n # Own
    BY <1>1, <2>2 DEF Reached
  <2>3. QED
    BY <2>1, <2>2
<1>6. Passed'
  BY <1>1 DEF Passed, HasFlag, Steady
<1>7. QED
  BY <1>3, <1>4, <1>5, <1>6

\* A mount point is looked at: its file is there, or it is to be created.
LEMMA LookStep ==
    ASSUME LtInv, NEW m \in MountPoint, SkipMountPoint(m) \/ StatFlag(m),
           UNCHANGED <<mountVars, leakVars>>
    PROVE  LtInv'
<1> USE DEF LtInv
<1>1. /\ writer = "stat" /\ m \in todo /\ UNCHANGED <<unscanned, flagged, flag_files>>
      /\ \/ FlagThere(m) /\ todo' = todo \ {m} /\ writer' = writer /\ flag_path' = flag_path
         \/ ~FlagThere(m) /\ todo' = todo /\ writer' = "create" /\ flag_path' = m
      /\ UNCHANGED <<at, remounts, remounted, writable>> /\ UNCHANGED <<stale, unsearched, lost, found>>
  BY DEF SkipMountPoint, StatFlag, mountVars, leakVars
<1>2. LtTypeOK'
  BY <1>1 DEF LtTypeOK, WriterTypeOK
<1>3. Stages' /\ Recorded'
  BY <1>1 DEF Stages, Recorded, FlagsAccounted
<1>4. Unflagged'
  BY <1>1 DEF Unflagged, Here, Steady, FlagThere
<1>5. Reached'
  BY <1>1 DEF Reached, Steady, FlagThere, Here
<1>6. Passed'
  BY <1>1 DEF Passed, HasFlag, Steady
<1>7. QED
  BY <1>2, <1>3, <1>4, <1>5, <1>6

LEMMA CreateStep == LtInv /\ CreateFlag /\ UNCHANGED <<mountVars, leakVars>> => LtInv'
<1> SUFFICES ASSUME LtInv, CreateFlag, UNCHANGED <<mountVars, leakVars>> PROVE LtInv'
  OBVIOUS
<1> USE DEF LtInv
<1> DEFINE place == Here(flag_path)
           flag == [mountpoint |-> flag_path, dir |-> place.dir]
<1>1. /\ writer = "create" /\ writer' = "stat" /\ todo' = todo \ {flag_path}
      /\ UNCHANGED <<unscanned, flag_path>>
      /\ IF Writable(place)
         THEN flagged' = flagged \cup {place.dir} /\ flag_files' = flag_files \cup {flag}
         ELSE UNCHANGED <<flagged, flag_files>>
      /\ UNCHANGED <<at, remounts, remounted, writable>> /\ UNCHANGED <<stale, unsearched, lost, found>>
  BY DEF CreateFlag, mountVars, leakVars
<1>2. /\ flag_path \in MountPoint /\ flag_path[2] \in Path /\ Own \in Ns
      /\ place = at[Own][flag_path[2]]
  BY FlagAssumption DEF LtTypeOK, WriterTypeOK, MountPoint, Here
<1>3. Writable(place) => place.dir \in Dir /\ place.dir \in writable
  BY <1>2 DEF Writable, WritableIn, Recorded, LtTypeOK, WriterTypeOK
<1>4. LtTypeOK'
  BY <1>1, <1>2, <1>3 DEF LtTypeOK, WriterTypeOK
<1>5. Stages' /\ Unflagged'
  BY <1>1 DEF Stages, Unflagged
<1>6. FlagsAccounted'
  <2>1. CASE Writable(place)
    <3>1. place.dir \in flagged => <<Own, flag_path[2]>> \in remounted
      BY <1>1 DEF Unflagged, Steady
    <3>2. \A g \in flag_files : g.dir = place.dir => <<Own, flag_path[2]>> \in remounted
      BY <3>1 DEF Recorded
    <3>3. flag.mountpoint = flag_path /\ flag.dir = place.dir
      OBVIOUS
    <3>4. \A d \in flagged' : \E f \in flag_files' : f.dir = d
      BY <1>1, <2>1, <3>3 DEF Recorded, FlagsAccounted
    <3> HIDE DEF flag, place
    <3>5. ASSUME NEW f \in flag_files', NEW g \in flag_files', f # g, f.dir = g.dir
          PROVE  \E m \in {f.mountpoint, g.mountpoint} : <<Own, m[2]>> \in remounted'
      <4>1. CASE f \in flag_files /\ g \in flag_files
        BY <1>1, <3>5, <4>1 DEF Recorded, FlagsAccounted
      <4>2. CASE f = flag
        BY <1>1, <2>1, <3>2, <3>3, <3>5, <4>2
      <4>3. CASE g = flag
        BY <1>1, <2>1, <3>2, <3>3, <3>5, <4>3
      <4>4. QED
        BY <1>1, <2>1, <4>1, <4>2, <4>3
    <3>6. QED
      BY <3>4, <3>5 DEF FlagsAccounted
  <2>2. CASE ~Writable(place)
    BY <1>1, <2>2 DEF Recorded, FlagsAccounted
  <2>3. QED
    BY <2>1, <2>2
<1>7. Recorded'
  BY <1>1, <1>3, <1>6 DEF Recorded
<1>8. Reached'
  BY <1>1, <1>2 DEF Reached, Steady
<1>9. Passed'
  <2>1. unsearched = (HostView \cup RefView) \X Path
    BY <1>1 DEF Stages
  <2>2. QED
    BY <1>1, <2>1 DEF Passed, HasFlag, Steady
<1>10. QED
  BY <1>4, <1>5, <1>7, <1>8, <1>9

LEMMA DoneStep == LtInv /\ AllFlagged /\ UNCHANGED <<mountVars, leakVars>> => LtInv'
<1> SUFFICES ASSUME LtInv, AllFlagged, UNCHANGED <<mountVars, leakVars>> PROVE LtInv'
  OBVIOUS
<1>1. /\ writer = "stat" /\ todo = {} /\ writer' = "done"
      /\ UNCHANGED <<unscanned, todo, flag_path, flagged, flag_files>>
      /\ UNCHANGED <<at, remounts, remounted, writable>> /\ UNCHANGED <<stale, unsearched, lost, found>>
  BY DEF AllFlagged, mountVars, leakVars
<1>2. LtTypeOK'
  BY <1>1 DEF LtInv, LtTypeOK, WriterTypeOK
<1>3. Stages' /\ Recorded' /\ Unflagged'
  BY <1>1 DEF LtInv, Stages, Recorded, FlagsAccounted, Unflagged
<1>4. Reached' /\ Passed'
  BY <1>1 DEF LtInv, Reached, Passed, HasFlag, Steady
<1>5. QED
  BY <1>2, <1>3, <1>4 DEF LtInv

(***************************************************************************)
(* The search.                                                             *)
(***************************************************************************)
LEMMA SearchStep == LtInv /\ Search /\ UNCHANGED <<mountVars, writerVars>> => LtInv'
<1> SUFFICES ASSUME LtInv, NEW n \in HostView \cup RefView,
                    LoseNs(n) \/ (\E p \in Path : SearchPath(n, p)),
                    UNCHANGED <<mountVars, writerVars>>
             PROVE  LtInv'
  BY DEF Search
<1>1. /\ UNCHANGED <<writer, unscanned, todo, flag_path, flagged, flag_files>>
      /\ UNCHANGED <<at, remounts, remounted, writable>> /\ writer = "done"
      /\ stale' = stale /\ n \in Ns
  BY LeakAssumption DEF mountVars, writerVars, LoseNs, SearchPath, InTurn
<1>2. unsearched' \subseteq unsearched
  BY DEF LoseNs, SearchPath
<1>3. Stages' /\ Recorded' /\ Unflagged' /\ Reached'
  BY <1>1 DEF LtInv, Stages, Recorded, FlagsAccounted, Unflagged, Here, Reached, Steady
<1>4. CASE LoseNs(n)
  <2>1. /\ unsearched' = unsearched \ ({n} \X Path) /\ lost' = lost \cup {n} /\ found' = found
    BY <1>4 DEF LoseNs
  <2>2. LtTypeOK'
    BY <1>1, <1>2, <2>1 DEF LtInv, LtTypeOK, WriterTypeOK
  <2>3. Passed'
    BY <1>1, <2>1 DEF LtInv, Passed, HasFlag, Steady
  <2>4. QED
    BY <1>3, <2>2, <2>3 DEF LtInv
<1>5. ASSUME NEW p \in Path, SearchPath(n, p) PROVE LtInv'
  <2>1. /\ unsearched' = unsearched \ {<<n, p>>} /\ lost' = lost
        /\ found' = IF HasFlag(n, p) THEN found \cup {<<n, p>>} ELSE found
    BY <1>5 DEF SearchPath
  <2>2. LtTypeOK'
    BY <1>1, <1>2, <2>1 DEF LtInv, LtTypeOK, WriterTypeOK, MountPoint
  <2>3. Passed'
    BY <1>1, <2>1 DEF LtInv, Passed, HasFlag, Steady
  <2>4. QED
    BY <1>3, <2>2, <2>3 DEF LtInv
<1>6. QED
  BY <1>4, <1>5

LEMMA LtInvNext == LtInv /\ [LtNext]_ltVars => LtInv'
<1> SUFFICES ASSUME LtInv, [LtNext]_ltVars PROVE LtInv'
  OBVIOUS
<1>1. CASE UNCHANGED ltVars
  <2>1. /\ UNCHANGED <<writer, unscanned, todo, flag_path, flagged, flag_files>>
        /\ UNCHANGED <<at, remounts, remounted, writable>> /\ UNCHANGED <<stale, unsearched, lost, found>>
    BY <1>1 DEF ltVars, mountVars, writerVars, leakVars
  <2>2. LtTypeOK' /\ Stages' /\ Recorded'
    BY <2>1 DEF LtInv, LtTypeOK, WriterTypeOK, Stages, Recorded, FlagsAccounted
  <2>3. Unflagged' /\ Reached' /\ Passed'
    BY <2>1 DEF LtInv, Unflagged, Here, Reached, Passed, HasFlag, Steady
  <2>4. QED
    BY <2>2, <2>3 DEF LtInv
<1>2. CASE LtNext
  BY <1>2, MountStep, ScanStep, LookStep, CreateStep, DoneStep, SearchStep DEF LtNext, WriterNext
<1>3. QED
  BY <1>1, <1>2

(***************************************************************************)
(* The theorems.                                                           *)
(***************************************************************************)
\* The invariant holds in every state of the leak test.
THEOREM LeakTestInvariant == LtSpec => []LtInv
BY LtInvInit, LtInvNext, PTL DEF LtSpec

\* The variables of the flag writer and of the search keep their types.
THEOREM LeakTestTyped == LtSpec => []LtTypeOK
<1>1. LtInv => LtTypeOK
  BY DEF LtInv
<1>2. QED
  BY <1>1, LeakTestInvariant, PTL

\* process_mountpoints_container records every flag file it writes, and once,
\* whatever is mounted where.
THEOREM AllFlagsAccounted == LtSpec => []FlagsAccounted
<1>1. LtInv => FlagsAccounted
  BY DEF LtInv, Recorded
<1>2. QED
  BY <1>1, LeakTestInvariant, PTL

LEMMA FoundIsCollected ==
    /\ \A view : \A f \in found : f[1] \in view =>
           [uuid |-> TRUE, in_root |-> f[2] \in RootPaths] \in FlagsIn(view)
    /\ \A view : \A flag \in FlagsIn(view) :
           \E f \in found : f[1] \in view /\ flag = [uuid |-> TRUE, in_root |-> f[2] \in RootPaths]
BY DEF FlagsIn

LEMMA SharedIsReported == LtInv => LeakIsReported
<1> SUFFICES ASSUME LtInv, writer = "done", unsearched = {}, NEW d \in Dir, Exposed(d)
             PROVE  /\ SeenAt(HostView, Path \ RootPaths, d) => HostLeak
                    /\ SeenAt(RefView, Path, d) => RefLeak
  BY DEF LeakIsReported
<1>1. d \in flagged
  BY DEF Exposed, LtInv, Stages, Reached
<1>2. ASSUME NEW n \in (HostView \cup RefView) \ lost, NEW p \in Path, Steady(n, p), at[n][p].dir = d
      PROVE  <<n, p>> \in found
  BY <1>1, <1>2 DEF LtInv, Passed, HasFlag
<1>3. SeenAt(HostView, Path \ RootPaths, d) => HostLeak
  <2> SUFFICES ASSUME NEW n \in HostView \ lost, NEW p \in Path \ RootPaths,
                      Steady(n, p), at[n][p].dir = d
               PROVE  HostLeak
    BY DEF SeenAt
  <2>0. <<n, p>> \in found /\ <<n, p>>[1] = n /\ <<n, p>>[2] = p
    BY <1>2
  <2>1. PICK f \in found : f[1] \in HostView /\ f[2] \notin RootPaths
    BY <2>0
  <2>2. [uuid |-> TRUE, in_root |-> f[2] \in RootPaths] \in FlagsIn(HostView)
    BY <2>1, FoundIsCollected
  <2>3. PICK flag \in FlagsIn(HostView) : flag.uuid /\ ~flag.in_root
    BY <2>1, <2>2
  <2>4. QED
    BY <2>3 DEF HostLeak, FlagMatchesHost, Collected
<1>4. SeenAt(RefView, Path, d) => RefLeak
  <2> SUFFICES ASSUME NEW n \in RefView \ lost, NEW p \in Path, Steady(n, p), at[n][p].dir = d
               PROVE  RefLeak
    BY DEF SeenAt
  <2>0. <<n, p>> \in found /\ <<n, p>>[1] = n /\ <<n, p>>[2] = p
    BY <1>2
  <2>1. PICK f \in found : f[1] \in RefView
    BY <2>0
  <2>2. [uuid |-> TRUE, in_root |-> f[2] \in RootPaths] \in FlagsIn(RefView)
    BY <2>1, FoundIsCollected
  <2>3. QED
    BY <2>2 DEF RefLeak, FlagMatchesRef, Collected
<1>5. QED
  BY <1>3, <1>4

\* Whatever the container shares for writing with a namespace that is searched
\* fails the test for that view, whichever paths lead there.
THEOREM EveryLeakReported == LtSpec => []LeakIsReported
BY SharedIsReported, LeakTestInvariant, PTL

LEMMA ReportedIsShared == LtInv => LeakIsReal
<1> SUFFICES ASSUME LtInv PROVE LeakIsReal
  OBVIOUS
<1>1. ASSUME NEW f \in found
      PROVE  at[f[1]][f[2]].dir \in writable \cup stale \/ ~Steady(f[1], f[2])
  BY DEF LtInv, Passed, HasFlag, Recorded
<1>2. ASSUME HostLeak PROVE \E f \in found : f[1] \in HostView /\ f[2] \notin RootPaths
  <2>1. PICK flag \in FlagsIn(HostView) : ~flag.in_root
    BY <1>2 DEF HostLeak, FlagMatchesHost, Collected
  <2>2. PICK f \in found : f[1] \in HostView /\ flag = [uuid |-> TRUE, in_root |-> f[2] \in RootPaths]
    BY FoundIsCollected
  <2>3. f[2] \notin RootPaths
    BY <2>1, <2>2
  <2>4. QED
    BY <2>2, <2>3
<1>3. ASSUME RefLeak PROVE \E f \in found : f[1] \in RefView
  BY <1>3, FoundIsCollected DEF RefLeak, FlagMatchesRef, Collected
<1>4. QED
  BY <1>1, <1>2, <1>3 DEF LeakIsReal

\* A leak in the report is one, unless a mount or an earlier run came between.
THEOREM NoLeakInvented == LtSpec => []LeakIsReal
BY ReportedIsShared, LeakTestInvariant, PTL
=============================================================================
