--------------------------- MODULE HostSearchProofs ---------------------------
(***************************************************************************)
(* Proofs of the safety properties of MountScan and of HostSearch, the     *)
(* search that begins with the scan, and that every step of HostSearch is  *)
(* a step of the census it implements, for any number of processes and any *)
(* churn.                                                                  *)
(***************************************************************************)
EXTENDS HostSearch, TLAPS

(***************************************************************************)
(* The scan.  First its types.                                             *)
(***************************************************************************)
LEMMA InitTyped == Init => TypeOK
BY ProcAssumption DEF Init, ProcInit, ScanInit, TypeOK, ProcTypeOK, ScanTypeOK, Process

LEMMA EntryTyped ==
    ASSUME NEW p \in Pid, NEW id \in Ns, NEW src \in Ns
    PROVE  NewEntry(p, id, src) \in MountNamespace
BY DEF NewEntry, MountNamespace

\* What a push to ns_pids changes of an entry, and what it leaves.
LEMMA PushedEntry ==
    ASSUME NEW e \in MountNamespace, NEW p \in Pid,
           NEW f, f = [e EXCEPT !.ns_pids = @ \cup {p}]
    PROVE  /\ f \in MountNamespace
           /\ f.by = e.by /\ f.ns_id = e.ns_id /\ f.mountinfo = e.mountinfo
           /\ f.ns_pids = e.ns_pids \cup {p}
BY DEF MountNamespace

LEMMA ChurnTyped == TypeOK /\ Churns => TypeOK'
<1> SUFFICES ASSUME TypeOK, ProcNext, UNCHANGED scanVars PROVE TypeOK'
  BY DEF Churns
<1> USE ProcAssumption DEF TypeOK, ProcTypeOK
<1>1. ScanTypeOK'
  BY DEF ScanTypeOK, scanVars
<1>2. ASSUME NEW p \in Others, NEW q \in Others, Fork(p, q) PROVE ProcTypeOK'
  BY <1>2 DEF Fork, Happens, Process, Others
<1>3. ASSUME NEW p \in Others, Exit(p) PROVE ProcTypeOK'
  BY <1>3 DEF Exit, Happens, Process, Others
<1>4. ASSUME NEW p \in Others, Reap(p) PROVE ProcTypeOK'
  BY <1>4 DEF Reap, Happens, Process, Others
<1>5. ASSUME NEW p \in Others, NEW n \in Ns, Move(p, n) PROVE ProcTypeOK'
  BY <1>5 DEF Move, Happens, Process, Others
<1>6. QED
  BY <1>1, <1>2, <1>3, <1>4, <1>5 DEF ProcNext

LEMMA ScanStepTyped == TypeOK /\ Scan => TypeOK'
<1> SUFFICES ASSUME TypeOK, ScanNext, UNCHANGED procVars PROVE ScanTypeOK'
  BY DEF Scan, TypeOK, ProcTypeOK, procVars
<1> USE DEF TypeOK, ScanTypeOK
<1>1. CASE Readdir
  BY <1>1 DEF Readdir
<1>2. CASE Finish
  BY <1>2 DEF Finish
<1>3. ASSUME NEW p \in Pid, SkipPid(p) PROVE ScanTypeOK'
  BY <1>3 DEF SkipPid, NextPid
<1>4. ASSUME NEW p \in Pid, LookUpNs(p) PROVE ScanTypeOK'
  <2>1. ASSUME NEW e \in WithId(proc[p].mnt), PushPid(e, p), NextPid(p)
        PROVE  mount_namespaces' \subseteq MountNamespace
    BY <2>1, PushedEntry DEF PushPid, WithId
  <2>2. QED
    BY <1>4, <2>1 DEF LookUpNs, NextPid
<1>5. ASSUME NEW p \in Pid, OpenMountinfo(p) PROVE ScanTypeOK'
  BY <1>5 DEF OpenMountinfo, ProcTypeOK, Process
<1>6. ASSUME NEW p \in Pid, AppendEntry(p) PROVE ScanTypeOK'
  BY <1>6, EntryTyped DEF AppendEntry, NextPid, ProcTypeOK, Process
<1>7. ASSUME NEW p \in Pid, DropPid(p) PROVE ScanTypeOK'
  BY <1>7 DEF DropPid, NextPid
<1>8. QED
  BY <1>1, <1>2, <1>3, <1>4, <1>5, <1>6, <1>7 DEF ScanNext

LEMMA NextTyped == TypeOK /\ [Next]_vars => TypeOK'
<1>1. TypeOK /\ UNCHANGED vars => TypeOK'
  BY DEF vars, procVars, scanVars, TypeOK, ProcTypeOK, ScanTypeOK
<1>2. QED
  BY <1>1, ChurnTyped, ScanStepTyped DEF Next

\* The variables of the scan and of the process table keep their types.
THEOREM TypeCorrect == Spec => []TypeOK
BY InitTyped, NextTyped, PTL DEF Spec

(***************************************************************************)
(* The cursor of the loop.  The PIDs in the result lie below those that    *)
(* are left, and a PID that is left was in use when it was listed.         *)
(***************************************************************************)
Cursor ==
    /\ scan = "readdir" => mount_namespaces = {}
    /\ scan # "readdir" => unread = {}
    /\ scan = "done" => pids = {}
    /\ \A e \in mount_namespaces :
           e.by \in e.ns_pids /\ \A q \in e.ns_pids, p \in pids : q < p
    /\ \A p \in pids : proc[p].st = "free" => proc[p].gen > 0

\* What a step of another process leaves alone: a process that has been
\* running in one namespace all along was doing so before.
LEMMA ChurnKeepsSteady ==
    ASSUME TypeOK, Churns
    PROVE  /\ moved \subseteq moved'
           /\ \A p \in Pid : Steady(p)' => Steady(p) /\ proc'[p].mnt = proc[p].mnt
           /\ \A p \in Pid : proc'[p].st = "free" =>
                  proc'[p].gen > 0 \/ (proc[p].st = "free" /\ proc[p].gen = proc'[p].gen)
           /\ \A p \in Pid : HasNs(p)' /\ p \notin moved' =>
                  \/ HasNs(p) /\ proc'[p].mnt = proc[p].mnt
                  \/ proc[p].st = "free" /\ ~(proc[p].gen > 0)
<1> USE ProcAssumption DEF TypeOK, ProcTypeOK, Others, Steady, HasNs, Process
<1> SUFFICES ASSUME ProcNext
             PROVE  /\ moved \subseteq moved'
                    /\ \A p \in Pid : Steady(p)' => Steady(p) /\ proc'[p].mnt = proc[p].mnt
                    /\ \A p \in Pid : proc'[p].st = "free" =>
                           proc'[p].gen > 0 \/ (proc[p].st = "free" /\ proc[p].gen = proc'[p].gen)
                    /\ \A p \in Pid : HasNs(p)' /\ p \notin moved' =>
                           \/ HasNs(p) /\ proc'[p].mnt = proc[p].mnt
                           \/ proc[p].st = "free" /\ ~(proc[p].gen > 0)
  BY DEF Churns
<1>1. CASE \E p, q \in Others : Fork(p, q)
  BY <1>1 DEF Fork
<1>2. CASE \E p \in Others : Exit(p)
  BY <1>2 DEF Exit
<1>3. CASE \E p \in Others : Reap(p)
  BY <1>3 DEF Reap
<1>4. CASE \E p \in Others, n \in Ns : Move(p, n)
  BY <1>4 DEF Move
<1>5. QED
  BY <1>1, <1>2, <1>3, <1>4 DEF ProcNext

LEMMA CursorInit == Init => Cursor
BY DEF Init, ScanInit, Cursor

LEMMA CursorNext == TypeOK /\ Cursor /\ [Next]_vars => Cursor'
<1> SUFFICES ASSUME TypeOK, Cursor, [Next]_vars PROVE Cursor'
  OBVIOUS
<1> USE ProcAssumption DEF Cursor
<1>1. CASE UNCHANGED vars
  BY <1>1 DEF vars, procVars, scanVars
<1>2. CASE Churns
  BY <1>2, ChurnKeepsSteady DEF Churns, scanVars, TypeOK, ScanTypeOK, ProcTypeOK, Process
<1>3. CASE Scan
  <2> SUFFICES ASSUME ScanNext, UNCHANGED procVars PROVE Cursor'
    BY <1>3 DEF Scan
  <2> USE DEF procVars, TypeOK, ScanTypeOK
  <2>1. CASE Readdir
    BY <2>1 DEF Readdir, Listed
  <2>2. CASE Finish
    BY <2>2 DEF Finish
  <2>3. ASSUME NEW p \in Pid, SkipPid(p) PROVE Cursor'
    BY <2>3 DEF SkipPid, NextPid
  <2>4. ASSUME NEW p \in Pid, LookUpNs(p) PROVE Cursor'
    <3>1. ASSUME NEW e \in WithId(proc[p].mnt), PushPid(e, p), NextPid(p)
          PROVE  Cursor'
      <4> DEFINE f == [e EXCEPT !.ns_pids = @ \cup {p}]
      <4>1. e \in mount_namespaces /\ f.by = e.by /\ f.ns_pids = e.ns_pids \cup {p}
        BY PushedEntry DEF WithId
      <4>2. mount_namespaces' = (mount_namespaces \ {e}) \cup {f}
        BY <3>1 DEF PushPid
      <4>3. \A q \in pids' : p < q
        BY <2>4, <3>1 DEF LookUpNs, Least, NextPid
      <4>4. \A q \in e.ns_pids : q < p
        BY <2>4, <4>1 DEF LookUpNs, Least
      <4>5. e \in MountNamespace
        BY <4>1
      <4> HIDE DEF f
      <4>6. \A g \in mount_namespaces' :
               g.by \in g.ns_pids /\ \A q \in g.ns_pids, r \in pids' : q < r
        BY <3>1, <4>1, <4>2, <4>3, <4>4, <4>5 DEF NextPid, MountNamespace
      <4>7. QED
        BY <2>4, <3>1, <4>6 DEF LookUpNs, NextPid
    <3>2. QED
      BY <2>4, <3>1 DEF LookUpNs
  <2>5. ASSUME NEW p \in Pid, OpenMountinfo(p) PROVE Cursor'
    BY <2>5 DEF OpenMountinfo
  <2>6. ASSUME NEW p \in Pid, AppendEntry(p) PROVE Cursor'
    BY <2>6 DEF AppendEntry, NextPid, NewEntry, Least, MountNamespace
  <2>7. ASSUME NEW p \in Pid, DropPid(p) PROVE Cursor'
    BY <2>7 DEF DropPid, NextPid
  <2>8. QED
    BY <2>1, <2>2, <2>3, <2>4, <2>5, <2>6, <2>7 DEF ScanNext
<1>4. QED
  BY <1>1, <1>2, <1>3 DEF Next

(***************************************************************************)
(* The inductive invariant: the properties, and what is known of the PID   *)
(* in hand between the look-up of its namespace and the new entry.         *)
(***************************************************************************)
InHand ==
    \A p \in pids : Least(pids, p) /\ HasNs(p) /\ p \notin moved =>
        /\ scan \in {"mountinfo", "info_ns_id"} =>
               \A e \in mount_namespaces : e.ns_id # proc[p].mnt
        /\ scan = "info_ns_id" => mountinfo_of = proc[p].mnt

\* A process that was there all along is still to come, or in the result.
Accounted ==
    \A p \in Pid : Steady(p) =>
        IF scan = "readdir" THEN p \in unread \cup pids
        ELSE Selected(p) => p \in pids \/ \E e \in mount_namespaces : p \in e.ns_pids

\* Only a PID that is selected gets as far as its mountinfo.
Chosen ==
    scan \in {"mountinfo", "info_ns_id"} => \A p \in pids : Least(pids, p) => Selected(p)

\* The PIDs in the result were admitted and in use, and their processes are in
\* the namespace they are listed under until they move.
InPlace ==
    \A e \in mount_namespaces : \A p \in e.ns_pids :
        /\ Selected(p)
        /\ proc[p].st = "free" => proc[p].gen > 0
        /\ HasNs(p) /\ p \notin moved => proc[p].mnt = e.ns_id

ScanInv ==
    /\ TypeOK
    /\ Cursor
    /\ OnePlace
    /\ DuplicateOnlyByMove
    /\ EntryIsOneNamespace
    /\ Chosen
    /\ InPlace
    /\ InHand
    /\ Accounted

LEMMA ScanInvInit == Init => ScanInv
<1> SUFFICES ASSUME Init PROVE ScanInv
  OBVIOUS
<1>1. TypeOK /\ Cursor
  BY InitTyped, CursorInit
<1>2. /\ OnePlace /\ DuplicateOnlyByMove /\ EntryIsOneNamespace /\ Chosen
      /\ InPlace /\ InHand /\ Accounted
  BY DEF Init, ScanInit, OnePlace, DuplicateOnlyByMove, EntryIsOneNamespace, Chosen, InPlace,
         InHand, Accounted
<1>3. QED
  BY <1>1, <1>2 DEF ScanInv

LEMMA ChurnKeepsScanInv ==
    ASSUME ScanInv, Churns
    PROVE  OnePlace' /\ DuplicateOnlyByMove' /\ EntryIsOneNamespace' /\ InHand' /\ Accounted'
<1> USE DEF ScanInv, TypeOK, ScanTypeOK
<1>1. UNCHANGED scanVars
  BY DEF Churns
<1>2. OnePlace'
  BY <1>1 DEF OnePlace, scanVars
<1>3. DuplicateOnlyByMove'
  BY <1>1, ChurnKeepsSteady DEF DuplicateOnlyByMove, scanVars
<1>4. EntryIsOneNamespace'
  BY <1>1, ChurnKeepsSteady DEF EntryIsOneNamespace, scanVars, MountNamespace
<1>5. InHand'
  BY <1>1, ChurnKeepsSteady DEF InHand, Cursor, scanVars, Least
<1>6. Accounted'
  BY <1>1, ChurnKeepsSteady DEF Accounted, scanVars, Selected
<1>7. QED
  BY <1>2, <1>3, <1>4, <1>5, <1>6

\* A push of the PID in hand to the entry that has its namespace.
LEMMA PushKeepsScanInv ==
    ASSUME ScanInv, UNCHANGED procVars, NEW p \in Pid, scan = "ns_id", Least(pids, p), HasNs(p),
           NEW e \in WithId(proc[p].mnt), PushPid(e, p), NextPid(p),
           UNCHANGED <<pid_cfg, unread, mountinfo_of>>
    PROVE  OnePlace' /\ DuplicateOnlyByMove' /\ EntryIsOneNamespace' /\ InHand' /\ Accounted'
<1> DEFINE f == [e EXCEPT !.ns_pids = @ \cup {p}]
<1>1. e \in mount_namespaces /\ e \in MountNamespace /\ e.ns_id = proc[p].mnt
  BY DEF WithId, ScanInv, TypeOK, ScanTypeOK
<1>2. /\ f \in MountNamespace
      /\ f.by = e.by /\ f.ns_id = e.ns_id /\ f.mountinfo = e.mountinfo
      /\ f.ns_pids = e.ns_pids \cup {p}
  BY <1>1, PushedEntry
<1>3. mount_namespaces' = (mount_namespaces \ {e}) \cup {f}
  BY DEF PushPid
<1>4. \A g \in mount_namespaces : p \notin g.ns_pids
  BY ProcAssumption DEF ScanInv, Cursor, Least
<1> HIDE DEF f
<1> USE DEF ScanInv
<1>5. OnePlace'
  BY <1>1, <1>2, <1>3, <1>4 DEF OnePlace
<1>6. DuplicateOnlyByMove'
  BY <1>1, <1>2, <1>3 DEF DuplicateOnlyByMove, NextPid, procVars
<1>7. EntryIsOneNamespace'
  BY <1>1, <1>2, <1>3 DEF EntryIsOneNamespace, procVars, Steady, HasNs
<1>8. InHand'
  BY DEF InHand, NextPid
<1>9. Accounted'
  <2> SUFFICES ASSUME NEW q \in Pid, Steady(q), Selected(q), q \notin pids'
               PROVE  \E g \in mount_namespaces' : q \in g.ns_pids
    BY DEF Accounted, NextPid, procVars, Steady, HasNs, Selected
  <2>1. CASE q = p
    BY <2>1, <1>2, <1>3
  <2>2. CASE q # p
    <3>1. PICK g \in mount_namespaces : q \in g.ns_pids
      BY <2>2 DEF Accounted, NextPid
    <3>2. QED
      BY <3>1, <1>2, <1>3
  <2>3. QED
    BY <2>1, <2>2
<1>10. QED
  BY <1>5, <1>6, <1>7, <1>8, <1>9

\* A new entry for the PID in hand.
LEMMA AppendKeepsScanInv ==
    ASSUME ScanInv, UNCHANGED procVars, NEW p \in Pid, AppendEntry(p)
    PROVE  OnePlace' /\ DuplicateOnlyByMove' /\ EntryIsOneNamespace' /\ InHand' /\ Accounted'
<1> DEFINE f == NewEntry(p, proc[p].mnt, mountinfo_of)
<1>1. f.by = p /\ f.ns_id = proc[p].mnt /\ f.mountinfo = mountinfo_of /\ f.ns_pids = {p}
  BY DEF NewEntry
<1>2. mount_namespaces' = mount_namespaces \cup {f}
  BY DEF AppendEntry
<1>3. p \in pids /\ Least(pids, p) /\ HasNs(p) /\ scan = "info_ns_id"
  BY DEF AppendEntry, Least
<1>4. \A g \in mount_namespaces : p \notin g.ns_pids /\ g.by < p /\ ~(p < g.by)
  <2>1. \A g \in mount_namespaces : g.by \in Nat /\ p \in Nat
    BY ProcAssumption DEF ScanInv, TypeOK, ScanTypeOK, MountNamespace
  <2>2. QED
    BY <1>3, <2>1 DEF ScanInv, Cursor
<1>5. p \notin moved =>
          mountinfo_of = proc[p].mnt /\ \A g \in mount_namespaces : g.ns_id # proc[p].mnt
  BY <1>3 DEF ScanInv, InHand
<1> HIDE DEF f
<1> USE DEF ScanInv
<1>6. OnePlace'
  BY <1>1, <1>2, <1>4 DEF OnePlace
<1>7. DuplicateOnlyByMove'
  <2>1. moved' = moved /\ scan' # "panic"
    BY DEF AppendEntry, NextPid, procVars
  <2>2. ~(p < p)
    BY <1>1, ProcAssumption
  <2>3. QED
    BY <1>1, <1>2, <1>4, <1>5, <2>1, <2>2 DEF DuplicateOnlyByMove
<1>8. EntryIsOneNamespace'
  BY <1>1, <1>2, <1>3, <1>5 DEF EntryIsOneNamespace, procVars, Steady, HasNs
<1>9. InHand'
  BY DEF InHand, AppendEntry, NextPid
<1>10. Accounted'
  BY <1>1, <1>2, <1>3 DEF Accounted, AppendEntry, NextPid, procVars, Steady, HasNs, Selected
<1>11. QED
  BY <1>6, <1>7, <1>8, <1>9, <1>10

\* Entries that share an ns_id have different creators, so one is the later.
LEMMA PanicNeedsMove ==
    ASSUME ScanInv, NEW n \in Ns, NEW e \in WithId(n), NEW f \in WithId(n), e # f
    PROVE  moved # {}
<1>1. /\ e \in mount_namespaces /\ f \in mount_namespaces /\ e.ns_id = f.ns_id
      /\ e.by \in Nat /\ f.by \in Nat
  BY ProcAssumption DEF WithId, ScanInv, TypeOK, ScanTypeOK, MountNamespace
<1>2. e.by # f.by
  BY <1>1 DEF ScanInv, Cursor, OnePlace
<1>3. e.by < f.by \/ f.by < e.by
  BY <1>1, <1>2
<1>4. QED
  BY <1>1, <1>3 DEF ScanInv, DuplicateOnlyByMove

LEMMA ScanKeepsScanInv ==
    ASSUME ScanInv, Scan
    PROVE  OnePlace' /\ DuplicateOnlyByMove' /\ EntryIsOneNamespace' /\ InHand' /\ Accounted'
<1> DEFINE Goal ==
        OnePlace' /\ DuplicateOnlyByMove' /\ EntryIsOneNamespace' /\ InHand' /\ Accounted'
<1> SUFFICES ASSUME ScanNext, UNCHANGED procVars PROVE Goal
  BY DEF Scan
\* The steps that leave the result alone keep what is said of it.
<1>1. ASSUME UNCHANGED mount_namespaces, scan' # "panic"
      PROVE  OnePlace' /\ DuplicateOnlyByMove' /\ EntryIsOneNamespace'
  BY <1>1 DEF ScanInv, OnePlace, DuplicateOnlyByMove, EntryIsOneNamespace,
              procVars, Steady, HasNs
<1> USE DEF ScanInv
<1>2. CASE Readdir
  <2>1. InHand'
    BY <1>2 DEF Readdir, InHand
  <2>2. Accounted'
    BY <1>2, ProcAssumption DEF Readdir, Accounted, procVars, Steady, HasNs, Listed, Selected
  <2>3. QED
    BY <1>1, <1>2, <2>1, <2>2 DEF Readdir
<1>3. CASE Finish
  <2>1. InHand' /\ Accounted'
    BY <1>3 DEF Finish, InHand, Accounted, procVars, Steady, HasNs, Selected
  <2>2. QED
    BY <1>1, <1>3, <2>1 DEF Finish
<1>4. ASSUME NEW p \in Pid, SkipPid(p) PROVE Goal
  <2>1. InHand' /\ Accounted'
    BY <1>4 DEF SkipPid, NextPid, InHand, Accounted, procVars, Steady, HasNs, Selected
  <2>2. QED
    BY <1>1, <1>4, <2>1 DEF SkipPid, NextPid
<1>5. ASSUME NEW p \in Pid, LookUpNs(p) PROVE Goal
  <2>1. CASE \E e, f \in WithId(proc[p].mnt) : e # f /\ scan' = "panic" /\ UNCHANGED <<pids, mount_namespaces>>
    <3>1. proc[p].mnt \in Ns
      BY DEF TypeOK, ProcTypeOK, Process
    <3>2. moved' # {}
      BY <2>1, <3>1, PanicNeedsMove DEF procVars
    <3>3. OnePlace' /\ DuplicateOnlyByMove' /\ EntryIsOneNamespace'
      BY <2>1, <3>2 DEF OnePlace, DuplicateOnlyByMove, EntryIsOneNamespace, procVars, Steady, HasNs
    <3>4. InHand' /\ Accounted'
      BY <1>5, <2>1 DEF LookUpNs, InHand, Accounted, procVars, Steady, HasNs, Selected
    <3>5. QED
      BY <3>3, <3>4
  <2>2. CASE \E e \in WithId(proc[p].mnt) : PushPid(e, p) /\ NextPid(p)
    BY <1>5, <2>2, PushKeepsScanInv DEF LookUpNs
  <2>3. CASE /\ WithId(proc[p].mnt) = {}
             /\ scan' = "mountinfo"
             /\ UNCHANGED <<pids, mount_namespaces>>
    <3>1. Accounted'
      BY <1>5, <2>3 DEF LookUpNs, Accounted, procVars, Steady, HasNs, Selected
    <3>2. \A q \in pids : Least(pids, q) => q = p
      BY <1>5, ProcAssumption DEF LookUpNs, Least, TypeOK, ScanTypeOK
    <3>3. InHand'
      BY <2>3, <3>2 DEF InHand, WithId, procVars, Least
    <3>4. QED
      BY <1>1, <2>3, <3>1, <3>3
  <2>4. QED
    BY <1>5, <2>1, <2>2, <2>3 DEF LookUpNs
<1>6. ASSUME NEW p \in Pid, OpenMountinfo(p) PROVE Goal
  <2>1. \A q \in pids : Least(pids, q) => q = p
    BY <1>6, ProcAssumption DEF OpenMountinfo, Least, TypeOK, ScanTypeOK
  <2>2. InHand'
    BY <1>6, <2>1 DEF OpenMountinfo, InHand, procVars, Least, HasNs
  <2>3. Accounted'
    BY <1>6 DEF OpenMountinfo, Accounted, procVars, Steady, HasNs, Selected
  <2>4. QED
    BY <1>1, <1>6, <2>2, <2>3 DEF OpenMountinfo
<1>7. ASSUME NEW p \in Pid, AppendEntry(p) PROVE Goal
  BY <1>7, AppendKeepsScanInv
<1>8. ASSUME NEW p \in Pid, DropPid(p) PROVE Goal
  <2>1. InHand' /\ Accounted'
    BY <1>8 DEF DropPid, NextPid, InHand, Accounted, procVars, Steady, HasNs, Selected
  <2>2. QED
    BY <1>1, <1>8, <2>1 DEF DropPid, NextPid
<1>9. QED
  BY <1>2, <1>3, <1>4, <1>5, <1>6, <1>7, <1>8 DEF ScanNext

LEMMA ChosenNext == ScanInv /\ [Next]_vars => Chosen'
<1> SUFFICES ASSUME ScanInv, [Next]_vars PROVE Chosen'
  OBVIOUS
<1> USE DEF ScanInv, Chosen
<1>1. CASE UNCHANGED vars \/ Churns
  BY <1>1 DEF vars, Churns, scanVars, Selected, Least
<1>2. CASE ScanNext
  <2>1. ASSUME NEW p \in Pid, LookUpNs(p) \/ OpenMountinfo(p),
               scan' \in {"mountinfo", "info_ns_id"}
        PROVE  Chosen'
    <3>1. p \in pids /\ Least(pids, p) /\ Selected(p) /\ UNCHANGED <<pids, pid_cfg>>
      BY <2>1 DEF LookUpNs, OpenMountinfo, NextPid, Least
    <3>2. \A q \in pids : Least(pids, q) => q = p
      BY <3>1, ProcAssumption DEF Least, TypeOK, ScanTypeOK
    <3>3. QED
      BY <3>1, <3>2 DEF Selected, Least
  <2>2. QED
    BY <1>2, <2>1
       DEF ScanNext, Readdir, Finish, SkipPid, AppendEntry, DropPid, NextPid
<1>3. QED
  BY <1>1, <1>2 DEF Next, Scan

LEMMA InPlaceNext == ScanInv /\ [Next]_vars => InPlace'
<1> SUFFICES ASSUME ScanInv, [Next]_vars PROVE InPlace'
  OBVIOUS
<1> USE DEF ScanInv, TypeOK, ScanTypeOK, InPlace
<1>1. CASE UNCHANGED vars
  BY <1>1 DEF vars, procVars, scanVars, Selected, HasNs
<1>2. CASE Churns
  <2>1. UNCHANGED scanVars
    BY <1>2 DEF Churns
  <2>2. QED
    BY <1>2, <2>1, ChurnKeepsSteady DEF scanVars, Selected, MountNamespace
<1>3. CASE Scan
  <2> SUFFICES ASSUME ScanNext, UNCHANGED procVars PROVE InPlace'
    BY <1>3 DEF Scan
  <2> USE DEF procVars, HasNs, Selected
  <2>1. CASE UNCHANGED <<mount_namespaces, pid_cfg>>
    BY <2>1
  <2>2. ASSUME NEW p \in Pid, LookUpNs(p), NEW e \in WithId(proc[p].mnt), PushPid(e, p)
        PROVE  InPlace'
    <3> DEFINE f == [e EXCEPT !.ns_pids = @ \cup {p}]
    <3>1. e \in mount_namespaces /\ e.ns_id = proc[p].mnt
      BY DEF WithId
    <3>2. f.ns_id = e.ns_id /\ f.ns_pids = e.ns_pids \cup {p}
      BY <3>1, PushedEntry
    <3>3. mount_namespaces' = (mount_namespaces \ {e}) \cup {f} /\ pid_cfg' = pid_cfg
      BY <2>2 DEF PushPid, LookUpNs
    <3> HIDE DEF f
    <3>4. Selected(p) /\ HasNs(p)
      BY <2>2 DEF LookUpNs
    <3>5. QED
      BY <3>1, <3>2, <3>3, <3>4
  <2>3. ASSUME NEW p \in Pid, AppendEntry(p) PROVE InPlace'
    <3>1. /\ mount_namespaces' = mount_namespaces \cup {NewEntry(p, proc[p].mnt, mountinfo_of)}
          /\ pid_cfg' = pid_cfg /\ HasNs(p)
      BY <2>3 DEF AppendEntry
    <3>2. Selected(p)
      BY <2>3 DEF AppendEntry, Chosen, Least
    <3>3. QED
      BY <3>1, <3>2 DEF NewEntry
  <2>4. QED
    BY <2>1, <2>2, <2>3
       DEF ScanNext, Readdir, Finish, SkipPid, LookUpNs, OpenMountinfo, DropPid
<1>4. QED
  BY <1>1, <1>2, <1>3 DEF Next

LEMMA ScanInvNext == ScanInv /\ [Next]_vars => ScanInv'
<1> SUFFICES ASSUME ScanInv, [Next]_vars PROVE ScanInv'
  OBVIOUS
<1>1. TypeOK' /\ Cursor'
  BY NextTyped, CursorNext DEF ScanInv
<1>2. OnePlace' /\ DuplicateOnlyByMove' /\ EntryIsOneNamespace' /\ InHand' /\ Accounted'
  <2>1. CASE UNCHANGED vars
    BY <2>1 DEF vars, procVars, scanVars, ScanInv, OnePlace, DuplicateOnlyByMove,
                EntryIsOneNamespace, InHand, Accounted, Steady, HasNs, Selected, Least
  <2>2. QED
    BY <2>1, ChurnKeepsScanInv, ScanKeepsScanInv DEF Next
<1>3. Chosen' /\ InPlace'
  BY ChosenNext, InPlaceNext
<1>4. QED
  BY <1>1, <1>2, <1>3 DEF ScanInv

THEOREM ScanInvariant == Spec => []ScanInv
BY ScanInvInit, ScanInvNext, PTL DEF Spec

(***************************************************************************)
(* The properties of the scan.                                             *)
(***************************************************************************)
\* get_mountinfos lists no process under two namespaces.
THEOREM ProcessInOneEntry == Spec => []OnePlace
<1>1. ScanInv => OnePlace
  BY DEF ScanInv
<1>2. QED
  BY <1>1, ScanInvariant, PTL

\* Two entries with one ns_id, and so the panic that follows when it is looked
\* up, are the doing of a process that moved between the two reads of its id.
THEOREM DuplicatesNeedMoves == Spec => []DuplicateOnlyByMove
<1>1. ScanInv => DuplicateOnlyByMove
  BY DEF ScanInv
<1>2. QED
  BY <1>1, ScanInvariant, PTL

\* The mountinfo and the PIDs of an entry are of the namespace it is keyed by.
THEOREM EntriesAreConsistent == Spec => []EntryIsOneNamespace
<1>1. ScanInv => EntryIsOneNamespace
  BY DEF ScanInv
<1>2. QED
  BY <1>1, ScanInvariant, PTL

\* The result covers every process that ran in one namespace during the scan.
THEOREM ScanIsComplete == Spec => []Complete
<1>1. ScanInv => Complete
  <2> SUFFICES ASSUME ScanInv, scan = "done", NEW p \in Pid, Steady(p), Selected(p)
               PROVE  \E e \in mount_namespaces : p \in e.ns_pids /\ e.ns_id = proc[p].mnt
    BY DEF Complete
  <2>1. \E e \in mount_namespaces : p \in e.ns_pids
    BY DEF ScanInv, Accounted, Cursor
  <2>2. QED
    BY <2>1 DEF ScanInv, EntryIsOneNamespace
<1>2. QED
  BY <1>1, ScanInvariant, PTL

(***************************************************************************)
(* Without setns() and unshare() in other processes, and without the reuse *)
(* of a PID, the assertion of the scan cannot fail.                        *)
(***************************************************************************)
\* panic!("Error: mountns_handle.len() > 1") is unreachable on a system whose
\* processes keep their mount namespaces while the scan runs.
THEOREM NoPanicWithoutMoves ==
    ASSUME "move" \notin Churn, "reuse" \notin Churn
    PROVE  Spec => []UniqueIds
<1>1. Init => moved = {}
  BY DEF Init, ProcInit
<1>2. ASSUME TypeOK, moved = {}, [Next]_vars PROVE moved' = {}
  <2> USE <1>2
  <2>1. CASE UNCHANGED vars \/ Scan
    BY <2>1 DEF vars, procVars, Scan
  <2>2. ASSUME NEW p \in Others, NEW q \in Others, Fork(p, q) PROVE moved' = {}
    BY <2>2 DEF Fork
  <2>3. ASSUME NEW p \in Others, Exit(p) \/ Reap(p) PROVE moved' = {}
    BY <2>3 DEF Exit, Reap
  <2>4. ASSUME NEW p \in Others, NEW n \in Ns, Move(p, n) PROVE FALSE
    BY <2>4 DEF Move, Happens
  <2>5. QED
    BY <2>1, <2>2, <2>3, <2>4 DEF Next, Churns, ProcNext
<1>3. ScanInv /\ moved = {} => UniqueIds
  BY DEF ScanInv, DuplicateOnlyByMove, UniqueIds
<1>4. QED
  <2>1. Spec => [](moved = {})
    <3>1. TypeOK /\ moved = {} /\ [Next]_vars => (moved = {})'
      BY <1>2
    <3>2. QED
      BY <1>1, <3>1, TypeCorrect, PTL DEF Spec
  <2>2. QED
    BY <1>3, <2>1, ScanInvariant, PTL

(***************************************************************************)
(* The search.  Where checkc is, and where the processes are.              *)
(***************************************************************************)
Scanning == fs \in {"open", "scan"}
Trying == fs \in {"rejoin", "open_cmdline", "read_cmdline", "join"}

\* Where a process is when checkc itself is at home.
HomeOf(p) == IF p = Self THEN HostNs ELSE proc[p].mnt

(***************************************************************************)
(* The inductive invariant of the search.                                  *)
(***************************************************************************)
\* checkc: what its descriptor holds, and when it may be away from home.
AtHome ==
    /\ proc[Self].st = "run" /\ Self \notin moved
    /\ Scanning => Current = HostNs /\ cwd = "original" /\ refused = {}
    /\ checkc_fd = IF fs \in {"open", "returned"} THEN {} ELSE {HostNs}
    /\ fs \in {"open_cmdline", "read_cmdline", "join"} /\ "rejoin" \notin refused =>
           Current = HostNs
    /\ Current # HostNs => \E e \in mount_namespaces : e.searched # {}
    /\ fs = "returned" /\ "restore" \notin refused => Current = HostNs /\ cwd = "original"

\* What lets the read of a cmdline file fail: that a PID was freed, or that a
\* process on the list, or any other when checkc is not at home, has no text.
MayFailOn(p) ==
    \/ proc[p].gen > 0
    \/ MayBeNoText(p) /\ (Selected(p) \/ "rejoin" \in refused)

Outcome ==
    /\ ~Scanning => scan = "done"
    /\ result # "none" <=> fs \in {"restore", "returned"}
    /\ result = "ok" => todo = {}
    /\ result = "err" => \E p \in Pid : MayFailOn(p)

\* What the scan has established, and what remains true of it.
Entries ==
    /\ Scanning => ScanInv /\ \A e \in mount_namespaces : e.searched = {}
    /\ OnePlace
    /\ \A e \in mount_namespaces : e.by \in e.ns_pids
    /\ \A e \in mount_namespaces : \A p \in e.ns_pids :
           /\ Selected(p)
           /\ proc[p].st = "free" => proc[p].gen > 0
           /\ HasNs(p) /\ p \notin moved => HomeOf(p) = e.ns_id
    /\ ~Scanning =>
           \A p \in Pid : Steady(p) /\ Selected(p) => \E e \in mount_namespaces : p \in e.ns_pids

\* The entries are processed in order, and given up only when no process of
\* theirs works.
Processed ==
    ~Scanning =>
        /\ \A e \in mount_namespaces : e.by \in todo => e.searched = {}
        /\ \A e \in mount_namespaces, t \in todo : e.by \notin todo => e.by < t
        /\ refused \subseteq {"restore"} =>
               \A e \in mount_namespaces : \A p \in e.ns_pids \ Kthread :
                   e.by \notin todo /\ Steady(p) => e.searched # {}

Tried ==
    Trying =>
        /\ \A p \in untried : Selected(p)
        /\ \A e \in mount_namespaces : IsEntry(e) =>
            /\ untried \subseteq e.ns_pids
            /\ refused \subseteq {"restore"} =>
                   \A p \in e.ns_pids \ Kthread : p \notin untried => ~Steady(p)

\* The open cmdline file, and the process that had the PID then.
Opened ==
    fs = "read_cmdline" =>
        /\ cmdline.gen <= proc[cmdline.pid].gen
        /\ proc[cmdline.pid].st = "free" => cmdline.gen < proc[cmdline.pid].gen
        /\ "rejoin" \notin refused => Least(untried, cmdline.pid)

HostInv ==
    /\ HostTypeOK
    /\ AtHome
    /\ Outcome
    /\ Entries
    /\ Processed
    /\ Tried
    /\ Opened
    /\ SearchesItsNamespace

LEMMA HostInvInit == HostInit => HostInv
<1> SUFFICES ASSUME HostInit PROVE HostInv
  OBVIOUS
<1>1. ScanInv /\ mount_namespaces = {} /\ scan = "readdir"
  BY ScanInvInit DEF HostInit, Init, ScanInit
<1>2. proc[Self].st = "run" /\ proc[Self].mnt = HostNs /\ moved = {}
  BY ProcAssumption DEF HostInit, Init, ProcInit
<1>3. HostTypeOK
  BY <1>1, ProcAssumption DEF HostInit, SearchInit, HostTypeOK, SearchTypeOK, ScanInv
<1>4. AtHome /\ Outcome
  BY <1>2 DEF HostInit, SearchInit, AtHome, Outcome, Scanning, Current
<1>5. Entries /\ Processed /\ Tried /\ Opened /\ SearchesItsNamespace
  BY <1>1 DEF HostInit, SearchInit, Entries, Processed, Tried, Opened, SearchesItsNamespace,
              Scanning, Trying, OnePlace
<1>6. QED
  BY <1>3, <1>4, <1>5 DEF HostInv

(***************************************************************************)
(* The types of the search.                                                *)
(***************************************************************************)
\* What the search changes of an entry, and what it leaves.
LEMMA SearchedEntry ==
    ASSUME NEW e \in MountNamespace, NEW n \in Ns,
           NEW f, f = [e EXCEPT !.searched = @ \cup {n}]
    PROVE  /\ f \in MountNamespace
           /\ f.by = e.by /\ f.ns_id = e.ns_id /\ f.ns_pids = e.ns_pids
           /\ f.searched = e.searched \cup {n}
BY DEF MountNamespace

\* setns() changes nothing of the process table but checkc's own namespace.
LEMMA EnterNsFacts ==
    ASSUME ProcTypeOK, NEW n \in Ns, proc' = [proc EXCEPT ![Self].mnt = n]
    PROVE  /\ proc' \in [Pid -> Process]
           /\ Current' = n
           /\ \A p \in Pid : proc'[p].st = proc[p].st /\ proc'[p].gen = proc[p].gen
           /\ \A p \in Pid \ {Self} : proc'[p] = proc[p]
BY ProcAssumption DEF ProcTypeOK, Process, Current

LEMMA SearchStepTyped == HostTypeOK /\ SearchNext => HostTypeOK'
<1> SUFFICES ASSUME HostTypeOK, SearchNext PROVE HostTypeOK'
  OBVIOUS
<1> USE DEF HostTypeOK, SearchTypeOK
<1>1. CASE ScanStep
  BY <1>1, ScanStepTyped DEF ScanStep, Scan, searchVars
<1>2. ASSUME UNCHANGED <<procVars, scanVars>> PROVE TypeOK'
  BY <1>2 DEF procVars, scanVars, TypeOK, ProcTypeOK, ScanTypeOK
<1>3. CASE OpenOwnNs \/ BeginSearch \/ NextEntry \/ GiveUpEntry \/ FailOnCmdline \/ EndSearch
  <2>1. Current \in Ns
    BY ProcAssumption DEF Current, TypeOK, ProcTypeOK, Process
  <2>2. SearchTypeOK'
    BY <1>3, <2>1
       DEF OpenOwnNs, BeginSearch, NextEntry, GiveUpEntry, FailOnCmdline, EndSearch,
           TypeOK, ScanTypeOK, MountNamespace
  <2>3. QED
    BY <1>2, <1>3, <2>2
       DEF OpenOwnNs, BeginSearch, NextEntry, GiveUpEntry, FailOnCmdline, EndSearch
<1>4. CASE Rejoin \/ Restore
  <2>1. proc' \in [Pid -> Process]
    BY <1>4, EnterNsFacts DEF Rejoin, Restore, EnterNs, TypeOK, ProcTypeOK
  <2>2. TypeOK'
    BY <1>4, <2>1
       DEF Rejoin, Restore, KernelHistory, scanVars, TypeOK, ProcTypeOK, ScanTypeOK
  <2>3. SearchTypeOK'
    BY <1>4 DEF Rejoin, Restore, EnterNs, SetnsRefused, SetnsCalls
  <2>4. QED
    BY <2>2, <2>3
<1>5. ASSUME NEW p \in Pid, OpenCmdline(p) \/ ReadCmdline(p) \/ JoinFails(p)
      PROVE  HostTypeOK'
  <2>1. SearchTypeOK'
    <3>1. \A q \in Resolves(p) : q \in Pid /\ proc[q].gen \in Nat
      BY DEF Resolves, TypeOK, ProcTypeOK, Process
    <3>2. CASE OpenCmdline(p)
      BY <3>1, <3>2 DEF OpenCmdline, SkipTry
    <3>3. CASE ReadCmdline(p) \/ JoinFails(p)
      BY <3>3 DEF ReadCmdline, JoinFails, SkipTry, SetnsRefused, SetnsCalls
    <3>4. QED
      BY <1>5, <3>2, <3>3
  <2>2. QED
    BY <1>2, <1>5, <2>1 DEF OpenCmdline, ReadCmdline, JoinFails
<1>6. ASSUME NEW p \in Pid, JoinAndSearch(p) PROVE HostTypeOK'
  <2>1. PICK q \in Resolves(p), e \in mount_namespaces :
            /\ EnterNs(proc[q].mnt)
            /\ mount_namespaces' = (mount_namespaces \ {e})
                    \cup {[e EXCEPT !.searched = @ \cup {proc[q].mnt}]}
            /\ todo' = todo \ {e.by}
    BY <1>6 DEF JoinAndSearch
  <2>2. proc[q].mnt \in Ns /\ e \in MountNamespace
    BY DEF Resolves, TypeOK, ProcTypeOK, ScanTypeOK, Process
  <2>3. mount_namespaces' \subseteq MountNamespace
    BY <2>1, <2>2, SearchedEntry DEF TypeOK, ScanTypeOK
  <2>4. proc' \in [Pid -> Process]
    BY <2>1, <2>2, EnterNsFacts DEF EnterNs, TypeOK
  <2>5. QED
    BY <1>6, <2>1, <2>3, <2>4
       DEF JoinAndSearch, KernelHistory, EnterNs, TypeOK, ProcTypeOK, ScanTypeOK
<1>7. QED
  BY <1>1, <1>3, <1>4, <1>5, <1>6 DEF SearchNext

(***************************************************************************)
(* The steps of the other processes.                                       *)
(***************************************************************************)
LEMMA OthersStep ==
    ASSUME HostInv, ProcNext, UNCHANGED <<scanVars, searchVars>>
    PROVE  HostInv'
<1> USE DEF HostInv
<1>1. TypeOK /\ Churns
  BY DEF HostTypeOK, Churns
<1>2. HostTypeOK'
  BY <1>1, ChurnTyped DEF HostTypeOK, SearchTypeOK, searchVars
<1>3. /\ moved \subseteq moved'
      /\ \A p \in Pid : Steady(p)' => Steady(p) /\ proc'[p].mnt = proc[p].mnt
      /\ \A p \in Pid : proc'[p].st = "free" =>
             proc'[p].gen > 0 \/ (proc[p].st = "free" /\ proc[p].gen = proc'[p].gen)
      /\ \A p \in Pid : HasNs(p)' /\ p \notin moved' =>
             \/ HasNs(p) /\ proc'[p].mnt = proc[p].mnt
             \/ proc[p].st = "free" /\ ~(proc[p].gen > 0)
  BY <1>1, ChurnKeepsSteady
<1>4. /\ proc'[Self] = proc[Self] /\ (Self \notin moved => Self \notin moved')
      /\ \A p \in Pid : \/ proc'[p].gen = proc[p].gen /\ (proc'[p].st = "free" => proc[p].st = "free")
                        \/ proc'[p].gen = proc[p].gen + 1
  BY <1>1, ProcAssumption
     DEF ProcNext, Fork, Exit, Reap, Move, Others, TypeOK, ProcTypeOK, Process
<1>5. AtHome'
  BY <1>4 DEF AtHome, Current, scanVars, searchVars, Scanning
<1>6. Outcome'
  <2>1. \A p \in Pid : MayFailOn(p) => MayFailOn(p)'
    BY <1>1, <1>4
       DEF MayFailOn, MayBeNoText, Listed, Selected, scanVars, searchVars, TypeOK, ProcTypeOK, Process
  <2>2. QED
    BY <2>1 DEF Outcome, Scanning, scanVars, searchVars
<1>7. Entries'
  <2>1. Scanning' => ScanInv' /\ \A e \in mount_namespaces' : e.searched = {}
    BY <1>1, ScanInvNext DEF Entries, Scanning, Next, scanVars, searchVars
  <2>2. OnePlace' /\ \A e \in mount_namespaces' : e.by \in e.ns_pids
    BY DEF Entries, OnePlace, scanVars
  <2>3. \A e \in mount_namespaces' : \A p \in e.ns_pids :
            /\ Selected(p)'
            /\ proc'[p].st = "free" => proc'[p].gen > 0
            /\ HasNs(p)' /\ p \notin moved' => HomeOf(p)' = e.ns_id
    BY <1>1, <1>3 DEF Entries, scanVars, Selected, HomeOf, TypeOK, ScanTypeOK, MountNamespace
  <2>4. ~Scanning' => \A p \in Pid : Steady(p)' /\ Selected(p)' =>
            \E e \in mount_namespaces' : p \in e.ns_pids
    BY <1>3 DEF Entries, Scanning, scanVars, searchVars, Selected
  <2>5. QED
    BY <2>1, <2>2, <2>3, <2>4 DEF Entries
<1>8. Processed' /\ Tried'
  BY <1>1, <1>3
     DEF Processed, Tried, Scanning, Trying, scanVars, searchVars, IsEntry, Least, Selected,
         TypeOK, ScanTypeOK, MountNamespace
<1>9. Opened'
  BY <1>1, <1>4 DEF Opened, searchVars, HostTypeOK, SearchTypeOK, TypeOK, ProcTypeOK, Process, Least
<1>10. SearchesItsNamespace'
  BY <1>3 DEF SearchesItsNamespace, scanVars, searchVars
<1>11. QED
  BY <1>2, <1>5, <1>6, <1>7, <1>8, <1>9, <1>10

(***************************************************************************)
(* The steps of the scan, as part of the search.                           *)
(***************************************************************************)
\* The scan searches nothing.
LEMMA ScanSearchesNothing ==
    ASSUME TypeOK, ScanNext, \A e \in mount_namespaces : e.searched = {}
    PROVE  \A e \in mount_namespaces' : e.searched = {}
<1>1. CASE UNCHANGED mount_namespaces
  BY <1>1
<1>2. ASSUME NEW p \in Pid, NEW e \in WithId(proc[p].mnt), PushPid(e, p)
      PROVE  \A f \in mount_namespaces' : f.searched = {}
  BY <1>2 DEF PushPid, WithId, TypeOK, ScanTypeOK, MountNamespace
<1>3. ASSUME NEW p \in Pid, AppendEntry(p)
      PROVE  \A f \in mount_namespaces' : f.searched = {}
  BY <1>3 DEF AppendEntry, NewEntry
<1>4. QED
  BY <1>1, <1>2, <1>3
     DEF ScanNext, Readdir, Finish, SkipPid, LookUpNs, OpenMountinfo, DropPid

\* fs_config_generic up to the search: open() of checkc's namespace, the scan,
\* and the loop over its result.
LEMMA ScanningStep ==
    ASSUME HostInv, OpenOwnNs \/ ScanStep \/ BeginSearch
    PROVE  AtHome' /\ Outcome' /\ Entries' /\ Processed' /\ Tried' /\ Opened' /\ SearchesItsNamespace'
<1> USE DEF HostInv
<1>1. Scanning /\ ScanInv /\ \A e \in mount_namespaces : e.searched = {}
  BY DEF OpenOwnNs, ScanStep, BeginSearch, Scanning, Entries
<1>2. ScanInv' /\ (\A e \in mount_namespaces' : e.searched = {}) /\ UNCHANGED procVars
  <2>1. CASE ScanStep
    <3>1. ScanInv'
      BY <1>1, <2>1, ScanInvNext DEF ScanStep, Next, Scan
    <3>2. QED
      BY <1>1, <2>1, <3>1, ScanSearchesNothing DEF ScanStep, ScanInv
  <2>2. CASE OpenOwnNs \/ BeginSearch
    <3>1. UNCHANGED vars
      BY <2>2 DEF OpenOwnNs, BeginSearch, vars
    <3>2. QED
      BY <1>1, <3>1, ScanInvNext DEF vars, scanVars
  <2>3. QED
    BY <2>1, <2>2
<1>3. AtHome'
  BY <1>1, <1>2 DEF AtHome, OpenOwnNs, ScanStep, BeginSearch, Current, procVars, searchVars, Scanning
<1>4. Outcome'
  BY <1>1, <1>2 DEF Outcome, OpenOwnNs, ScanStep, BeginSearch, searchVars, scanVars, procVars, Scanning
<1>5. Entries'
  <2>1. /\ OnePlace'
        /\ \A e \in mount_namespaces' : e.by \in e.ns_pids
        /\ \A e \in mount_namespaces' : \A p \in e.ns_pids :
               /\ Selected(p)'
               /\ proc'[p].st = "free" => proc'[p].gen > 0
               /\ HasNs(p)' /\ p \notin moved' => HomeOf(p)' = e.ns_id
    <3>1. Current' = HostNs
      BY <1>1, <1>2 DEF AtHome, procVars, Current
    <3>2. QED
      BY <1>2, <3>1 DEF ScanInv, Cursor, InPlace, HomeOf, Current
  <2>2. ~Scanning' => \A p \in Pid : Steady(p)' /\ Selected(p)' =>
            \E e \in mount_namespaces' : p \in e.ns_pids
    <3>1. ~Scanning' => scan = "done" /\ UNCHANGED <<procVars, scanVars>>
      BY DEF OpenOwnNs, ScanStep, BeginSearch, searchVars, Scanning
    <3>2. scan = "done" => \A p \in Pid : Steady(p) /\ Selected(p) =>
              \E e \in mount_namespaces : p \in e.ns_pids
      BY <1>1 DEF ScanInv, Accounted, Cursor
    <3>3. QED
      BY <3>1, <3>2 DEF procVars, scanVars, Steady, HasNs, Selected
  <2>3. QED
    BY <1>2, <2>1, <2>2 DEF Entries
<1>6. Processed'
  BY <1>1 DEF Processed, Scanning, OpenOwnNs, ScanStep, BeginSearch, scanVars, searchVars
<1>7. Tried' /\ Opened' /\ SearchesItsNamespace'
  BY <1>1, <1>2 DEF Tried, Opened, SearchesItsNamespace, Trying, OpenOwnNs, ScanStep, BeginSearch,
              searchVars, Scanning
<1>8. QED
  BY <1>3, <1>4, <1>5, <1>6, <1>7

(***************************************************************************)
(* Its own steps.  Most leave the processes and the entries alone.         *)
(***************************************************************************)
\* Entries are known by their creators.
LEMMA EntryByCreator ==
    ASSUME Entries, NEW e \in mount_namespaces, NEW f \in mount_namespaces, e.by = f.by
    PROVE  e = f
BY DEF Entries, OnePlace

LEMMA QuietStep ==
    ASSUME HostInv, ~Scanning, ~Scanning', UNCHANGED <<procVars, scanVars, checkc_fd, cwd>>,
           refused \subseteq refused', fs # "returned", fs' # "returned",
           fs' \in {"open_cmdline", "read_cmdline", "join"} =>
               fs \in {"open_cmdline", "read_cmdline", "join"}
    PROVE  AtHome' /\ Entries' /\ SearchesItsNamespace'
<1> USE DEF HostInv
<1>1. AtHome'
  BY DEF AtHome, Scanning, procVars, scanVars, Current
<1>2. Entries'
  BY DEF Entries, OnePlace, procVars, scanVars, Selected, HasNs, HomeOf, Steady
<1>3. SearchesItsNamespace'
  BY DEF SearchesItsNamespace, procVars, scanVars
<1>4. QED
  BY <1>1, <1>2, <1>3

LEMMA LeastIsBelow ==
    ASSUME NEW S \in SUBSET Pid, NEW p, Least(S, p)
    PROVE  p \in S /\ (\A q \in S \ {p} : p < q) /\ \A q \in S : Least(S, q) => q = p
<1>1. \A q \in S : q \in Nat
  BY ProcAssumption
<1>2. QED
  BY <1>1 DEF Least

LEMMA NextEntryStep ==
    ASSUME HostInv, NextEntry
    PROVE  HostInv'
<1> USE DEF HostInv
<1>1. HostTypeOK' /\ AtHome' /\ Entries' /\ SearchesItsNamespace'
  BY SearchStepTyped, QuietStep DEF SearchNext, NextEntry, Scanning
<1>2. Outcome' /\ Processed' /\ Opened'
  BY DEF NextEntry, Outcome, Processed, Opened, Scanning, procVars, scanVars, Steady, HasNs
<1>3. Tried'
  <2>1. PICK f \in mount_namespaces : IsEntry(f) /\ untried' = f.ns_pids
    BY DEF NextEntry
  <2>2. \A e \in mount_namespaces : IsEntry(e) => e = f
    <3>1. todo \subseteq Pid
      BY DEF HostTypeOK, SearchTypeOK
    <3>2. \A e \in mount_namespaces : IsEntry(e) => e.by = f.by
      BY <2>1, <3>1, LeastIsBelow DEF IsEntry, Least
    <3>3. QED
      BY <3>2, EntryByCreator
  <2>3. \A p \in f.ns_pids : Selected(p)
    BY <2>1 DEF Entries
  <2>4. QED
    BY <2>1, <2>2, <2>3 DEF Tried, NextEntry, IsEntry, Least, scanVars, Selected
<1>4. QED
  BY <1>1, <1>2, <1>3

LEMMA GiveUpStep ==
    ASSUME HostInv, GiveUpEntry
    PROVE  HostInv'
<1> USE DEF HostInv
<1>1. HostTypeOK' /\ AtHome' /\ Entries' /\ SearchesItsNamespace'
  BY SearchStepTyped, QuietStep DEF SearchNext, GiveUpEntry, Scanning
<1>2. Outcome' /\ Tried' /\ Opened'
  BY DEF GiveUpEntry, Outcome, Tried, Opened, Scanning, Trying, procVars, scanVars
<1>3. Processed'
  <2>1. PICK f \in mount_namespaces : IsEntry(f) /\ todo' = todo \ {f.by}
    BY DEF GiveUpEntry
  <2>2. \A t \in todo' : f.by < t
    BY <2>1, LeastIsBelow DEF IsEntry, HostTypeOK, SearchTypeOK
  <2>3. refused \subseteq {"restore"} => \A p \in f.ns_pids \ Kthread : ~Steady(p)
    BY <2>1 DEF GiveUpEntry, Tried, Trying
  <2>4. \A e \in mount_namespaces : e.by = f.by => e = f
    BY <2>1, EntryByCreator
  <2>5. QED
    BY <2>1, <2>2, <2>3, <2>4
       DEF Processed, GiveUpEntry, Scanning, procVars, scanVars, Steady, HasNs
<1>4. QED
  BY <1>1, <1>2, <1>3

\* Back in its own namespace, or refused: nothing is known of the entries that
\* was not known before.
LEMMA RejoinStep ==
    ASSUME HostInv, Rejoin
    PROVE  HostInv'
<1> USE DEF HostInv
<1>1. HostTypeOK'
  BY SearchStepTyped DEF SearchNext
<1>2. CASE SetnsRefused("rejoin") /\ UNCHANGED <<proc, cwd>>
  <2>1. Entries' /\ SearchesItsNamespace'
    BY <1>2 DEF Rejoin, Entries, SearchesItsNamespace, SetnsRefused, KernelHistory, scanVars,
                Scanning, OnePlace, Selected, HasNs, HomeOf, Steady
  <2>2. AtHome' /\ Outcome'
    BY <1>2 DEF Rejoin, AtHome, Outcome, SetnsRefused, KernelHistory, scanVars, Scanning, Current
  <2>3. Processed' /\ Tried' /\ Opened'
    BY <1>2 DEF Rejoin, Processed, Tried, Opened, SetnsRefused, KernelHistory, scanVars, Scanning,
                Trying, IsEntry, Least, Steady, HasNs, Selected
  <2>4. QED
    BY <1>1, <2>1, <2>2, <2>3
<1>3. CASE UNCHANGED refused /\ \E n \in checkc_fd : EnterNs(n)
  <2>1. proc' = [proc EXCEPT ![Self].mnt = HostNs] /\ HostNs \in Ns
    BY <1>3, ProcAssumption DEF EnterNs, Rejoin, AtHome
  <2>2. /\ Current' = HostNs
        /\ \A p \in Pid : proc'[p].st = proc[p].st /\ proc'[p].gen = proc[p].gen
        /\ \A p \in Pid \ {Self} : proc'[p] = proc[p]
    BY <2>1, EnterNsFacts DEF HostTypeOK, TypeOK
  <2>3. \A p \in Pid : (Steady(p)' <=> Steady(p)) /\ (HasNs(p)' <=> HasNs(p)) /\ HomeOf(p)' = HomeOf(p)
    BY <2>2 DEF Rejoin, KernelHistory, Steady, HasNs, HomeOf
  <2>4. \A e \in mount_namespaces : e.ns_pids \subseteq Pid
    BY DEF HostTypeOK, TypeOK, ScanTypeOK, MountNamespace
  <2>5. Entries' /\ SearchesItsNamespace'
    BY <1>3, <2>2, <2>3, <2>4
       DEF Rejoin, Entries, SearchesItsNamespace, KernelHistory, scanVars, Scanning, OnePlace,
           Selected
  <2>6. AtHome' /\ Outcome'
    BY <1>3, <2>2, ProcAssumption
       DEF Rejoin, AtHome, Outcome, KernelHistory, scanVars, Scanning
  <2>7. Processed' /\ Tried' /\ Opened'
    BY <1>3, <2>3, <2>4
       DEF Rejoin, Processed, Tried, Opened, KernelHistory, scanVars, Scanning, Trying, IsEntry,
           Least, Selected
  <2>8. QED
    BY <1>1, <2>5, <2>6, <2>7
<1>4. QED
  BY <1>2, <1>3 DEF Rejoin

\* Whatever the loop makes of one PID, another is tried for the same entry.
LEMMA SkipTryStep ==
    ASSUME HostInv, NEW p \in Pid, Trying, Least(untried, p), SkipTry(p),
           UNCHANGED <<procVars, scanVars, result, todo>>, refused \subseteq refused',
           refused' \subseteq {"restore"} => p \in Kthread \/ ~Steady(p)
    PROVE  Outcome' /\ Processed' /\ Tried' /\ Opened'
<1> USE DEF HostInv, SkipTry
<1>1. Outcome' /\ Opened'
  BY DEF Outcome, Opened, Trying, Scanning, procVars, scanVars
<1>2. Processed'
  BY DEF Processed, Trying, Scanning, procVars, scanVars, Steady, HasNs
<1>3. Tried'
  BY DEF Tried, Trying, procVars, scanVars, Steady, HasNs, IsEntry, Least, Selected
<1>4. QED
  BY <1>1, <1>2, <1>3

LEMMA CmdlineStep ==
    ASSUME HostInv, NEW p \in Pid, OpenCmdline(p) \/ ReadCmdline(p)
    PROVE  HostInv'
<1> USE DEF HostInv
<1>1. HostTypeOK'
  BY SearchStepTyped DEF SearchNext
<1>2. Trying /\ ~Scanning /\ Least(untried, p)
  BY DEF OpenCmdline, ReadCmdline, Trying, Scanning
<1>3. AtHome' /\ Entries' /\ SearchesItsNamespace'
  BY <1>2, QuietStep DEF OpenCmdline, ReadCmdline, SkipTry, Scanning
<1>4. "rejoin" \notin refused => Resolves(p) = {p}
  BY <1>2, SearchAssumption DEF OpenCmdline, ReadCmdline, AtHome, Resolves
<1>5. CASE SkipTry(p)
  <2>1. refused \subseteq {"restore"} => p \in Kthread \/ ~Steady(p)
    <3>1. CASE OpenCmdline(p)
      BY <1>5, <3>1, SearchAssumption
         DEF OpenCmdline, SkipTry, Missing, Listed, AtHome, Steady, HasNs
    <3>2. CASE ReadCmdline(p)
      <4>1. "rejoin" \notin refused => cmdline.pid = p
        BY <1>2, <3>2, LeastIsBelow DEF ReadCmdline, Opened, HostTypeOK, SearchTypeOK
      <4>2. QED
        BY <1>5, <3>2, <4>1 DEF ReadCmdline, SkipTry, HasCmdline, Steady, HasNs
    <3>3. QED
      BY <3>1, <3>2
  <2>2. Outcome' /\ Processed' /\ Tried' /\ Opened'
    BY <1>2, <1>5, <2>1, SkipTryStep DEF OpenCmdline, ReadCmdline
  <2>3. QED
    BY <1>1, <1>3, <2>2
<1>6. CASE fs' \in {"read_cmdline", "join"} /\ untried' = untried
  <2>1. Outcome' /\ Processed' /\ Tried'
    BY <1>2, <1>6
       DEF OpenCmdline, ReadCmdline, SkipTry, Outcome, Processed, Tried, Scanning, Trying,
           procVars, scanVars, Steady, HasNs, IsEntry, Least, Selected
  <2>2. Opened'
    <3>1. CASE OpenCmdline(p)
      <4>1. CASE fs' = "read_cmdline"
        <5>1. PICK q \in Resolves(p) : Listed(q) /\ cmdline' = [pid |-> q, gen |-> proc[q].gen]
          BY <3>1, <4>1 DEF OpenCmdline, SkipTry
        <5>2. q \in Pid /\ proc[q].gen \in Nat
          BY DEF Resolves, HostTypeOK, TypeOK, ProcTypeOK, Process
        <5>3. QED
          BY <1>2, <1>4, <1>6, <3>1, <5>1, <5>2
             DEF OpenCmdline, Opened, Listed, procVars, Least
      <4>2. QED
        BY <4>1 DEF Opened
    <3>2. CASE ReadCmdline(p)
      BY <3>2 DEF ReadCmdline, SkipTry, Opened
    <3>3. QED
      BY <3>1, <3>2
  <2>3. QED
    BY <1>1, <1>3, <2>1, <2>2
<1>7. QED
  BY <1>5, <1>6 DEF OpenCmdline, ReadCmdline

LEMMA JoinFailsStep ==
    ASSUME HostInv, NEW p \in Pid, JoinFails(p)
    PROVE  HostInv'
<1> USE DEF HostInv
<1>1. HostTypeOK'
  BY SearchStepTyped DEF SearchNext
<1>2. Trying /\ ~Scanning /\ Least(untried, p) /\ refused \subseteq refused' /\ SkipTry(p)
  BY DEF JoinFails, Trying, Scanning, SetnsRefused
<1>3. AtHome' /\ Entries' /\ SearchesItsNamespace'
  BY <1>2, QuietStep DEF JoinFails, SkipTry, Scanning
<1>4. refused' \subseteq {"restore"} => p \in Kthread \/ ~Steady(p)
  BY SearchAssumption DEF JoinFails, SetnsRefused, Missing, AtHome, Steady
<1>5. Outcome' /\ Processed' /\ Tried' /\ Opened'
  BY <1>2, <1>4, SkipTryStep DEF JoinFails
<1>6. QED
  BY <1>1, <1>3, <1>5

\* The search returns, with a result or because a process vanished.
LEMMA ReturnStep ==
    ASSUME HostInv, EndSearch \/ FailOnCmdline
    PROVE  HostInv'
<1> USE DEF HostInv
<1>1. HostTypeOK' /\ AtHome' /\ Entries' /\ SearchesItsNamespace'
  BY SearchStepTyped, QuietStep DEF SearchNext, EndSearch, FailOnCmdline, Scanning
<1>2. Outcome'
  <2>1. FailOnCmdline => cmdline.pid \in Pid /\ MayFailOn(cmdline.pid)
    <3> SUFFICES ASSUME FailOnCmdline PROVE cmdline.pid \in Pid /\ MayFailOn(cmdline.pid)
      OBVIOUS
    <3>1. cmdline.pid \in Pid
      BY DEF HostTypeOK, SearchTypeOK
    <3>2. CASE CmdlineGone
      <4>1. cmdline.gen \in Nat /\ proc[cmdline.pid].gen \in Nat
        BY <3>1 DEF HostTypeOK, SearchTypeOK, TypeOK, ProcTypeOK, Process
      <4>2. cmdline.gen < proc[cmdline.pid].gen
        BY <3>2, <4>1 DEF FailOnCmdline, CmdlineGone, Opened
      <4>3. QED
        BY <3>1, <4>1, <4>2 DEF MayFailOn
    <3>3. CASE CmdlineGarbled
      <4>1. "rejoin" \notin refused => cmdline.pid \in untried
        BY DEF FailOnCmdline, Opened, Least
      <4>2. QED
        BY <3>1, <3>3, <4>1 DEF FailOnCmdline, CmdlineGarbled, MayFailOn, Tried, Trying
    <3>4. QED
      BY <3>1, <3>2, <3>3 DEF FailOnCmdline
  <2>2. EndSearch => Outcome'
    BY DEF EndSearch, Outcome, Scanning, procVars, scanVars
  <2>3. FailOnCmdline => Outcome'
    BY <2>1 DEF FailOnCmdline, Outcome, Scanning, procVars, scanVars, MayFailOn, MayBeNoText, Listed,
                Selected
  <2>4. QED
    BY <2>2, <2>3
<1>3. Processed' /\ Tried' /\ Opened'
  BY DEF EndSearch, FailOnCmdline, Processed, Tried, Opened, Scanning, Trying, procVars, scanVars,
         Steady, HasNs
<1>4. QED
  BY <1>1, <1>2, <1>3

LEMMA RestoreStep ==
    ASSUME HostInv, Restore
    PROVE  HostInv'
<1> USE DEF HostInv
<1>1. HostTypeOK'
  BY SearchStepTyped DEF SearchNext
<1>2. checkc_fd = {HostNs} /\ HostNs \in Ns
  BY ProcAssumption DEF Restore, AtHome
<1>3. /\ \A p \in Pid : proc'[p].st = proc[p].st /\ proc'[p].gen = proc[p].gen
      /\ \A p \in Pid \ {Self} : proc'[p] = proc[p]
      /\ Current' = HostNs \/ (Current' = Current /\ "restore" \in refused')
      /\ "restore" \notin refused' => cwd' = "original"
  <2>1. CASE proc' = [proc EXCEPT ![Self].mnt = HostNs] /\ cwd' = "original"
    BY <1>2, <2>1, EnterNsFacts DEF HostTypeOK, TypeOK
  <2>2. CASE SetnsRefused("restore") /\ UNCHANGED proc
    BY <2>2 DEF SetnsRefused, Current
  <2>3. QED
    BY <1>2, <2>1, <2>2 DEF Restore
<1>4. /\ UNCHANGED <<KernelHistory, scanVars, result, todo, untried, cmdline>>
      /\ fs = "restore" /\ fs' = "returned" /\ checkc_fd' = {}
      /\ refused \subseteq refused' /\ refused' \subseteq refused \cup {"restore"}
  BY DEF Restore, SetnsRefused
<1>5. /\ \A p \in Pid : (Steady(p)' <=> Steady(p)) /\ (HasNs(p)' <=> HasNs(p)) /\ HomeOf(p)' = HomeOf(p)
      /\ \A e \in mount_namespaces : e.ns_pids \subseteq Pid
  BY <1>3, <1>4
     DEF KernelHistory, Steady, HasNs, HomeOf, HostTypeOK, TypeOK, ScanTypeOK, MountNamespace
<1>6. AtHome'
  BY <1>3, <1>4, ProcAssumption DEF AtHome, KernelHistory, scanVars, Scanning
<1>7. Outcome'
  <2>1. \A p \in Pid : MayFailOn(p) => MayFailOn(p)'
    BY <1>3, <1>4 DEF MayFailOn, MayBeNoText, Listed, Selected, scanVars
  <2>2. QED
    BY <1>4, <2>1 DEF Outcome, scanVars, Scanning
<1>8. Entries' /\ SearchesItsNamespace'
  BY <1>3, <1>4, <1>5
     DEF Entries, SearchesItsNamespace, KernelHistory, scanVars, Scanning, OnePlace, Selected
<1>9. Processed' /\ Tried' /\ Opened'
  BY <1>4, <1>5 DEF Processed, Tried, Opened, KernelHistory, scanVars, Scanning, Trying
<1>10. QED
  BY <1>1, <1>6, <1>7, <1>8, <1>9

(***************************************************************************)
(* join_ns_by_path() succeeds, and the namespace is searched.              *)
(***************************************************************************)
LEMMA JoinAndSearchStep ==
    ASSUME HostInv, NEW p \in Pid, JoinAndSearch(p)
    PROVE  HostInv'
<1> USE DEF HostInv
<1>1. HostTypeOK'
  BY SearchStepTyped DEF SearchNext
<1>2. PICK q \in Resolves(p), e \in mount_namespaces :
          /\ HasNs(q) /\ IsEntry(e) /\ EnterNs(proc[q].mnt)
          /\ mount_namespaces' = (mount_namespaces \ {e})
                  \cup {[e EXCEPT !.searched = @ \cup {proc[q].mnt}]}
          /\ todo' = todo \ {e.by}
  BY DEF JoinAndSearch
<1> DEFINE n == proc[q].mnt
           f == [e EXCEPT !.searched = @ \cup {n}]
<1>3. /\ fs = "join" /\ fs' = "entry" /\ Least(untried, p)
      /\ UNCHANGED <<KernelHistory, pid_cfg, scan, unread, pids, mountinfo_of,
                      result, checkc_fd, untried, cmdline, refused>>
  BY DEF JoinAndSearch
<1>4. n \in Ns /\ q \in Pid /\ e \in MountNamespace
  BY DEF Resolves, HostTypeOK, TypeOK, ProcTypeOK, ScanTypeOK, Process
<1>5. /\ f.by = e.by /\ f.ns_id = e.ns_id /\ f.ns_pids = e.ns_pids
      /\ f.searched = {n} /\ e.searched = {}
  BY <1>2, <1>3, <1>4, SearchedEntry DEF Processed, Scanning, IsEntry, Least
<1>6. mount_namespaces' = (mount_namespaces \ {e}) \cup {f}
  BY <1>2
<1>7. /\ \A r \in Pid : proc'[r].st = proc[r].st /\ proc'[r].gen = proc[r].gen
      /\ \A r \in Pid \ {Self} : proc'[r] = proc[r]
  BY <1>2, <1>4, EnterNsFacts DEF EnterNs, HostTypeOK, TypeOK
<1>8. \A r \in Pid : (Steady(r)' <=> Steady(r)) /\ (HasNs(r)' <=> HasNs(r)) /\ HomeOf(r)' = HomeOf(r)
  BY <1>3, <1>7 DEF KernelHistory, Steady, HasNs, HomeOf
<1>9. \A g \in mount_namespaces : g.ns_pids \subseteq Pid
  BY DEF HostTypeOK, TypeOK, ScanTypeOK, MountNamespace
<1>10. untried \subseteq e.ns_pids /\ (\A t \in todo' : e.by < t) /\ todo' \subseteq todo
       /\ \A g \in mount_namespaces : g.by = e.by => g = e
  BY <1>2, <1>3, LeastIsBelow, EntryByCreator
     DEF Tried, Trying, IsEntry, HostTypeOK, SearchTypeOK
<1> HIDE DEF f, n
<1>11. AtHome'
  BY <1>3, <1>5, <1>6, <1>7, ProcAssumption DEF AtHome, KernelHistory, Scanning
<1>12. Outcome'
  BY <1>3, <1>7 DEF Outcome, KernelHistory, Scanning
<1>13. Entries'
  <2>1. OnePlace' /\ \A g \in mount_namespaces' : g.by \in g.ns_pids
    BY <1>5, <1>6 DEF Entries, OnePlace
  <2>2. \A g \in mount_namespaces' : \A r \in g.ns_pids :
            /\ Selected(r)'
            /\ proc'[r].st = "free" => proc'[r].gen > 0
            /\ HasNs(r)' /\ r \notin moved' => HomeOf(r)' = g.ns_id
    BY <1>3, <1>5, <1>6, <1>7, <1>8, <1>9 DEF Entries, KernelHistory, Selected
  <2>3. \A r \in Pid : Steady(r)' /\ Selected(r)' => \E g \in mount_namespaces' : r \in g.ns_pids
    <3> SUFFICES ASSUME NEW r \in Pid, Steady(r), Selected(r)
                 PROVE  \E g \in mount_namespaces' : r \in g.ns_pids
      BY <1>3, <1>8 DEF Selected
    <3>1. PICK g \in mount_namespaces : r \in g.ns_pids
      BY <1>3 DEF Entries, Scanning
    <3>2. QED
      BY <3>1, <1>5, <1>6
  <2>4. QED
    BY <1>3, <2>1, <2>2, <2>3 DEF Entries, Scanning
<1>14. Processed'
  <2>1. \A g \in mount_namespaces' : g.by \in todo' => g.searched = {}
    BY <1>2, <1>3, <1>5, <1>6 DEF Processed, Scanning
  <2>2. \A g \in mount_namespaces', t \in todo' : g.by \notin todo' => g.by < t
    BY <1>2, <1>3, <1>5, <1>6, <1>10 DEF Processed, Scanning
  <2>3. refused' \subseteq {"restore"} =>
            \A g \in mount_namespaces' : \A r \in g.ns_pids \ Kthread :
                g.by \notin todo' /\ Steady(r)' => g.searched # {}
    BY <1>2, <1>3, <1>5, <1>6, <1>8, <1>9, <1>10 DEF Processed, Scanning
  <2>4. QED
    BY <2>1, <2>2, <2>3 DEF Processed
<1>15. Tried' /\ Opened'
  BY <1>3 DEF Tried, Opened, Trying
<1>16. SearchesItsNamespace'
  <2> DEFINE Goal(g) == \/ g.searched \subseteq {g.ns_id}
                        \/ g.ns_pids \cap moved # {}
                        \/ /\ "rejoin" \in refused
                           /\ \E h \in mount_namespaces' : h.by < g.by /\ h.searched # {}
  <2>1. ASSUME NEW g \in mount_namespaces \ {e} PROVE Goal(g)
    <3>1. \A h \in mount_namespaces : h.searched # {} => h \in mount_namespaces'
      BY <1>5, <1>6
    <3>2. QED
      BY <3>1 DEF SearchesItsNamespace
  <2>2. Goal(f)
    <3>1. CASE "rejoin" \notin refused \/ Current = HostNs
      <4>1. Current = HostNs
        BY <1>3, <3>1 DEF AtHome
      <4>2. q = p /\ p \in e.ns_pids
        BY <1>3, <1>10, <4>1, SearchAssumption DEF Resolves, Least
      <4>3. p \notin moved => n = e.ns_id
        BY <1>2, <4>1, <4>2 DEF Entries, HomeOf, Current, n
      <4>4. QED
        BY <1>5, <4>2, <4>3
    <3>2. CASE "rejoin" \in refused /\ Current # HostNs
      <4>1. PICK h \in mount_namespaces : h.searched # {}
        BY <3>2 DEF AtHome
      <4>2. h.by \notin todo /\ e.by \in todo
        BY <1>2, <1>3, <4>1 DEF Processed, Scanning, IsEntry, Least
      <4>3. h.by < e.by
        BY <1>3, <4>2 DEF Processed, Scanning
      <4>4. h \in mount_namespaces'
        BY <1>5, <1>6, <4>1
      <4>5. QED
        BY <1>5, <3>2, <4>1, <4>3, <4>4
    <3>3. QED
      BY <3>1, <3>2
  <2>3. QED
    BY <1>3, <1>6, <2>1, <2>2 DEF SearchesItsNamespace, KernelHistory
<1>17. QED
  BY <1>1, <1>11, <1>12, <1>13, <1>14, <1>15, <1>16

LEMMA HostInvNext == HostInv /\ [HostNext]_hostVars => HostInv'
<1> SUFFICES ASSUME HostInv, [HostNext]_hostVars PROVE HostInv'
  OBVIOUS
<1>1. CASE SearchNext
  <2>1. CASE OpenOwnNs \/ ScanStep \/ BeginSearch
    BY <1>1, <2>1, ScanningStep, SearchStepTyped DEF HostInv
  <2>2. QED
    BY <1>1, <2>1, NextEntryStep, GiveUpStep, RejoinStep, CmdlineStep, JoinFailsStep, ReturnStep,
       RestoreStep, JoinAndSearchStep DEF SearchNext
<1>2. CASE ProcNext /\ UNCHANGED <<scanVars, searchVars>>
  BY <1>2, OthersStep
<1>3. CASE UNCHANGED hostVars
  <2>1. UNCHANGED <<vars, procVars, scanVars, searchVars>>
    BY <1>3 DEF hostVars, vars
  <2>2. HostTypeOK' /\ AtHome' /\ Outcome'
    BY <2>1 DEF HostInv, HostTypeOK, TypeOK, ProcTypeOK, ScanTypeOK, SearchTypeOK, AtHome, Outcome,
                procVars, scanVars, searchVars, Scanning, Current, MayFailOn, MayBeNoText, Listed,
                Selected
  <2>3. Entries'
    <3>1. Scanning' => ScanInv'
      BY <2>1, ScanInvNext DEF HostInv, Entries, Scanning, searchVars
    <3>2. QED
      BY <2>1, <3>1 DEF HostInv, Entries, procVars, scanVars, searchVars, Scanning, OnePlace,
                        Selected, HasNs, HomeOf, Steady
  <2>4. Processed' /\ Tried' /\ Opened' /\ SearchesItsNamespace'
    BY <2>1 DEF HostInv, Processed, Tried, Opened, SearchesItsNamespace, procVars, scanVars,
                searchVars, Scanning, Trying, IsEntry, Least, HasNs, Steady, Selected
  <2>5. QED
    BY <2>2, <2>3, <2>4 DEF HostInv
<1>4. QED
  BY <1>1, <1>2, <1>3 DEF HostNext

THEOREM HostInvariant == HostSpec => []HostInv
BY HostInvInit, HostInvNext, PTL DEF HostSpec

(***************************************************************************)
(* The properties of the search.                                           *)
(***************************************************************************)
\* The variables of the search keep their types.
THEOREM HostTyped == HostSpec => []HostTypeOK
<1>1. HostInv => HostTypeOK
  BY DEF HostInv
<1>2. QED
  BY <1>1, HostInvariant, PTL

\* The cmdline files and the namespaces that process_mountpoints_host opens are
\* those of the procfs that the PIDs were read from, unless the setns() in
\* front of them was refused.
THEOREM ProcfsIsCheckcs == HostSpec => []ProcReadAtHome
<1>1. HostInv => ProcReadAtHome
  BY DEF HostInv, AtHome, ProcReadAtHome, Scanning
<1>2. QED
  BY <1>1, HostInvariant, PTL

\* fs_config_generic closes the descriptor and goes back to the namespace and
\* the directory that it was called in, on every way out.
THEOREM SearchLeavesNoTrace == HostSpec => []LeavesNoTrace
<1>1. HostInv => LeavesNoTrace
  BY DEF HostInv, AtHome, LeavesNoTrace
<1>2. QED
  BY <1>1, HostInvariant, PTL

\* The flag files of an entry are those of its namespace, unless a process of
\* it moved, or a setns() was refused after a search.
THEOREM FlagsAreOfTheNamespace == HostSpec => []SearchesItsNamespace
<1>1. HostInv => SearchesItsNamespace
  BY DEF HostInv
<1>2. QED
  BY <1>1, HostInvariant, PTL

\* What EveryNamespaceSearched says, from what is known of the entries that the
\* search is done with: no entry is left, and the search of one whose process
\* stayed was of its own namespace.
LEMMA SearchedAtTheEnd ==
    ASSUME HostInv, fs \in {"restore", "returned"}, result = "ok", refused \subseteq {"restore"},
           NEW e \in mount_namespaces, NEW p \in Pid \ Kthread, p \in e.ns_pids, Steady(p),
           e.ns_pids \cap moved = {}
    PROVE  e.searched = {e.ns_id}
<1>1. e.searched # {}
  BY DEF HostInv, Outcome, Processed, Scanning
<1>2. e.searched \subseteq {e.ns_id}
  BY DEF HostInv, SearchesItsNamespace
<1>3. QED
  BY <1>1, <1>2

\* When process_mountpoints_host returns a result, it has searched every
\* namespace in which a user process ran all along.
THEOREM NoNamespaceMissed == HostSpec => []EveryNamespaceSearched
<1>1. HostInv => EveryNamespaceSearched
  BY SearchedAtTheEnd DEF EveryNamespaceSearched
<1>2. QED
  BY <1>1, HostInvariant, PTL

(***************************************************************************)
(* The search implements the census: the initial states map to initial     *)
(* states, and every step maps to a step of it or to a stutter.            *)
(***************************************************************************)
Answer == UNION {e.ns_pids : e \in {f \in mount_namespaces : f.searched = {f.ns_id}}}
Must == IF moved = {} /\ refused \subseteq {"restore"}
        THEN {p \in Pid \ Kthread : Steady(p) /\ Selected(p)} ELSE {}
May == {p \in Pid : Selected(p) /\ (Listed(p) \/ p \in fresh \/ proc[p].gen > 0)}
Disturbed == moved # {} \/ \E p \in Pid : MayFailOn(p)
Outside == IF scan = "panic" THEN "err" ELSE IF fs = "returned" THEN result ELSE "taking"
Counted == IF fs = "returned" /\ result = "ok" THEN Answer ELSE {}

LEMMA InitIsCensusInit == HostInit => Viewing!CensusInit
<1> SUFFICES ASSUME HostInit PROVE Viewing!CensusInit
  OBVIOUS
<1>1. fs = "open" /\ scan = "readdir" /\ moved = {} /\ \A p \in Pid : proc[p].gen = 0
  BY DEF HostInit, Init, ProcInit, ScanInit, SearchInit
<1>2. \A p \in Pid : Steady(p) => Listed(p)
  BY DEF Steady, HasNs, Listed
<1>3. QED
  BY <1>1, <1>2 DEF Viewing!CensusInit

\* The answer is right when it is given.
LEMMA AnswerIsRight ==
    ASSUME HostInv, fs \in {"restore", "returned"}, result = "ok"
    PROVE  Must \subseteq Answer /\ Answer \subseteq May
<1> USE DEF HostInv
<1>1. Answer \subseteq May
  <2> SUFFICES ASSUME NEW e \in mount_namespaces, NEW p \in e.ns_pids PROVE p \in May
    BY DEF Answer
  <2>1. p \in Pid
    BY DEF HostTypeOK, TypeOK, ScanTypeOK, MountNamespace
  <2>2. QED
    BY <2>1 DEF Entries, May, Listed
<1>2. Must \subseteq Answer
  <2> SUFFICES ASSUME moved = {}, refused \subseteq {"restore"},
                      NEW p \in Pid \ Kthread, Steady(p), Selected(p)
               PROVE  p \in Answer
    BY DEF Must
  <2>1. PICK e \in mount_namespaces : p \in e.ns_pids
    BY DEF Entries, Scanning
  <2>2. e.searched = {e.ns_id}
    BY <2>1, SearchedAtTheEnd
  <2>3. QED
    BY <2>1, <2>2 DEF Answer
<1>3. QED
  BY <1>1, <1>2

\* A step of another process is a change of the world.
LEMMA OthersStepIsChange ==
    ASSUME HostInv, ProcNext, UNCHANGED <<scanVars, searchVars>>
    PROVE  Viewing!Change
<1> USE DEF HostInv
<1>1. TypeOK /\ Churns
  BY DEF HostTypeOK, Churns
<1>2. /\ moved \subseteq moved' /\ fresh \subseteq fresh'
      /\ \A p \in Pid : Steady(p)' => Steady(p)
  BY <1>1, ChurnKeepsSteady DEF ProcNext, Fork, Exit, Reap, Move
<1>3. \A p \in Pid : /\ proc[p].gen > 0 => proc'[p].gen > 0
                     /\ Listed(p) => Listed(p)' \/ proc'[p].gen > 0
  BY <1>1, ProcAssumption
     DEF ProcNext, Fork, Exit, Reap, Move, Others, Listed, TypeOK, ProcTypeOK, Process
<1>4. UNCHANGED <<Outside, Counted>> /\ \A p \in Pid : Selected(p)' <=> Selected(p)
  BY DEF scanVars, searchVars, Outside, Counted, Answer, Selected
<1>5. Must' \subseteq Must
  BY <1>2, <1>4 DEF Must, searchVars
<1>6. May \subseteq May' /\ May' \subseteq Pid
  BY <1>2, <1>3, <1>4 DEF May
<1>7. Disturbed => Disturbed'
  <2>1. \A p \in Pid : MayFailOn(p) => MayFailOn(p)'
    BY <1>3, <1>4 DEF MayFailOn, MayBeNoText, searchVars
  <2>2. QED
    BY <1>2, <2>1 DEF Disturbed
<1>8. QED
  BY <1>4, <1>5, <1>6, <1>7
     DEF Viewing!Change, Must, May, Disturbed, MayFailOn, Outside, Counted, Answer

\* checkc's own steps change nothing of the processes, and what a refused call
\* of setns() changes is that less is owed.
LEMMA SearchChangesNoProcess ==
    ASSUME HostInv, SearchNext
    PROVE  /\ moved' = moved /\ fresh' = fresh /\ pid_cfg' = pid_cfg /\ refused \subseteq refused'
           /\ \A p \in Pid : proc'[p].st = proc[p].st /\ proc'[p].gen = proc[p].gen
<1> USE DEF HostInv
<1>1. ProcTypeOK /\ HostNs \in Ns
  BY ProcAssumption DEF HostTypeOK, TypeOK
<1>2. CASE UNCHANGED procVars /\ pid_cfg' = pid_cfg /\ refused \subseteq refused'
  BY <1>2 DEF procVars
<1>3. CASE Rejoin \/ Restore
  <2>1. checkc_fd = {HostNs}
    BY <1>3 DEF Rejoin, Restore, AtHome
  <2>2. \A p \in Pid : proc'[p].st = proc[p].st /\ proc'[p].gen = proc[p].gen
    BY <1>1, <1>3, <2>1, EnterNsFacts DEF Rejoin, Restore, EnterNs
  <2>3. QED
    BY <1>3, <2>2 DEF Rejoin, Restore, KernelHistory, scanVars, SetnsRefused
<1>4. ASSUME NEW p \in Pid, JoinAndSearch(p)
      PROVE  /\ moved' = moved /\ fresh' = fresh /\ pid_cfg' = pid_cfg /\ refused \subseteq refused'
             /\ \A r \in Pid : proc'[r].st = proc[r].st /\ proc'[r].gen = proc[r].gen
  <2>1. PICK q \in Resolves(p) : EnterNs(proc[q].mnt)
    BY <1>4 DEF JoinAndSearch
  <2>2. proc[q].mnt \in Ns
    BY <1>1 DEF Resolves, ProcTypeOK, Process
  <2>3. QED
    BY <1>1, <1>4, <2>1, <2>2, EnterNsFacts DEF JoinAndSearch, EnterNs, KernelHistory
<1>5. CASE ScanStep
  BY <1>5 DEF ScanStep, ScanNext, Readdir, Finish, SkipPid, LookUpNs, OpenMountinfo, AppendEntry,
              DropPid, NextPid, procVars, searchVars
<1>6. QED
  BY <1>2, <1>3, <1>4, <1>5
     DEF SearchNext, OpenOwnNs, BeginSearch, NextEntry, GiveUpEntry, FailOnCmdline, EndSearch,
         OpenCmdline, ReadCmdline, JoinFails, SkipTry, SetnsRefused, scanVars

LEMMA SearchStepIsCensusStep ==
    ASSUME HostInv, SearchNext
    PROVE  Viewing!CensusNext
<1> USE DEF HostInv
<1>1. Must' \subseteq Must /\ May' = May /\ (Disturbed => Disturbed')
  BY SearchChangesNoProcess
     DEF Must, May, Disturbed, MayFailOn, MayBeNoText, Steady, HasNs, Selected, Listed
<1>2. May \subseteq Pid
  BY DEF May
<1>3. CASE Restore
  <2>1. /\ fs = "restore" /\ fs' = "returned" /\ UNCHANGED <<result, scanVars, moved>>
        /\ result \in {"ok", "err"} /\ scan # "panic"
        /\ refused' \subseteq refused \cup {"restore"} /\ refused \subseteq refused'
    BY <1>3 DEF Restore, KernelHistory, SetnsRefused, Outcome, Scanning, HostTypeOK, SearchTypeOK
  <2>2. Must' = Must /\ Disturbed' = Disturbed
    BY <2>1, SearchChangesNoProcess
       DEF Must, Disturbed, MayFailOn, MayBeNoText, Steady, HasNs, Selected, Listed
  <2>3. Outside = "taking" /\ Outside' = result /\ Counted = {}
    BY <2>1 DEF Outside, Counted, scanVars
  <2>4. CASE result = "ok"
    <3>1. Must \subseteq Answer /\ Answer \subseteq May
      BY <2>1, <2>4, AnswerIsRight
    <3>2. Counted' = Answer
      BY <2>1, <2>4 DEF Counted, Answer, scanVars
    <3>3. Viewing!Return
      BY <1>1, <2>2, <2>3, <2>4, <3>1, <3>2
         DEF Viewing!Return, Must, May, Disturbed, MayFailOn, Outside, Counted, Answer
    <3>4. QED
      BY <3>3 DEF Viewing!CensusNext
  <2>5. CASE result = "err"
    <3>1. Disturbed /\ Counted' = {}
      BY <2>1, <2>5 DEF Outcome, Disturbed, Counted
    <3>2. Viewing!Fail
      BY <1>1, <2>2, <2>3, <2>5, <3>1
         DEF Viewing!Fail, Must, May, Disturbed, MayFailOn, Outside, Counted, Answer
    <3>3. QED
      BY <3>2 DEF Viewing!CensusNext
  <2>6. QED
    BY <2>1, <2>4, <2>5
<1>4. CASE scan # "panic" /\ scan' = "panic"
  <2>1. PICK p \in Pid : LookUpNs(p) /\ \E e, f \in WithId(proc[p].mnt) : e # f
    BY <1>4
       DEF SearchNext, OpenOwnNs, ScanStep, BeginSearch, NextEntry, GiveUpEntry, Rejoin,
           FailOnCmdline, EndSearch, Restore, OpenCmdline, ReadCmdline, JoinAndSearch, JoinFails,
           scanVars, ScanNext, Readdir, Finish, SkipPid, LookUpNs, OpenMountinfo, AppendEntry,
           DropPid, NextPid
  <2>2. ScanStep /\ fs = "scan" /\ UNCHANGED <<procVars, searchVars>>
    BY <1>4
       DEF SearchNext, OpenOwnNs, ScanStep, BeginSearch, NextEntry, GiveUpEntry, Rejoin,
           FailOnCmdline, EndSearch, Restore, OpenCmdline, ReadCmdline, JoinAndSearch, JoinFails,
           scanVars
  <2>3. ScanInv /\ proc[p].mnt \in Ns
    BY <2>2 DEF Entries, Scanning, HostTypeOK, TypeOK, ProcTypeOK, Process
  <2>4. Disturbed
    BY <2>1, <2>3, PanicNeedsMove DEF Disturbed
  <2>5. Must' = Must /\ Disturbed' = Disturbed
    BY <2>2, SearchChangesNoProcess
       DEF Must, Disturbed, MayFailOn, MayBeNoText, searchVars, procVars, Steady, HasNs, Selected,
           Listed
  <2>6. Outside = "taking" /\ Outside' = "err" /\ Counted = {} /\ Counted' = {}
    BY <1>4, <2>2 DEF Outside, Counted, searchVars
  <2>7. Viewing!Fail
    BY <1>1, <2>4, <2>5, <2>6
       DEF Viewing!Fail, Must, May, Disturbed, MayFailOn, Outside, Counted, Answer
  <2>8. QED
    BY <2>7 DEF Viewing!CensusNext
<1>5. CASE ~Restore /\ (scan = "panic" \/ scan' # "panic")
  <2>1. fs # "returned" /\ fs' # "returned" /\ (scan = "panic" => scan' = "panic")
    BY <1>5
       DEF SearchNext, OpenOwnNs, ScanStep, BeginSearch, NextEntry, GiveUpEntry, Rejoin,
           FailOnCmdline, EndSearch, OpenCmdline, ReadCmdline, JoinAndSearch, JoinFails, SkipTry,
           searchVars, scanVars, ScanNext, Readdir, Finish, SkipPid, LookUpNs, OpenMountinfo,
           AppendEntry, DropPid
  <2>2. Outside' = Outside /\ Counted' = Counted
    BY <1>5, <2>1 DEF Outside, Counted
  <2>3. Viewing!Change
    BY <1>1, <1>2, <2>2
       DEF Viewing!Change, Must, May, Disturbed, MayFailOn, Outside, Counted, Answer
  <2>4. QED
    BY <2>3 DEF Viewing!CensusNext
<1>6. QED
  BY <1>3, <1>4, <1>5

\* The safety part of ViewIsCensus: what fs_config_hostview returns to main.rs
\* is a census of the processes whose namespace was searched.
THEOREM ViewIsCensusStepwise ==
    HostSpec => Viewing!CensusInit /\ [][Viewing!CensusNext]_(Viewing!censusVars)
<1>1. HostInv /\ [HostNext]_hostVars => [Viewing!CensusNext]_(Viewing!censusVars)
  <2> SUFFICES ASSUME HostInv, [HostNext]_hostVars
               PROVE  [Viewing!CensusNext]_(Viewing!censusVars)
    OBVIOUS
  <2>1. CASE SearchNext
    BY <2>1, SearchStepIsCensusStep
  <2>2. CASE ProcNext /\ UNCHANGED <<scanVars, searchVars>>
    BY <2>2, OthersStepIsChange DEF Viewing!CensusNext
  <2>3. CASE UNCHANGED hostVars
    <3>1. UNCHANGED <<proc, fresh, moved, pid_cfg, scan, mount_namespaces, fs, result, refused>>
      BY <2>3 DEF hostVars, vars, procVars, scanVars, searchVars
    <3>2. QED
      BY <3>1 DEF Viewing!censusVars, Steady, HasNs, Selected, Listed, MayBeNoText
  <2>4. QED
    BY <2>1, <2>2, <2>3 DEF HostNext
<1>2. QED
  BY <1>1, InitIsCensusInit, HostInvariant, PTL DEF HostSpec
=============================================================================
