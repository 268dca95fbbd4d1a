------------------------ MODULE ContainerPidsProofs ------------------------
(***************************************************************************)
(* Proofs of the safety properties of ContainerPids, and that every step   *)
(* of it is a step of the census it implements, for any number of          *)
(* processes and any churn.                                                *)
(***************************************************************************)
EXTENDS ContainerPids, ProcessTreeProofs

(***************************************************************************)
(* The inductive invariant.                                                *)
(***************************************************************************)
Used(p) == proc[p].st = "free" => proc[p].gen > 0

\* The tree: who has children runs, and the children of the processes of the
\* container are processes of the container.
Tree ==
    /\ \A p \in Lasting : proc[p].st = "run"
    /\ ppid[1] = NoParent /\ ppid[CInit] = 1
    /\ 1 \notin contained /\ CInit \in contained
    /\ \A p \in Pid : ppid[p] \in Pid => ppid[p] # p /\ proc[ppid[p]].st = "run"
    /\ \A p \in Pid : ppid[p] \in contained => p \in contained
    /\ \A p \in contained : Used(p)

\* The links between a process and the container's init that nobody broke.
Links ==
    /\ CInit \in linked /\ 1 \notin linked
    /\ \A p \in linked : Listed(p) /\ (p # CInit => ppid[p] \in linked)
    /\ linked \subseteq Descendants(ppid, CInit)

\* The climb: the PIDs it has met were in use, and from an ancestor in the
\* container it has come from a process in the container.
Climb ==
    /\ walk # "readdir" => unlisted = {}
    /\ walk = "done" => all_pids = {}
    /\ CInit \in container_pids
    /\ \A p \in all_pids \cup container_pids : Used(p)
    /\ walk \in {"open_stat", "read_stat"} => current \in Pid \cup {NoParent}
    /\ walk = "read_stat" => current \in Pid /\ stat_gen <= proc[current].gen
    /\ current # NoParent => Used(current)
    /\ walk \in {"open_stat", "read_stat"} /\ moved = {} =>
           \A p \in all_pids : Least(all_pids, p) /\ current \in contained => p \in contained

\* Every set of linked processes that has p and the parents of its processes
\* has q: q is met by a climb from p.
Meets(p, q) ==
    \A T \in SUBSET linked : p \in T /\ (\A r \in T \ {CInit} : ppid[r] \in T) => q \in T

\* A linked process is still to come, or in the result; the climb from one
\* stays on links.
Accounted ==
    /\ \A p \in linked : p \in unlisted \cup all_pids \cup container_pids
    /\ walk \in {"open_stat", "read_stat"} =>
           \A p \in all_pids \cap linked : Least(all_pids, p) /\ p \notin container_pids =>
               current # CInit /\ Meets(p, current)

CpInv ==
    /\ CpTypeOK
    /\ Tree
    /\ Links
    /\ Climb
    /\ Accounted
    /\ OnlyContainerPids

LEMMA PidFacts ==
    /\ Pid \subseteq Nat \ {0} /\ NoParent \notin Pid
    /\ 1 \in Pid /\ CInit \in Pid /\ CInit # 1 /\ CInit > 1
    /\ 1 \in Others /\ CInit \in Others
BY ProcAssumption, CInitAssumption DEF NoParent, Others

LEMMA InitTyped == CpInit => CpTypeOK
<1> SUFFICES ASSUME CpInit PROVE CpTypeOK
  OBVIOUS
<1>1. ProcTypeOK
  BY ProcAssumption DEF CpInit, ProcInit, ProcTypeOK, Process
<1>2. ppid \in [Pid -> Pid \cup {NoParent}]
  <2>1. PICK parent \in [Others \ Lasting -> Others \cup {NoParent}] :
            ppid = [p \in Pid |-> IF p \in DOMAIN parent THEN parent[p]
                                  ELSE IF p \in {Self, CInit} THEN 1 ELSE NoParent]
    BY DEF CpInit, TreeInit
  <2>2. Others \subseteq Pid
    BY DEF Others
  <2>3. QED
    BY <2>1, <2>2, PidFacts
<1>3. contained \subseteq Pid /\ linked \subseteq Pid
  BY <1>2 DEF CpInit, TreeInit, Others, Descendants
<1>4. QED
  BY <1>1, <1>2, <1>3, PidFacts DEF CpInit, WalkInit, CpTypeOK

LEMMA InitTree == CpInit => Tree
<1> SUFFICES ASSUME CpInit PROVE Tree
  OBVIOUS
<1>1. PICK parent \in [Others \ Lasting -> Others \cup {NoParent}] :
          ppid = [p \in Pid |-> IF p \in DOMAIN parent THEN parent[p]
                                ELSE IF p \in {Self, CInit} THEN 1 ELSE NoParent]
  BY DEF CpInit, TreeInit
<1>2. ppid[1] = NoParent /\ ppid[CInit] = 1 /\ ppid[Self] = 1
      /\ \A p \in Pid \ (Others \cup {Self}) : ppid[p] = NoParent
  BY <1>1, PidFacts, ProcAssumption DEF Lasting, Others
<1>3. \A p \in Lasting : proc[p].st = "run"
  BY DEF CpInit, TreeInit
<1>4. \A p \in Others \ Lasting :
          /\ ppid[p] \in Pid => ppid[p] # p /\ proc[ppid[p]].st = "run"
          /\ p \notin contained => ppid[p] \notin contained
          /\ proc[p].st = "free" => p \notin contained
  <2>1. \A p \in Others \ Lasting : (ppid[p] < p /\ proc[ppid[p]].st = "run") \/ ppid[p] = NoParent
    BY DEF CpInit, TreeInit
  <2>2. \A p \in Pid : ~(p < p)
    BY PidFacts
  <2>3. QED
    BY <2>1, <2>2, PidFacts DEF CpInit, TreeInit
<1>5. 1 \notin contained /\ CInit \in contained /\ contained \subseteq Others
  BY DEF CpInit, TreeInit
<1>6. \A p \in Pid : ppid[p] \in Pid => ppid[p] # p /\ proc[ppid[p]].st = "run"
  <2>1. Self # 1
    BY PidFacts DEF Others
  <2>2. QED
    BY <1>2, <1>3, <1>4, <2>1, PidFacts DEF Lasting
<1>7. \A p \in Pid : ppid[p] \in contained => p \in contained
  BY <1>2, <1>4, <1>5, PidFacts DEF Lasting, Others
<1>8. \A p \in contained : Used(p)
  BY <1>3, <1>4, <1>5 DEF Used
<1>9. QED
  BY <1>2, <1>3, <1>5, <1>6, <1>7, <1>8 DEF Tree

\* The line that shows that PID 1 is no descendant of the container's init.
LEMMA TopIsLine == CpTypeOK /\ Tree => IsLine(ppid, {1}) /\ 1 \notin Descendants(ppid, CInit)
<1> SUFFICES ASSUME CpTypeOK, Tree PROVE IsLine(ppid, {1}) /\ 1 \notin Descendants(ppid, CInit)
  OBVIOUS
<1>1. DOMAIN ppid = Pid
  BY DEF CpTypeOK
<1>2. IsLine(ppid, {1})
  BY <1>1, PidFacts DEF IsLine, Tree
<1>3. QED
  BY <1>1, <1>2, DescendantsAre, PidFacts

LEMMA CpInvInit == CpInit => CpInv
<1> SUFFICES ASSUME CpInit PROVE CpInv
  OBVIOUS
<1>1. CpTypeOK /\ Tree
  BY InitTyped, InitTree
<1>2. DOMAIN ppid = Pid /\ linked = Descendants(ppid, CInit)
  BY <1>1 DEF CpTypeOK, CpInit, TreeInit
<1>3. Links
  <2>1. CInit \in linked /\ 1 \notin linked
    BY <1>1, <1>2, DescendantsAre, PidFacts, TopIsLine
  <2>2. ASSUME NEW p \in linked, p # CInit PROVE Listed(p) /\ ppid[p] \in linked
    <3>1. p \in Pid /\ \A S : IsLine(ppid, S) /\ p \in S => CInit \in S
      BY <1>2, DescendantsAre, PidFacts
    <3>2. ppid[p] \in Pid
      <4>1. ppid[p] \notin Pid => IsLine(ppid, {p})
        BY <1>2, <3>1 DEF IsLine
      <4>2. QED
        BY <2>2, <3>1, <4>1
    <3>3. ppid[p] \in linked
      <4> SUFFICES ASSUME NEW S, IsLine(ppid, S), ppid[p] \in S PROVE CInit \in S
        BY <1>2, <3>2, DescendantsAre, PidFacts
      <4>1. IsLine(ppid, S \cup {p})
        BY <1>2, <3>1 DEF IsLine
      <4>2. QED
        BY <2>2, <3>1, <4>1
    <3>4. Listed(p)
      <4>1. p \in Others \/ p = Self \/ ppid[p] = NoParent
        <5>1. p \in Kthread => ppid[p] = NoParent
          BY ProcAssumption, PidFacts DEF CpInit, TreeInit, Others
        <5>2. QED
          BY <3>1, <5>1 DEF Others
      <4>2. p \in Others \ Lasting => Listed(p)
        BY <3>2, PidFacts DEF CpInit, TreeInit, Listed
      <4>3. p \in Lasting \cup {Self} => Listed(p)
        BY <1>1, ProcAssumption DEF Tree, Listed, CpInit, ProcInit
      <4>4. QED
        BY <3>2, <4>1, <4>2, <4>3, PidFacts
    <3>5. QED
      BY <3>3, <3>4
  <2>3. Listed(CInit)
    BY <1>1 DEF Tree, Lasting, Listed
  <2>4. QED
    BY <1>2, <2>1, <2>2, <2>3 DEF Links
<1>4. Climb
  BY <1>1 DEF CpInit, WalkInit, Climb, Tree
<1>5. Accounted
  BY <1>1 DEF CpInit, WalkInit, Accounted, CpTypeOK
<1>6. OnlyContainerPids
  BY <1>1 DEF CpInit, WalkInit, OnlyContainerPids, Tree
<1>7. QED
  BY <1>1, <1>3, <1>4, <1>5, <1>6 DEF CpInv

(***************************************************************************)
(* The steps of the other processes.                                       *)
(***************************************************************************)
\* What holds of every step of the other processes that the climb relies on.
Onward ==
    /\ moved \subseteq moved' /\ linked' \subseteq linked
    /\ \A p \in Pid : proc[p].gen <= proc'[p].gen
    /\ \A p \in Pid : Used(p) => Used(p)'
    /\ \A p \in Pid : Used(p) /\ p \in contained => p \in contained' \/ moved' # {}
    /\ \A p \in Pid : Used(p) /\ p \in contained' => p \in contained \/ moved' # {}
    /\ \A p \in linked' : ppid'[p] = ppid[p]

\* A new process, forked by p in or outside of the container, or started in the
\* container from outside, where its parent is PID 1.
LEMMA NewProcessStep ==
    ASSUME CpTypeOK, Tree, Links, NEW p \in Others, NEW q \in Others,
           TreeFork(p, q) \/ TreeEnter(p, q), UNCHANGED walkVars,
           met' \subseteq Pid
    PROVE  CpTypeOK' /\ Tree' /\ Links' /\ Onward
<1> USE DEF CpTypeOK, ProcTypeOK
<1>1. PICK r \in Pid :
          /\ Fork(p, q) /\ proc[r].st = "run" /\ (r = p \/ r = 1)
          /\ ppid' = [ppid EXCEPT ![q] = r]
          /\ contained' \in {contained \cup {q}, contained \ {q}}
          /\ r \in contained => q \in contained'
          /\ UNCHANGED linked
  BY PidFacts DEF TreeFork, TreeEnter, Fork, HasCmdline, Tree, Lasting, Others
<1>2. p \in Pid /\ q \in Pid /\ proc[q].st = "free" /\ q # r /\ linked' = linked
  BY <1>1 DEF Others, Fork, TreeFork, TreeEnter
<1>3. /\ proc' \in [Pid -> Process] /\ events' \in Nat
      /\ fresh' \subseteq Pid /\ moved' \subseteq Pid
      /\ moved \subseteq moved' /\ (proc[q].gen > 0 => q \in moved')
      /\ proc'[q].st = "run" /\ proc'[q].gen = proc[q].gen
      /\ \A x \in Pid \ {q} : proc'[x] = proc[x]
  BY <1>1, <1>2 DEF Fork, Happens, Process
<1>4. \A x \in Pid : ppid[x] # q
  BY <1>2 DEF Tree
<1>5. /\ ppid' \in [Pid -> Pid \cup {NoParent}]
      /\ ppid'[q] = r /\ \A x \in Pid \ {q} : ppid'[x] = ppid[x]
      /\ q \notin Lasting /\ q \notin linked
  BY <1>1, <1>2 DEF Tree, Links, Listed
<1>6. q \in contained => proc[q].gen > 0
  BY <1>2 DEF Tree, Used
<1>7. Tree'
  <2>1. r # q /\ proc'[r].st = "run" /\ r \in Pid
    BY <1>1, <1>2, <1>3
  <2>2. 1 \notin contained' /\ CInit \in contained'
    BY <1>1, <1>5 DEF Tree, Lasting
  <2>3. \A x \in Pid : ppid'[x] \in contained' => x \in contained'
    BY <1>1, <1>2, <1>4, <1>5 DEF Tree
  <2>4. \A x \in contained' : Used(x)'
    BY <1>1, <1>3 DEF Tree, Used
  <2>5. \A x \in Pid : ppid'[x] \in Pid => ppid'[x] # x /\ proc'[ppid'[x]].st = "run"
    BY <1>3, <1>4, <1>5, <2>1 DEF Tree
  <2>6. ppid'[1] = NoParent /\ ppid'[CInit] = 1 /\ \A x \in Lasting : proc'[x].st = "run"
    BY <1>3, <1>5, PidFacts DEF Tree, Lasting
  <2>7. QED
    BY <2>2, <2>3, <2>4, <2>5, <2>6 DEF Tree
<1>8. linked \subseteq Descendants(ppid', CInit)
  <2> SUFFICES ASSUME NEW x \in linked, NEW S, IsLine(ppid', S), x \in S PROVE CInit \in S
    BY <1>5, DescendantsAre, PidFacts
  <2>1. IsLine(ppid, S \ {q})
    BY <1>4, <1>5 DEF IsLine
  <2>2. QED
    BY <1>5, <2>1, DescendantsAre, PidFacts DEF Links
<1>9. Links'
  BY <1>2, <1>3, <1>5, <1>8 DEF Links, Listed
<1>10. Onward
  <2>1. \A x \in Pid : proc[x].gen <= proc'[x].gen
    BY <1>3 DEF Process
  <2>2. \A x \in Pid : Used(x) => Used(x)'
    BY <1>3 DEF Used
  <2>3. \A x \in Pid : x # q => (x \in contained' <=> x \in contained)
    BY <1>1
  <2>4. Used(q) => moved' # {}
    BY <1>2, <1>3 DEF Used
  <2>5. QED
    BY <1>2, <1>3, <1>5, <2>1, <2>2, <2>3, <2>4 DEF Onward
<1>11. CpTypeOK'
  <2>1. contained' \subseteq Pid /\ linked' \subseteq Pid
    BY <1>1, <1>2
  <2>2. QED
    BY <1>3, <1>5, <2>1 DEF walkVars
<1>12. QED
  BY <1>7, <1>9, <1>10, <1>11

\* An exit: the children of p get another parent, and the links through p are
\* broken.
LEMMA ExitStep ==
    ASSUME CpTypeOK, Tree, Links, NEW p \in Others, TreeExit(p), UNCHANGED walkVars,
           met' \subseteq Pid
    PROVE  CpTypeOK' /\ Tree' /\ Links' /\ Onward
<1> USE DEF CpTypeOK, ProcTypeOK
<1> DEFINE Lost == Descendants(ppid, p) \ {p}
<1>1. /\ p \in Pid /\ p \notin Lasting /\ Exit(p) /\ proc[p].st = "run"
      /\ ppid' = [q \in Pid |-> IF ppid[q] = p THEN Reaper(q) ELSE ppid[q]]
      /\ linked' = linked \ Lost /\ contained' = contained
  BY DEF TreeExit, Exit, Others
<1>2. /\ proc' \in [Pid -> Process] /\ events' \in Nat /\ fresh' = fresh /\ moved' = moved
      /\ proc'[p].st = "zombie" /\ proc'[p].gen = proc[p].gen
      /\ \A x \in Pid \ {p} : proc'[x] = proc[x]
  <2>1. HostNs \in Ns
    BY ProcAssumption
  <2>2. QED
    BY <1>1, <2>1 DEF Exit, Happens, Process
<1>3. /\ \A q \in Pid : Reaper(q) \in Lasting \ {p}
      /\ Lasting \subseteq Pid
  BY <1>1, PidFacts DEF Reaper, Lasting
<1>4. /\ ppid' \in [Pid -> Pid \cup {NoParent}]
      /\ \A x \in Pid : ppid[x] = p => ppid'[x] = Reaper(x)
      /\ \A x \in Pid : ppid[x] # p => ppid'[x] = ppid[x]
  BY <1>1, <1>3
<1>5. Tree'
  <2>1. ppid'[1] = NoParent /\ ppid'[CInit] = 1 /\ \A x \in Lasting : proc'[x].st = "run"
    BY <1>1, <1>2, <1>4, PidFacts DEF Tree, Lasting
  <2>2. ASSUME NEW x \in Pid, ppid'[x] \in Pid
        PROVE  ppid'[x] # x /\ proc'[ppid'[x]].st = "run"
    <3>1. CASE ppid[x] = p
      <4>1. x \notin Lasting
        BY <1>1, <3>1, PidFacts DEF Tree, Lasting
      <4>2. QED
        BY <1>3, <1>4, <2>1, <3>1, <4>1
    <3>2. CASE ppid[x] # p
      BY <1>2, <1>4, <2>2, <3>2 DEF Tree
    <3>3. QED
      BY <3>1, <3>2
  <2>3. \A x \in Pid : ppid'[x] \in contained' => x \in contained'
    BY <1>1, <1>4 DEF Tree, Reaper
  <2>4. \A x \in contained' : Used(x)'
    BY <1>1, <1>2 DEF Tree, Used
  <2>5. QED
    BY <1>1, <2>1, <2>2, <2>3, <2>4 DEF Tree
<1>6. CInit \notin Descendants(ppid, p)
  <2>1. IsLine(ppid, {1, CInit})
    BY PidFacts DEF IsLine, Tree
  <2>2. QED
    BY <1>1, <2>1, DescendantsAre, PidFacts DEF Lasting
<1>7. ASSUME NEW x \in linked'
      PROVE  ppid'[x] = ppid[x] /\ x \in linked /\ ppid[x] \notin Lost
  <2>1. x \in Pid /\ x \in linked /\ (x \in Descendants(ppid, p) => x = p)
    BY <1>1
  <2>2. ppid[x] # p
    BY <1>1, <2>1, ChildIsBelow, DescendantsAre DEF Tree
  <2>3. ppid[x] \notin Lost
    <3>1. CASE x = p
      BY <1>1, <1>6, <2>1, <3>1, NoCycle, PidFacts DEF Links
    <3>2. CASE x # p
      BY <1>1, <2>1, <3>2, ChildIsBelow
    <3>3. QED
      BY <3>1, <3>2
  <2>4. QED
    BY <1>4, <2>1, <2>2, <2>3
<1>8. linked' \subseteq Descendants(ppid', CInit)
  <2>0. CInit \in DOMAIN ppid' /\ DOMAIN ppid' = Pid /\ linked' \subseteq Pid
    BY <1>1, <1>4, PidFacts
  <2> SUFFICES ASSUME NEW x \in linked' PROVE x \in Descendants(ppid', CInit)
    OBVIOUS
  <2> SUFFICES ASSUME NEW S, IsLine(ppid', S), x \in S PROVE CInit \in S
    BY <2>0, DescendantsAre
  <2>1. x \in Pid /\ x \in linked /\ x \notin Lost
    BY <1>1
  <2> DEFINE T == IF x = p THEN S \ Lost ELSE S \ Descendants(ppid, p)
  <2>2. T \subseteq S /\ x \in T /\ T \cap Lost = {} /\ S \subseteq Pid
    BY <1>4, <2>1 DEF IsLine
  <2>3. IsLine(ppid, T)
    <3> SUFFICES ASSUME NEW y \in T, ppid[y] \in Pid PROVE ppid[y] \in T
      BY <1>4, <2>2 DEF IsLine
    <3>1. y \in Pid /\ y \in S /\ y \notin Lost /\ (y = p => x = p)
      BY <1>1, <2>2, DescendantsAre
    <3>2. ppid[y] \notin Lost
      <4>1. CASE y = p
        BY <1>1, <1>6, <3>1, <4>1, NoCycle, PidFacts DEF Links
      <4>2. CASE y # p
        BY <1>1, <3>1, <4>2, ChildIsBelow
      <4>3. QED
        BY <4>1, <4>2
    <3>3. ppid[y] # p
      BY <1>1, <3>1, ChildIsBelow, DescendantsAre DEF Tree
    <3>4. ppid[y] \in S
      BY <1>4, <3>1, <3>3 DEF IsLine
    <3>5. QED
      BY <3>2, <3>3, <3>4
  <2>4. CInit \in T
    BY <2>1, <2>2, <2>3, DescendantsAre, PidFacts DEF Links
  <2>5. QED
    BY <2>2, <2>4
<1>9. Links'
  <2>1. CInit \in linked' /\ 1 \notin linked'
    BY <1>1, <1>6 DEF Links
  <2>2. \A x \in Pid : Listed(x) => Listed(x)'
    BY <1>2 DEF Listed
  <2>3. \A x \in linked' : Listed(x)' /\ (x # CInit => ppid'[x] \in linked')
    BY <1>1, <1>7, <2>2 DEF Links
  <2>4. QED
    BY <1>8, <2>1, <2>3 DEF Links
<1>10. Onward
  <2>1. \A x \in Pid : proc[x].gen <= proc'[x].gen
    BY <1>2 DEF Process
  <2>2. \A x \in Pid : Used(x) => Used(x)'
    BY <1>2 DEF Used
  <2>3. QED
    BY <1>1, <1>2, <1>7, <2>1, <2>2 DEF Onward
<1>11. CpTypeOK'
  BY <1>1, <1>2, <1>4 DEF walkVars
<1>12. QED
  BY <1>5, <1>9, <1>10, <1>11

\* A zombie is reaped: it has no children.
LEMMA ReapStep ==
    ASSUME CpTypeOK, Tree, Links, NEW p \in Others, TreeReap(p), UNCHANGED walkVars,
           met' \subseteq Pid
    PROVE  CpTypeOK' /\ Tree' /\ Links' /\ Onward
<1> USE DEF CpTypeOK, ProcTypeOK
<1>1. /\ p \in Pid /\ Reap(p) /\ proc[p].st = "zombie" /\ p \notin Lasting
      /\ ppid' = [ppid EXCEPT ![p] = NoParent]
      /\ linked' = linked \ {p} /\ contained' = contained
  BY DEF TreeReap, Reap, Others, Tree
<1>2. /\ proc' \in [Pid -> Process] /\ events' \in Nat /\ fresh' = fresh /\ moved' = moved
      /\ proc'[p].st = "free" /\ proc'[p].gen = proc[p].gen + 1
      /\ \A x \in Pid \ {p} : proc'[x] = proc[x]
  <2>1. HostNs \in Ns
    BY ProcAssumption
  <2>2. QED
    BY <1>1, <2>1 DEF Reap, Happens, Process
<1>3. /\ ppid' \in [Pid -> Pid \cup {NoParent}]
      /\ ppid'[p] = NoParent /\ \A x \in Pid \ {p} : ppid'[x] = ppid[x]
      /\ \A x \in Pid : ppid[x] # p
  BY <1>1 DEF Tree
<1>4. Tree'
  <2>1. ppid'[1] = NoParent /\ ppid'[CInit] = 1 /\ \A x \in Lasting : proc'[x].st = "run"
    BY <1>1, <1>2, <1>3, PidFacts DEF Tree, Lasting
  <2>2. \A x \in Pid : ppid'[x] \in Pid => ppid'[x] # x /\ proc'[ppid'[x]].st = "run"
    <3> SUFFICES ASSUME NEW x \in Pid, ppid'[x] \in Pid
                 PROVE  ppid'[x] # x /\ proc'[ppid'[x]].st = "run"
      OBVIOUS
    <3>1. x # p /\ ppid'[x] = ppid[x] /\ ppid[x] # p
      BY <1>3, PidFacts
    <3>2. QED
      BY <1>2, <3>1 DEF Tree
  <2>3. \A x \in Pid : ppid'[x] \in contained' => x \in contained'
    BY <1>1, <1>3, PidFacts DEF Tree
  <2>4. \A x \in contained' : Used(x)'
    BY <1>1, <1>2 DEF Tree, Used, Process
  <2>5. QED
    BY <1>1, <2>1, <2>2, <2>3, <2>4 DEF Tree
<1>5. linked' \subseteq Descendants(ppid', CInit)
  <2>0. CInit \in DOMAIN ppid' /\ DOMAIN ppid' = Pid /\ linked' \subseteq Pid
    BY <1>1, <1>3, PidFacts
  <2> SUFFICES ASSUME NEW x \in linked' PROVE x \in Descendants(ppid', CInit)
    OBVIOUS
  <2> SUFFICES ASSUME NEW S, IsLine(ppid', S), x \in S PROVE CInit \in S
    BY <2>0, DescendantsAre
  <2>1. IsLine(ppid, S \ {p})
    BY <1>3 DEF IsLine
  <2>2. QED
    BY <1>1, <2>1, DescendantsAre, PidFacts DEF Links
<1>6. Links'
  <2>1. CInit \in linked' /\ 1 \notin linked'
    BY <1>1 DEF Links, Lasting
  <2>2. \A x \in linked' : Listed(x)' /\ (x # CInit => ppid'[x] \in linked')
    BY <1>1, <1>2, <1>3 DEF Links, Listed
  <2>3. QED
    BY <1>5, <2>1, <2>2 DEF Links
<1>7. Onward
  <2>1. \A x \in Pid : proc[x].gen <= proc'[x].gen
    BY <1>2 DEF Process
  <2>2. \A x \in Pid : Used(x) => Used(x)'
    BY <1>2 DEF Used, Process
  <2>3. \A x \in linked' : ppid'[x] = ppid[x]
    BY <1>1, <1>3
  <2>4. QED
    BY <1>1, <1>2, <2>1, <2>2, <2>3 DEF Onward
<1>8. CpTypeOK'
  BY <1>1, <1>2, <1>3 DEF walkVars
<1>9. QED
  BY <1>4, <1>6, <1>7, <1>8

\* What the other processes do leaves the climb in order.
LEMMA WorldStep == CpInv /\ World => CpInv' /\ Onward
<1> SUFFICES ASSUME CpInv, TreeNext, UNCHANGED walkVars, met' \subseteq Pid
             PROVE  CpInv' /\ Onward
  BY DEF World, CpInv, CpTypeOK
<1>1. CpTypeOK' /\ Tree' /\ Links' /\ Onward
  BY NewProcessStep, ExitStep, ReapStep DEF TreeNext, CpInv
<1>2. /\ all_pids \subseteq Pid /\ container_pids \subseteq Pid
      /\ contained \subseteq Pid /\ contained' \subseteq Pid /\ linked' \subseteq linked
      /\ current \in Pid \cup {NoParent} /\ stat_gen \in Nat
      /\ \A p \in Pid : proc[p].gen \in Nat /\ proc'[p].gen \in Nat
  BY <1>1 DEF CpInv, CpTypeOK, ProcTypeOK, Process, Onward
<1>3. \A p \in all_pids \cup container_pids : Used(p) /\ Used(p)'
  BY <1>1, <1>2 DEF CpInv, Climb, Onward
<1>4. current # NoParent => Used(current) /\ Used(current)'
  <2>1. current # NoParent => current \in Pid /\ Used(current)
    BY <1>2 DEF CpInv, Climb
  <2>2. current' = current
    BY DEF walkVars
  <2>3. current \in Pid /\ Used(current) => (proc'[current].st = "free" => proc'[current].gen > 0)
    BY <1>1 DEF Onward, Used
  <2>4. QED
    BY <2>1, <2>2, <2>3 DEF Used
<1>5. moved' = {} => moved = {}
  BY <1>1 DEF Onward
<1>6. Climb'
  <2>1. ASSUME walk \in {"open_stat", "read_stat"}, moved' = {},
               NEW p \in all_pids, Least(all_pids, p), current \in contained'
        PROVE  p \in contained'
    <3>1. current \in contained
      BY <1>1, <1>2, <1>4, <2>1, PidFacts DEF Onward
    <3>2. p \in contained
      BY <1>5, <2>1, <3>1 DEF CpInv, Climb
    <3>3. QED
      BY <1>1, <1>2, <1>3, <2>1, <3>2 DEF Onward
  <2>2. walk = "read_stat" => current \in Pid /\ stat_gen <= proc'[current].gen
    BY <1>1, <1>2 DEF CpInv, Climb, Onward
  <2>3. QED
    BY <1>1, <1>2, <1>3, <1>4, <2>1, <2>2 DEF CpInv, Climb, walkVars, Least
<1>7. Accounted'
  <2>1. ASSUME NEW p \in linked', Meets(p, current) PROVE Meets(p, current)'
    <3> SUFFICES ASSUME NEW T \in SUBSET linked', p \in T,
                        \A r \in T \ {CInit} : ppid'[r] \in T
                 PROVE  current \in T
      BY DEF Meets, walkVars
    <3>1. T \in SUBSET linked /\ \A r \in T \ {CInit} : ppid[r] \in T
      BY <1>1, <1>2 DEF Onward
    <3>2. QED
      BY <2>1, <3>1 DEF Meets
  <2>2. \A p \in linked' : p \in (unlisted \cup all_pids \cup container_pids)'
    BY <1>2 DEF CpInv, Accounted, walkVars
  <2>3. QED
    BY <1>2, <2>1, <2>2 DEF CpInv, Accounted, walkVars, Least
<1>8. OnlyContainerPids'
  BY <1>1, <1>2, <1>3 DEF CpInv, OnlyContainerPids, Onward, walkVars
<1>9. QED
  BY <1>1, <1>6, <1>7, <1>8 DEF CpInv

(***************************************************************************)
(* The steps of get_container_pids.                                        *)
(***************************************************************************)
LEMMA WalkFacts ==
    ASSUME CpInv
    PROVE  /\ all_pids \subseteq Pid /\ unlisted \subseteq Pid /\ container_pids \subseteq Pid
           /\ linked \subseteq Pid /\ contained \subseteq Pid
           /\ \A p \in Pid : p \in Nat
           /\ \A p \in Pid : Listed(p) => Used(p)
           /\ \A p \in Pid : proc[p].gen \in Nat
           /\ \A p \in Pid : ppid[p] \in Pid \cup {NoParent}
           /\ \A p, q \in Pid : Least(all_pids, p) /\ Least(all_pids, q) => p = q
           /\ \A p : Meets(p, current) /\ p \in linked => current \in linked
<1> USE DEF CpInv, CpTypeOK, ProcTypeOK, Process
<1>1. \A p \in Pid : p \in Nat
  BY PidFacts
<1>2. \A p, q \in Pid : Least(all_pids, p) /\ Least(all_pids, q) => p = q
  <2>1. \A p, q \in Nat : p <= q /\ q <= p => p = q
    OBVIOUS
  <2>2. QED
    BY <1>1, <2>1 DEF Least
<1>3. \A p : Meets(p, current) /\ p \in linked => current \in linked
  BY DEF Meets, Links
<1>4. QED
  BY <1>1, <1>2, <1>3 DEF Listed, Used

LEMMA ListStep ==
    ASSUME CpInv, ListPid, UNCHANGED <<procVars, treeVars>>,
           met' \subseteq Pid
    PROVE  CpInv'
<1>1. PICK p \in unlisted :
          /\ unlisted' = unlisted \ {p}
          /\ all_pids' = IF Listed(p) THEN all_pids \cup {p} ELSE all_pids
  BY DEF ListPid
<1>2. /\ p \in Pid /\ proc' = proc /\ ppid' = ppid /\ linked' = linked /\ moved' = moved
      /\ container_pids' = container_pids /\ contained' = contained /\ current' = current
  BY <1>1, WalkFacts DEF ListPid, procVars, treeVars
<1>3. CpTypeOK' /\ Tree' /\ Links'
  BY <1>1, <1>2 DEF CpInv, CpTypeOK, ProcTypeOK, procVars, treeVars, Tree, Links, Used, Listed,
     ListPid
<1>4. Climb'
  <2>1. \A q \in all_pids' \cup container_pids' : Used(q)'
    <3>1. \A q : Used(q)' <=> Used(q)
      BY <1>2 DEF Used
    <3>2. \A q \in all_pids' \cup container_pids' : Used(q)
      BY <1>1, <1>2, WalkFacts DEF CpInv, Climb
    <3>3. QED
      BY <3>1, <3>2
  <2>2. QED
    BY <1>2, <2>1 DEF CpInv, Climb, Used, ListPid
<1>5. Accounted'
  BY <1>1, <1>2 DEF CpInv, Accounted, Links, Listed, ListPid
<1>6. QED
  BY <1>2, <1>3, <1>4, <1>5 DEF CpInv, OnlyContainerPids

LEMMA StartStep ==
    ASSUME CpInv, NEW p \in Pid, StartAt(p), UNCHANGED <<procVars, treeVars>>,
           met' \subseteq Pid
    PROVE  CpInv'
<1>1. /\ proc' = proc /\ ppid' = ppid /\ linked' = linked /\ moved' = moved
      /\ container_pids' = container_pids /\ contained' = contained /\ current' = p
      /\ all_pids' = all_pids /\ unlisted' = unlisted /\ walk' = "open_stat" /\ walk = "next"
      /\ stat_gen' = stat_gen /\ p \in all_pids /\ Least(all_pids, p)
  BY DEF StartAt, procVars, treeVars, Least
<1>2. CpTypeOK' /\ Tree' /\ Links'
  BY <1>1 DEF CpInv, CpTypeOK, ProcTypeOK, procVars, treeVars, Tree, Links, Used, Listed
<1>3. Climb'
  <2>1. \A q \in all_pids : Least(all_pids, q) => q = p
    BY <1>1, WalkFacts
  <2>2. QED
    BY <1>1, <2>1 DEF CpInv, Climb, Used, Least
<1>4. Accounted'
  <2>1. \A q \in all_pids : Least(all_pids, q) => q = p
    BY <1>1, WalkFacts
  <2>2. Meets(p, p)'
    BY DEF Meets
  <2>3. QED
    BY <1>1, <2>1, <2>2 DEF CpInv, Accounted, Least, Climb
<1>5. QED
  BY <1>1, <1>2, <1>3, <1>4 DEF CpInv, OnlyContainerPids

\* The call ends.
LEMMA EndStep ==
    ASSUME CpInv, ListDone \/ FailOnStat, UNCHANGED <<procVars, treeVars>>,
           met' \subseteq Pid
    PROVE  CpInv'
<1>1. /\ proc' = proc /\ ppid' = ppid /\ linked' = linked /\ moved' = moved
      /\ container_pids' = container_pids /\ contained' = contained /\ current' = current
      /\ all_pids' = all_pids /\ unlisted' = unlisted /\ walk # "readdir"
      /\ stat_gen' = stat_gen /\ walk' \in {"done", "err"}
      /\ walk' = "done" => all_pids = {}
  BY DEF ListDone, FailOnStat, procVars, treeVars
<1>2. CpTypeOK' /\ Tree' /\ Links'
  BY <1>1 DEF CpInv, CpTypeOK, ProcTypeOK, procVars, treeVars, Tree, Links, Used, Listed
<1>3. Climb' /\ Accounted' /\ OnlyContainerPids'
  BY <1>1 DEF CpInv, Climb, Accounted, Used, OnlyContainerPids
<1>4. QED
  BY <1>2, <1>3 DEF CpInv

\* The loop is left for p: it is in the result, or no linked process.
LEMMA LeaveStep ==
    ASSUME CpInv, NEW p \in Pid, LeaveLoop(p), walk # "readdir", walk # "done",
           UNCHANGED <<procVars, treeVars, unlisted, stat_gen>>, met' \subseteq Pid,
           container_pids' \in {container_pids, container_pids \cup {p}},
           p \in container_pids' \/ p \notin linked,
           p \in container_pids' => p \in container_pids \/ (p \in all_pids /\ (p \in contained \/ moved # {}))
    PROVE  CpInv'
<1>1. /\ proc' = proc /\ ppid' = ppid /\ linked' = linked /\ moved' = moved
      /\ contained' = contained /\ current' = NoParent /\ all_pids' = all_pids \ {p}
      /\ unlisted' = unlisted /\ walk' = "next" /\ stat_gen' = stat_gen
  BY DEF LeaveLoop, procVars, treeVars
<1>2. CpTypeOK' /\ Tree' /\ Links'
  BY <1>1 DEF CpInv, CpTypeOK, ProcTypeOK, procVars, treeVars, Tree, Links, Used, Listed
<1>3. Climb'
  BY <1>1 DEF CpInv, Climb, Used
<1>4. Accounted'
  BY <1>1 DEF CpInv, Accounted
<1>5. OnlyContainerPids'
  BY <1>1 DEF CpInv, OnlyContainerPids
<1>6. QED
  BY <1>2, <1>3, <1>4, <1>5 DEF CpInv

LEMMA OpenStep ==
    ASSUME CpInv, NEW p \in Pid, OpenStat(p), UNCHANGED <<procVars, treeVars>>,
           met' \subseteq Pid
    PROVE  CpInv'
<1>1. Least(all_pids, p) /\ p \in all_pids /\ walk = "open_stat"
      /\ unlisted' = unlisted /\ container_pids' = container_pids
  BY DEF OpenStat, Least
<1>2. CASE current > 1 /\ Listed(current)
  <2>1. /\ proc' = proc /\ ppid' = ppid /\ linked' = linked /\ moved' = moved
        /\ contained' = contained /\ current' = current /\ all_pids' = all_pids
        /\ walk' = "read_stat" /\ stat_gen' = proc[current].gen
    BY <1>2 DEF OpenStat, procVars, treeVars
  <2>2. current \in Pid
    BY <1>1, <1>2 DEF CpInv, Climb, NoParent
  <2>3. stat_gen' \in Nat /\ stat_gen' <= proc[current].gen
    BY <2>1, <2>2, WalkFacts
  <2>4. CpTypeOK' /\ Tree' /\ Links'
    BY <1>1, <2>1, <2>3 DEF CpInv, CpTypeOK, ProcTypeOK, procVars, treeVars, Tree, Links, Used,
       Listed
  <2>5. Climb'
    BY <1>1, <2>1, <2>2, <2>3 DEF CpInv, Climb, Used, Least
  <2>6. Accounted'
    BY <1>1, <2>1 DEF CpInv, Accounted, Meets, Least
  <2>7. QED
    BY <1>1, <2>1, <2>4, <2>5, <2>6 DEF CpInv, OnlyContainerPids
<1>3. CASE ~(current > 1 /\ Listed(current))
  <2>1. LeaveLoop(p) /\ stat_gen' = stat_gen
    BY <1>3 DEF OpenStat
  <2>2. p \in linked => p \in container_pids
    <3> SUFFICES ASSUME p \in linked, p \notin container_pids PROVE FALSE
      OBVIOUS
    <3>1. current \in linked
      BY <1>1, WalkFacts DEF CpInv, Accounted
    <3>2. current \in Pid /\ current # 1 /\ Listed(current)
      BY <3>1, WalkFacts DEF CpInv, Links
    <3>3. QED
      BY <1>3, <3>2, PidFacts
  <2>3. QED
    BY <1>1, <2>1, <2>2, LeaveStep
<1>4. QED
  BY <1>2, <1>3

LEMMA ReadStep ==
    ASSUME CpInv, NEW p \in Pid, ReadStat(p), UNCHANGED <<procVars, treeVars>>,
           met' \subseteq Pid
    PROVE  CpInv'
<1>1. Least(all_pids, p) /\ p \in all_pids /\ walk = "read_stat" /\ current \in Pid
      /\ unlisted' = unlisted /\ stat_gen' = stat_gen
  BY DEF ReadStat, Least, CpInv, Climb
<1>2. moved = {} /\ current \in contained => p \in contained
  BY <1>1 DEF CpInv, Climb
<1>3. CASE ppid[current] = CInit
  <2>1. LeaveLoop(p) /\ container_pids' = container_pids \cup {p}
    BY <1>3 DEF ReadStat
  <2>2. p \in contained \/ moved # {}
    BY <1>1, <1>2, <1>3, PidFacts DEF CpInv, Tree
  <2>3. QED
    BY <1>1, <2>1, <2>2, LeaveStep
<1>4. CASE ppid[current] # CInit
  <2>1. /\ proc' = proc /\ ppid' = ppid /\ linked' = linked /\ moved' = moved
        /\ contained' = contained /\ current' = ppid[current] /\ all_pids' = all_pids
        /\ walk' = "open_stat" /\ container_pids' = container_pids
    BY <1>4 DEF ReadStat, procVars, treeVars
  <2>2. current' \in Pid \cup {NoParent}
    BY <1>1, <2>1, WalkFacts
  <2>3. CpTypeOK' /\ Tree' /\ Links'
    BY <1>1, <2>1, <2>2 DEF CpInv, CpTypeOK, ProcTypeOK, procVars, treeVars, Tree, Links, Used,
       Listed
  <2>4. Climb'
    <3>1. current' # NoParent => Used(current')
      BY <1>1, <2>1, <2>2 DEF CpInv, Tree, Used
    <3>2. \A q \in all_pids : Least(all_pids, q) => q = p
      BY <1>1, WalkFacts
    <3>3. moved = {} /\ current' \in contained => p \in contained
      BY <1>1, <1>2, <2>1 DEF CpInv, Tree
    <3>4. QED
      BY <1>1, <2>1, <2>2, <3>1, <3>2, <3>3 DEF CpInv, Climb, Used, Least
  <2>5. Accounted'
    <3>1. ASSUME p \in linked, p \notin container_pids
          PROVE  Meets(p, current)'
      BY <1>1, <2>1, <3>1 DEF CpInv, Accounted, Meets
    <3>2. \A q \in all_pids : Least(all_pids, q) => q = p
      BY <1>1, WalkFacts
    <3>3. QED
      BY <1>1, <1>4, <2>1, <3>1, <3>2 DEF CpInv, Accounted, Least
  <2>6. QED
    BY <1>1, <2>1, <2>3, <2>4, <2>5 DEF CpInv, OnlyContainerPids
<1>5. QED
  BY <1>3, <1>4

LEMMA CpInvNext == CpInv /\ [CpNext]_cpVars => CpInv'
<1> SUFFICES ASSUME CpInv, [CpNext]_cpVars PROVE CpInv'
  OBVIOUS
<1>1. CASE Walk
  <2>1. met' \subseteq Pid
    BY <1>1 DEF Walk, CpInv, CpTypeOK, Climb
  <2>2. QED
    BY <1>1, <2>1, ListStep, StartStep, EndStep, OpenStep, ReadStep DEF Walk, WalkNext
<1>2. CASE World
  BY <1>2, WorldStep
<1>3. CASE UNCHANGED cpVars
  BY <1>3 DEF cpVars, procVars, treeVars, walkVars, CpInv, CpTypeOK, ProcTypeOK, Tree, Links,
     Climb, Accounted, Meets, OnlyContainerPids, Used, Listed, Least
<1>4. QED
  BY <1>1, <1>2, <1>3 DEF CpNext

(***************************************************************************)
(* The theorems.                                                           *)
(***************************************************************************)
\* The invariant holds in every state of get_container_pids.
THEOREM ContainerPidsInvariant == CpSpec => []CpInv
BY CpInvInit, CpInvNext, PTL DEF CpSpec

\* The variables keep their types: the climb of get_container_pids never
\* leaves the PIDs of /proc and the 0 of a process without a parent.
THEOREM ContainerPidsTyped == CpSpec => []CpTypeOK
<1>1. CpInv => CpTypeOK
  BY DEF CpInv
<1>2. QED
  BY <1>1, ContainerPidsInvariant, PTL

\* get_container_pids takes a process from outside for one of the container
\* only if a PID was reused, however many processes come and go.
THEOREM OnlyOwnPids == CpSpec => []OnlyContainerPids
<1>1. CpInv => OnlyContainerPids
  BY DEF CpInv
<1>2. QED
  BY <1>1, ContainerPidsInvariant, PTL

LEMMA LinkedAreCounted == CpInv => AllContainerPids
<1> SUFFICES ASSUME CpInv, walk = "done", NEW p \in linked PROVE p \in container_pids
  BY DEF AllContainerPids
<1>1. unlisted = {} /\ all_pids = {}
  BY DEF CpInv, Climb
<1>2. QED
  BY <1>1 DEF CpInv, Accounted

\* get_container_pids returns every process that was below the container's
\* init throughout, by parents none of which was replaced.
THEOREM NoContainerPidMissed == CpSpec => []AllContainerPids
BY LinkedAreCounted, ContainerPidsInvariant, PTL

(***************************************************************************)
(* Progress.  No process is its own ancestor at any moment, and what lies  *)
(* ahead of a climb is a line of processes it has not met, also when the   *)
(* exit of a parent puts PID 1 or the container's init in its place.       *)
(***************************************************************************)
Acyclic ==
    \A p \in Pid : ppid[p] \in Pid =>
        \E S : IsLine(ppid, S) /\ ppid[p] \in S /\ p \notin S

Ahead == \E S : IsLine(ppid, S) /\ (current \in Pid => current \in S) /\ S \cap met = {}

Climbing == walk \in {"open_stat", "read_stat"}

Progress ==
    /\ Acyclic
    /\ walk = "read_stat" => current # 1
    /\ Climbing =>
        /\ Ahead
        /\ 1 \notin met
        /\ CInit \in met => current \in {1, NoParent}
        /\ \A q \in met : Used(q)

LEMMA ProgressInit == CpInit => Progress
<1> SUFFICES ASSUME CpInit PROVE Progress
  OBVIOUS
<1>1. CpTypeOK /\ Tree /\ walk = "readdir"
  BY InitTyped, InitTree DEF CpInit, WalkInit
<1>2. DOMAIN ppid = Pid
  BY <1>1 DEF CpTypeOK
<1>3. \A q \in Pid : ppid[q] \in Pid => ppid[q] < q
  <2>1. PICK parent \in [Others \ Lasting -> Others \cup {NoParent}] :
            ppid = [p \in Pid |-> IF p \in DOMAIN parent THEN parent[p]
                                  ELSE IF p \in {Self, CInit} THEN 1 ELSE NoParent]
    BY DEF CpInit, TreeInit
  <2>2. \A q \in Pid \ (Others \ Lasting) : ppid[q] \in Pid => q \in {Self, CInit} /\ ppid[q] = 1
    BY <2>1, PidFacts
  <2>3. \A q \in {Self, CInit} : 1 < q
    BY PidFacts, ProcAssumption DEF Others
  <2>4. \A q \in Others \ Lasting : ppid[q] \in Pid => ppid[q] < q
    BY PidFacts DEF CpInit, TreeInit
  <2>5. QED
    BY <2>2, <2>3, <2>4
<1>4. ASSUME NEW p \in Pid, ppid[p] \in Pid
      PROVE  \E S : IsLine(ppid, S) /\ ppid[p] \in S /\ p \notin S
  <2> DEFINE S == {q \in Pid : q < p}
  <2>1. IsLine(ppid, S)
    <3>1. \A q \in S : ppid[q] \in Pid => q \in Nat /\ p \in Nat /\ ppid[q] \in Nat /\ ppid[q] < q
      BY <1>3, PidFacts
    <3>2. \A q \in S : ppid[q] \in Pid => ppid[q] < p
      BY <3>1
    <3>3. QED
      BY <1>2, <3>2 DEF IsLine
  <2>2. ppid[p] \in S /\ p \notin S
    BY <1>3, <1>4, PidFacts
  <2>3. QED
    BY <2>1, <2>2
<1>5. QED
  BY <1>1, <1>4 DEF Progress, Acyclic, Climbing

\* A new process is nobody's ancestor, and one that gets a PID for the first
\* time is not on the climb.
LEMMA NewProcessProgress ==
    ASSUME CpInv, Progress, CpInv', Onward, NEW p \in Others, NEW q \in Others,
           TreeFork(p, q) \/ TreeEnter(p, q), UNCHANGED walkVars,
           met' = IF ReusesPid THEN {} ELSE met
    PROVE  Progress'
<1> USE DEF CpInv, CpTypeOK, ProcTypeOK
<1>1. PICK r \in Pid : ppid' = [ppid EXCEPT ![q] = r] /\ r # q
  BY PidFacts DEF TreeFork, TreeEnter, Fork, HasCmdline, Tree, Lasting, Others
<1>2. /\ p \in Pid /\ q \in Pid /\ proc[q].st = "free" /\ proc'[q].st = "run"
      /\ UNCHANGED <<walk, current>>
  BY DEF Others, TreeFork, TreeEnter, Fork, Process, walkVars
<1>3. /\ ppid'[q] = r /\ \A x \in Pid \ {q} : ppid'[x] = ppid[x]
      /\ \A x \in Pid : ppid[x] # q /\ ppid'[x] # q
      /\ DOMAIN ppid = Pid /\ DOMAIN ppid' = Pid
  BY <1>1, <1>2 DEF Tree
<1>4. \A S : IsLine(ppid, S) => IsLine(ppid', S \ {q})
  BY <1>3 DEF IsLine
<1>5. IsLine(ppid', Pid \ {q}) /\ IsLine(ppid', Pid)
  BY <1>1, <1>3 DEF IsLine
<1>6. Acyclic'
  <2> SUFFICES ASSUME NEW x \in Pid, ppid'[x] \in Pid
               PROVE  \E S : IsLine(ppid', S) /\ ppid'[x] \in S /\ x \notin S
    BY DEF Acyclic
  <2>1. CASE x = q
    BY <1>1, <1>3, <1>5, <2>1
  <2>2. CASE x # q
    <3>1. PICK S : IsLine(ppid, S) /\ ppid[x] \in S /\ x \notin S
      BY <1>3, <2>2 DEF Progress, Acyclic
    <3>2. QED
      BY <1>3, <1>4, <2>2, <3>1
  <2>3. QED
    BY <2>1, <2>2
<1>7. CASE ReusesPid
  BY <1>2, <1>5, <1>6, <1>7 DEF Progress, Ahead, Climbing
<1>8. CASE ~ReusesPid
  <2>1. ~Used(q) /\ met' = met
    BY <1>2, <1>8 DEF ReusesPid, Used
  <2>2. current # q
    BY <1>2, <2>1, PidFacts DEF Climb
  <2>3. ASSUME Climbing PROVE Ahead' /\ \A x \in met' : Used(x)'
    <3>1. PICK S : IsLine(ppid, S) /\ (current \in Pid => current \in S) /\ S \cap met = {}
      BY <2>3 DEF Progress, Ahead
    <3>2. IsLine(ppid', S \ {q}) /\ (current' \in Pid => current' \in S \ {q})
          /\ (S \ {q}) \cap met' = {}
      BY <1>2, <1>4, <2>1, <2>2, <3>1
    <3>3. \A x \in met : x \in Pid /\ Used(x)
      BY <2>3 DEF Progress
    <3>4. \A x \in Pid : Used(x) => Used(x)'
      BY DEF Onward
    <3>5. QED
      BY <2>1, <3>2, <3>3, <3>4 DEF Ahead
  <2>4. QED
    BY <1>2, <1>6, <2>1, <2>3 DEF Progress, Climbing
<1>9. QED
  BY <1>7, <1>8

\* An exit leads a line on to PID 1 or to the container's init, which have
\* not been met by a climb that is below them.
LEMMA ExitProgress ==
    ASSUME CpInv, Progress, CpInv', Onward, NEW p \in Others, TreeExit(p), UNCHANGED walkVars,
           met' \in {met, {}}
    PROVE  Progress'
<1> USE DEF CpInv, CpTypeOK, ProcTypeOK
<1>1. /\ p \in Pid /\ p \notin Lasting
      /\ ppid' = [q \in Pid |-> IF ppid[q] = p THEN Reaper(q) ELSE ppid[q]]
      /\ UNCHANGED <<walk, current>>
  BY DEF TreeExit, Exit, Others, walkVars
<1>2. /\ \A x \in Pid : ppid[x] = p => ppid'[x] \in {1, CInit}
      /\ \A x \in Pid : ppid[x] # p => ppid'[x] = ppid[x]
      /\ DOMAIN ppid = Pid /\ DOMAIN ppid' = Pid
      /\ ppid'[1] = NoParent /\ ppid'[CInit] = 1 /\ ppid[1] = NoParent /\ ppid[CInit] = 1
  BY <1>1, PidFacts DEF Reaper, Tree
<1>3. IsLine(ppid', {1}) /\ IsLine(ppid', {1, CInit}) /\ IsLine(ppid', {})
  BY <1>2, PidFacts DEF IsLine
<1>4. \A S : IsLine(ppid, S) => IsLine(ppid', S \cup {1, CInit})
  BY <1>2, PidFacts DEF IsLine
<1>5. Acyclic'
  <2> SUFFICES ASSUME NEW x \in Pid, ppid'[x] \in Pid
               PROVE  \E S : IsLine(ppid', S) /\ ppid'[x] \in S /\ x \notin S
    BY DEF Acyclic
  <2>1. x # 1
    BY <1>2, PidFacts
  <2>2. CASE x = CInit
    BY <1>2, <1>3, <2>2, PidFacts
  <2>3. CASE x # CInit /\ ppid[x] = p
    BY <1>2, <1>3, <2>1, <2>3
  <2>4. CASE x # CInit /\ ppid[x] # p
    <3>1. PICK S : IsLine(ppid, S) /\ ppid[x] \in S /\ x \notin S
      BY <1>2, <2>4 DEF Progress, Acyclic
    <3>2. QED
      BY <1>2, <1>4, <2>1, <2>4, <3>1
  <2>5. QED
    BY <2>2, <2>3, <2>4
<1>6. ASSUME Climbing PROVE Ahead'
  <2>1. CASE CInit \in met
    <3>1. current' \in {1, NoParent} /\ {1} \cap met' = {}
      BY <1>1, <1>6, <2>1 DEF Progress
    <3>2. QED
      BY <1>3, <3>1, PidFacts DEF Ahead
  <2>2. CASE CInit \notin met
    <3>1. PICK S : IsLine(ppid, S) /\ (current \in Pid => current \in S) /\ S \cap met = {}
      BY <1>6 DEF Progress, Ahead
    <3>2. (S \cup {1, CInit}) \cap met' = {}
      BY <1>6, <2>2, <3>1 DEF Progress
    <3>3. QED
      BY <1>1, <1>4, <3>1, <3>2 DEF Ahead
  <2>3. QED
    BY <2>1, <2>2
<1>7. ASSUME Climbing PROVE \A x \in met' : Used(x)'
  <2>1. \A x \in met' : x \in Pid /\ Used(x)
    BY <1>7 DEF Progress
  <2>2. QED
    BY <2>1 DEF Onward
<1>8. QED
  BY <1>1, <1>5, <1>6, <1>7 DEF Progress, Climbing

\* A zombie has no children, and nothing comes above its own line.
LEMMA ReapProgress ==
    ASSUME CpInv, Progress, CpInv', Onward, NEW p \in Others, TreeReap(p), UNCHANGED walkVars,
           met' \in {met, {}}
    PROVE  Progress'
<1> USE DEF CpInv, CpTypeOK, ProcTypeOK
<1>1. /\ p \in Pid /\ ppid' = [ppid EXCEPT ![p] = NoParent] /\ UNCHANGED <<walk, current>>
  BY DEF TreeReap, Reap, Others, walkVars
<1>2. /\ ppid'[p] = NoParent /\ \A x \in Pid \ {p} : ppid'[x] = ppid[x]
      /\ DOMAIN ppid = Pid /\ DOMAIN ppid' = Pid
  BY <1>1
<1>3. \A S : IsLine(ppid, S) => IsLine(ppid', S)
  BY <1>2, PidFacts DEF IsLine
<1>4. Acyclic'
  <2> SUFFICES ASSUME NEW x \in Pid, ppid'[x] \in Pid
               PROVE  \E S : IsLine(ppid', S) /\ ppid'[x] \in S /\ x \notin S
    BY DEF Acyclic
  <2>1. ppid'[x] = ppid[x]
    BY <1>2, PidFacts
  <2>2. QED
    BY <1>3, <2>1 DEF Progress, Acyclic
<1>5. ASSUME Climbing PROVE Ahead' /\ \A x \in met' : Used(x)'
  <2>1. \A x \in met' : x \in Pid /\ Used(x)
    BY <1>5 DEF Progress
  <2>2. PICK S : IsLine(ppid, S) /\ (current \in Pid => current \in S) /\ S \cap met = {}
    BY <1>5 DEF Progress, Ahead
  <2>3. IsLine(ppid', S) /\ (current' \in Pid => current' \in S) /\ S \cap met' = {}
    BY <1>1, <1>3, <2>2
  <2>4. Ahead'
    BY <2>3 DEF Ahead
  <2>5. \A x \in Pid : Used(x) => Used(x)'
    BY DEF Onward
  <2>6. QED
    BY <2>1, <2>4, <2>5
<1>6. QED
  BY <1>1, <1>4, <1>5 DEF Progress, Climbing

LEMMA WorldProgress == CpInv /\ Progress /\ World => Progress'
<1> SUFFICES ASSUME CpInv, Progress, TreeNext, UNCHANGED walkVars,
                    met' = IF ReusesPid THEN {} ELSE met
             PROVE  Progress'
  BY DEF World
<1>1. CpInv' /\ Onward
  BY WorldStep DEF World
<1>2. met' \in {met, {}}
  OBVIOUS
<1>3. QED
  BY <1>1, <1>2, NewProcessProgress, ExitProgress, ReapProgress DEF TreeNext

\* The read of a stat file: the parent lies ahead of the process it is the
\* parent of, and that process does not lie ahead of its parent.
LEMMA ClimbProgress ==
    ASSUME CpInv, Progress, NEW p \in Pid, ReadStat(p), ppid[current] # CInit,
           UNCHANGED treeVars, UNCHANGED procVars, met' = met \cup {current}
    PROVE  Progress'
<1> USE DEF CpInv, CpTypeOK, ProcTypeOK
<1>1. /\ current \in Pid \ {1} /\ walk = "read_stat" /\ walk' = "open_stat"
      /\ current' = ppid[current] /\ UNCHANGED <<proc, ppid>> /\ DOMAIN ppid = Pid
      /\ Used(current)
  BY PidFacts DEF ReadStat, Climb, Progress, treeVars, procVars
<1>2. PICK S : IsLine(ppid, S) /\ current \in S /\ S \cap met = {}
  BY <1>1 DEF Progress, Climbing, Ahead
<1>3. Ahead'
  <2>1. CASE current' \in Pid
    <3>1. PICK T : IsLine(ppid, T) /\ current' \in T /\ current \notin T
      BY <1>1, <2>1 DEF Progress, Acyclic
    <3>2. IsLine(ppid, S \cap T) /\ current' \in S \cap T /\ (S \cap T) \cap met' = {}
      BY <1>1, <1>2, <2>1, <3>1 DEF IsLine
    <3>3. QED
      BY <1>1, <3>2 DEF Ahead
  <2>2. CASE current' \notin Pid
    <3>1. IsLine(ppid', {}) /\ {} \cap met' = {}
      BY DEF IsLine
    <3>2. QED
      BY <2>2, <3>1 DEF Ahead
  <2>3. QED
    BY <2>1, <2>2
<1>4. 1 \notin met' /\ (CInit \in met' => current' \in {1, NoParent})
  <2>1. CInit \notin met
    BY <1>1, PidFacts DEF Progress, Climbing
  <2>2. ppid[CInit] = 1
    BY DEF Tree
  <2>3. QED
    BY <1>1, <2>1, <2>2 DEF Progress, Climbing
<1>5. \A q \in met' : Used(q)'
  BY <1>1 DEF Progress, Climbing, Used
<1>6. Acyclic'
  BY <1>1 DEF Progress, Acyclic
<1>7. QED
  BY <1>1, <1>3, <1>4, <1>5, <1>6 DEF Progress

LEMMA WalkProgress == CpInv /\ Progress /\ Walk => Progress'
<1> SUFFICES ASSUME CpInv, Progress, Walk PROVE Progress'
  OBVIOUS
<1> USE DEF CpInv, CpTypeOK, ProcTypeOK
<1>1. /\ UNCHANGED <<proc, ppid>> /\ UNCHANGED treeVars /\ UNCHANGED procVars
      /\ DOMAIN ppid = Pid /\ Acyclic'
  BY DEF Walk, procVars, treeVars, Progress, Acyclic
<1>2. CASE ListPid \/ ListDone \/ FailOnStat
  <2>1. ~Climbing' /\ walk' # "read_stat"
    BY <1>2 DEF ListPid, ListDone, FailOnStat, Climbing
  <2>2. QED
    BY <1>1, <2>1 DEF Progress
<1>3. ASSUME NEW p \in Pid, StartAt(p) PROVE Progress'
  <2>1. met' = {} /\ walk' = "open_stat"
    BY <1>3 DEF Walk, StartAt
  <2>2. IsLine(ppid', Pid)
    BY <1>1 DEF IsLine
  <2>3. Ahead'
    BY <2>1, <2>2 DEF Ahead
  <2>4. QED
    BY <1>1, <2>1, <2>3 DEF Progress
<1>4. ASSUME NEW p \in Pid, OpenStat(p) PROVE Progress'
  <2>1. met' = met /\ walk = "open_stat"
    BY <1>4 DEF Walk, OpenStat
  <2>2. CASE walk' = "read_stat" /\ current' = current /\ current > 1
    BY <1>1, <2>1, <2>2 DEF Progress, Climbing, Ahead, Used
  <2>3. CASE walk' = "next"
    BY <1>1, <2>3 DEF Progress, Climbing
  <2>4. QED
    BY <1>4, <2>2, <2>3 DEF OpenStat, LeaveLoop
<1>5. ASSUME NEW p \in Pid, ReadStat(p) PROVE Progress'
  <2>1. met' = met \cup {current}
    BY <1>5 DEF Walk, ReadStat
  <2>2. CASE ppid[current] = CInit
    BY <1>1, <1>5, <2>2 DEF ReadStat, LeaveLoop, Progress, Climbing
  <2>3. CASE ppid[current] # CInit
    BY <1>1, <1>5, <2>1, <2>3, ClimbProgress
  <2>4. QED
    BY <2>2, <2>3
<1>6. QED
  BY <1>2, <1>3, <1>4, <1>5 DEF Walk, WalkNext

\* As long as no PID is given to another process, a climb is at no PID twice:
\* it ends, because there are finitely many.
THEOREM ClimbsAdvance == CpSpec => []NoPidTwice
<1>1. CpInv /\ Progress /\ [CpNext]_cpVars => Progress'
  <2> SUFFICES ASSUME CpInv, Progress, [CpNext]_cpVars PROVE Progress'
    OBVIOUS
  <2>1. CASE UNCHANGED cpVars
    BY <2>1 DEF cpVars, procVars, treeVars, walkVars, Progress, Acyclic, Ahead, Climbing, Used
  <2>2. QED
    BY <2>1, WalkProgress, WorldProgress DEF CpNext
<1>2. CpInv /\ Progress => NoPidTwice
  BY DEF Progress, Climbing, Ahead, NoPidTwice, CpInv, CpTypeOK
<1>3. QED
  BY <1>1, <1>2, ProgressInit, ContainerPidsInvariant, PTL DEF CpSpec

(***************************************************************************)
(* The census.                                                             *)
(***************************************************************************)
\* Initially no process outside is below the container's init.
LEMMA CensusStarts == CpInit => Counting!CensusInit
<1> SUFFICES ASSUME CpInit PROVE Counting!CensusInit
  OBVIOUS
<1>1. CpTypeOK /\ Tree
  BY InitTyped, InitTree
<1>2. DOMAIN ppid = Pid /\ linked = Descendants(ppid, CInit) /\ contained \subseteq Pid
      /\ moved = {} /\ walk = "readdir" /\ \A p \in Pid : proc[p].gen = 0
  BY <1>1 DEF CpTypeOK, CpInit, TreeInit, WalkInit, ProcInit
<1>3. linked \subseteq contained
  <2>1. IsLine(ppid, Pid \ contained)
    BY <1>1, <1>2 DEF IsLine, Tree
  <2>2. QED
    BY <1>1, <1>2, <2>1, DescendantsAre, PidFacts DEF Tree
<1>4. QED
  BY <1>2, <1>3 DEF Counting!CensusInit

LEMMA CensusGoesOn == CpInv /\ [CpNext]_cpVars => [Counting!CensusNext]_(Counting!censusVars)
<1> SUFFICES ASSUME CpInv, [CpNext]_cpVars PROVE [Counting!CensusNext]_(Counting!censusVars)
  OBVIOUS
<1> USE DEF Counting!CensusNext, Counting!censusVars
<1>1. CASE Walk /\ ListDone
  <2>1. container_pids \subseteq (IF moved = {} THEN contained ELSE Pid)
    BY WalkFacts DEF CpInv, OnlyContainerPids
  <2>2. linked \subseteq container_pids
    BY <1>1 DEF CpInv, Accounted, Climb, ListDone
  <2>3. Counting!Return
    BY <1>1, <2>1, <2>2
       DEF Walk, ListDone, procVars, treeVars, MayBeNoText, Listed, Counting!Return
  <2>4. QED
    BY <2>3
<1>2. CASE Walk /\ FailOnStat
  <2>1. current \in Pid /\ Used(current) /\ stat_gen <= proc[current].gen /\ stat_gen \in Nat
    BY <1>2, PidFacts DEF FailOnStat, CpInv, Climb, CpTypeOK
  <2>2. proc[current].gen > 0 \/ MayBeNoText(current)
    BY <1>2, <2>1, WalkFacts DEF FailOnStat, StatGone, Used, Listed
  <2>3. Counting!Fail
    BY <1>2, <2>1, <2>2
       DEF Walk, FailOnStat, procVars, treeVars, MayBeNoText, Listed, Counting!Fail
  <2>4. QED
    BY <2>3
<1>3. CASE Walk /\ (ListPid \/ \E p \in Pid : StartAt(p) \/ OpenStat(p) \/ ReadStat(p))
  <2>1. /\ walk \notin {"done", "err"} /\ walk' \notin {"done", "err"}
    BY <1>3 DEF ListPid, StartAt, OpenStat, ReadStat, LeaveLoop
  <2>2. proc' = proc /\ linked' = linked /\ contained' = contained /\ moved' = moved
    BY <1>3 DEF Walk, procVars, treeVars
  <2>3. QED
    BY <2>1, <2>2 DEF MayBeNoText, Listed
<1>4. CASE World
  <2>1. CpInv' /\ Onward
    BY <1>4, WorldStep
  <2>2. linked' \subseteq linked
    BY <2>1 DEF Onward
  <2>3. \A p \in Pid : proc[p].gen > 0 \/ MayBeNoText(p) =>
            proc'[p].gen > 0 \/ MayBeNoText(p)'
    <3>1. \A p \in Pid : proc[p].gen \in Nat /\ proc'[p].gen \in Nat
      BY <2>1 DEF CpInv, CpTypeOK, ProcTypeOK, Process
    <3>2. \A p \in Pid : proc[p].st # "free" => proc'[p].st # "free" \/ proc'[p].gen > 0
      BY <2>1 DEF Onward, Used
    <3>3. QED
      BY <2>1, <3>1, <3>2 DEF Onward, MayBeNoText, Listed
  <2>4. (IF moved = {} THEN contained ELSE Pid) \subseteq (IF moved' = {} THEN contained' ELSE Pid)
    BY <2>1, WalkFacts DEF Onward, CpInv, Tree
  <2>5. (IF moved' = {} THEN contained' ELSE Pid) \subseteq Pid
    BY <2>1 DEF CpInv, CpTypeOK
  <2>6. Counting!Change
    BY <1>4, <2>2, <2>3, <2>4, <2>5 DEF World, walkVars, Counting!Change
  <2>7. QED
    BY <2>6
<1>5. CASE UNCHANGED cpVars
  BY <1>5 DEF cpVars, procVars, treeVars, walkVars, MayBeNoText, Listed
<1>6. QED
  BY <1>1, <1>2, <1>3, <1>4, <1>5 DEF CpNext, Walk, WalkNext

\* The safety part of CountsContainer: get_container_pids takes the census it
\* promises main.rs, every step of it and of the processes around it is a step
\* of the census.  That it ends is left to TLC.
THEOREM CountIsCensusStepwise ==
    CpSpec => Counting!CensusInit /\ [][Counting!CensusNext]_(Counting!censusVars)
BY CensusStarts, CensusGoesOn, ContainerPidsInvariant, PTL DEF CpSpec
=============================================================================
