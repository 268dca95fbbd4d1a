---------------------------- MODULE HostRunProofs ----------------------------
(***************************************************************************)
(* Proofs of the safety properties of HostRun: what the report of a run in *)
(* host mode says about processes, for any number of processes that start  *)
(* and end between and during the calls of main().                         *)
(***************************************************************************)
EXTENDS HostRun, ProcessTreeProofs

(***************************************************************************)
(* The inductive invariant.                                                *)
(***************************************************************************)
\* The processes have parents that are alive, of the same party or outside.
Tree ==
    /\ Lasting \subseteq alive
    /\ ppid[1] = NoParent /\ ppid[TestInit] = 1 /\ ppid[RefInit] = 1
    /\ \A c \in Party : party[InitOf[c]] = c
    /\ \A p \in Pid : ppid[p] # p /\ ppid[p] \in alive \cup {NoParent}
    /\ \A p \in alive \ {1} : ppid[p] # NoParent /\ party[ppid[p]] \in {party[p], "host"}

\* The histories: a process under parents that did not change is linked to the
\* init process of its party.
History ==
    /\ unbroken \cap Unused = {} /\ settled \cap late = {}
    /\ \A p \in unbroken \cap alive : p \in Descendants(ppid, InitOf[party[p]])

\* The calls are made one after the other.
Progress ==
    /\ census = "taking" => at <= Len(Calls)
    /\ run = "stored" => at = Len(Calls) + 1
    /\ \A i \in DOMAIN Calls : at <= i => got[Calls[i].into] = {}

\* No process of a container, unless one of the report's excuses holds for it.
Excused(p) == party[p] = "host" \/ p \in late \/ p \notin unbroken

\* The set A is no more than what call c may answer.
Sound(c, A) ==
    /\ A \cap Unused = {}
    /\ c.ask = "pids" => \A p \in A : party[p] = c.of
    /\ c.ask = "view" => A \subseteq Listing(c.of)
    /\ c.ask = "view" /\ c.of = "host" => \A p \in A : Excused(p)

\* p was there before the call of main() that fills the variable into.
Early(into, p) ==
    \/ p \in settled
    \/ into \in {"excludes_test", "excludes_ref"} /\ p \notin late
    \/ into = "info_test" /\ p \in got.view_test
    \/ into = "info_ref" /\ p \in got.view_ref

\* The set A is no less than what call c must answer, and nothing is owed by a
\* view in which setns() was refused.
Complete(c, A) ==
    /\ c.ask = "pids" =>
           \A p \in alive \cap unbroken : party[p] = c.of /\ Early(c.into, p) => p \in A
    /\ c.ask = "view" /\ ~unshared /\ c.into \notin refused =>
           settled \cap Listing(c.of) \subseteq A

\* The answers so far, and the bounds of the one under way.
Answers ==
    /\ ~astray => \A i \in DOMAIN Calls : i < at =>
           Sound(Calls[i], got[Calls[i].into]) /\ Complete(Calls[i], got[Calls[i].into])
    /\ ~astray /\ census = "taking" => Sound(Calls[at], may) /\ Complete(Calls[at], must)

HrInv ==
    /\ HrTypeOK
    /\ Tree
    /\ History
    /\ Progress
    /\ Answers

(***************************************************************************)
(* Facts about the constants.                                              *)
(***************************************************************************)
LEMMA PartyFacts ==
    /\ Party = {"host", "test", "ref"}
    /\ InitOf.host = 1 /\ InitOf.test = TestInit /\ InitOf.ref = RefInit
    /\ Lasting = {1, TestInit, RefInit} /\ Lasting \subseteq Pid
    /\ NoParent \notin Pid /\ Pid \subseteq Nat
BY HostRunAssumption DEF Party, InitOf, Lasting, NoParent

LEMMA CallsAre ==
    /\ Len(Calls) = 9 /\ DOMAIN Calls = 1 .. 9
    /\ Calls[1] = Ask("pids", "test", "includes_test")
    /\ Calls[2] = Ask("pids", "ref", "includes_ref")
    /\ Calls[3] = Ask("view", "test", "view_test")
    /\ Calls[4] = Ask("view", "ref", "view_ref")
    /\ Calls[5] = Ask("pids", "test", "excludes_test")
    /\ Calls[6] = Ask("pids", "ref", "excludes_ref")
    /\ Calls[7] = Ask("view", "host", "view_host")
    /\ Calls[8] = Ask("pids", "test", "info_test")
    /\ Calls[9] = Ask("pids", "ref", "info_ref")
BY DEF Calls

LEMMA CallFacts ==
    /\ \A i \in 1 .. 9 : Calls[i].ask \in {"pids", "view"} /\ Calls[i].of \in Party
                       /\ Calls[i].into \in Kept
    /\ \A i \in 1 .. 9 : Calls[i].ask = "pids" => Calls[i].of \in {"test", "ref"}
    /\ \A i, j \in 1 .. 9 : Calls[i].into = Calls[j].into => i = j
<1>1. \A i \in 1 .. 9 : i = 1 \/ i = 2 \/ i = 3 \/ i = 4 \/ i = 5 \/ i = 6 \/ i = 7 \/ i = 8 \/ i = 9
  OBVIOUS
<1>2. \A i \in 1 .. 9 : Calls[i].into \in Kept
  BY CallsAre DEF Kept
<1>3. \A i, j \in 1 .. 9 : Calls[i].into = Calls[j].into => i = j
  BY <1>1, CallsAre DEF Ask
<1>4. QED
  BY <1>1, <1>2, <1>3, CallsAre, PartyFacts DEF Ask

(***************************************************************************)
(* The initial states.                                                     *)
(***************************************************************************)
LEMMA HrInvInit == HrInit => HrInv
<1> SUFFICES ASSUME HrInit PROVE HrInv
  OBVIOUS
<1>1. PICK A \in SUBSET (Pid \ Lasting) :
          /\ alive = A \cup Lasting
          /\ \E parent \in [A -> alive] :
              /\ \A p \in A : parent[p] < p
              /\ ppid = [p \in Pid |-> IF p \in A THEN parent[p]
                                      ELSE IF p \in Lasting \ {1} THEN 1 ELSE NoParent]
          /\ party \in [Pid -> Party]
          /\ \A c \in Party : party[InitOf[c]] = c
          /\ \A p \in A : party[ppid[p]] \in {party[p], "host"}
  BY DEF HrInit
<1>2. PICK parent \in [A -> alive] :
          /\ \A p \in A : parent[p] < p
          /\ ppid = [p \in Pid |-> IF p \in A THEN parent[p]
                                  ELSE IF p \in Lasting \ {1} THEN 1 ELSE NoParent]
  BY <1>1
<1>3. alive \subseteq Pid /\ Lasting \subseteq alive /\ 1 \in alive /\ 1 \notin A
  BY <1>1, PartyFacts
<1>4. TestInit # 1 /\ RefInit # 1 /\ party[1] = "host" /\ party[TestInit] = "test" /\ party[RefInit] = "ref"
  BY <1>1, PartyFacts
<1>5. /\ ppid \in [Pid -> Pid \cup {NoParent}]
      /\ ppid[1] = NoParent /\ ppid[TestInit] = 1 /\ ppid[RefInit] = 1
      /\ \A p \in A : ppid[p] \in alive /\ ppid[p] < p
      /\ \A p \in Pid \ alive : ppid[p] = NoParent
  BY <1>1, <1>2, <1>3, <1>4, PartyFacts
<1>6. Tree
  <2>1. \A p \in Pid : ~(p < p)
    BY PartyFacts
  <2>2. \A p \in Pid : ppid[p] # p /\ ppid[p] \in alive \cup {NoParent}
    <3> SUFFICES ASSUME NEW p \in Pid PROVE ppid[p] # p /\ ppid[p] \in alive \cup {NoParent}
      OBVIOUS
    <3>1. p \in A \/ p = 1 \/ p = TestInit \/ p = RefInit \/ p \notin alive
      BY <1>1, PartyFacts
    <3>2. QED
      BY <1>3, <1>4, <1>5, <2>1, <3>1, PartyFacts
  <2>3. \A p \in alive \ {1} : ppid[p] # NoParent /\ party[ppid[p]] \in {party[p], "host"}
    BY <1>1, <1>3, <1>4, <1>5, PartyFacts
  <2>4. QED
    BY <1>1, <1>3, <1>5, <2>2, <2>3 DEF Tree
<1>7. unbroken \subseteq alive /\ \A p \in unbroken : p \in Linked(party[p])
  BY DEF HrInit, Linked
<1>8. alive \cap Unused = {}
  BY <1>6 DEF Unused, Tree
<1>9. History
  BY <1>7, <1>8 DEF History, HrInit, Linked
<1>10. HrTypeOK
  <2>1. events \in 0 .. MaxEvents /\ at \in 1 .. Len(Calls) + 1
    BY CallsAre, HostRunAssumption DEF HrInit
  <2>2. got \in [Kept -> SUBSET Pid]
    BY DEF HrInit
  <2>3. QED
    BY <1>1, <1>3, <1>5, <1>7, <2>1, <2>2 DEF HrInit, HrTypeOK
<1>11. Progress /\ Answers
  BY CallsAre, CallFacts DEF HrInit, Progress, Answers
<1>12. QED
  BY <1>6, <1>9, <1>10, <1>11 DEF HrInv

(***************************************************************************)
(* The steps of the three parties.                                         *)
(***************************************************************************)
\* What holds of every step of the parties that the answers rely on.
Onward ==
    /\ Unused' \subseteq Unused /\ settled' \subseteq settled /\ late \subseteq late'
    /\ unshared => unshared'
    /\ \A p \in Pid \ Unused : party'[p] = party[p] /\ (p \in unbroken' => p \in unbroken)
    /\ \A p \in alive' : p \in alive \/ (p \in Unused /\ (Excluding(party'[p]) => p \in late'))
    /\ \A p \in may' \ may :
           /\ p \in Unused \ Unused' /\ (Excluding(party'[p]) => p \in late')
           /\ Calls[at].ask = "pids" => party'[p] = Calls[at].of
           /\ Calls[at].ask = "view" => p \in Listing(Calls[at].of)
    /\ \A p \in must \ must' :
           /\ Calls[at].ask = "pids" => p \notin alive' \/ p \notin unbroken'
           /\ Calls[at].ask = "view" => p \notin settled' \/ unshared'

LEMMA AliveAreUsed == Tree => alive \cap Unused = {}
BY DEF Tree, Unused

\* A process is started, by p in its party or in a container from outside.
LEMMA ArriveStep ==
    ASSUME HrTypeOK, Tree, History, Progress, UNCHANGED <<mainVars, census, counted>>,
           NEW p \in Pid, NEW q \in Pid, NEW c \in Party, Arrives(p, q, c),
           party[p] \in {c, "host"}
    PROVE  HrTypeOK' /\ Tree' /\ History' /\ Onward
<1> USE DEF HrTypeOK
<1>1. /\ q \in Unused /\ q # 1 /\ ppid[q] = NoParent /\ p \in alive /\ q \notin alive /\ p # q
      /\ q \notin Lasting
  BY AliveAreUsed DEF Arrives, FirstUnused, Unused, Tree
<1>2. /\ alive' = alive \cup {q} /\ ppid' = [ppid EXCEPT ![q] = p]
      /\ party' = [party EXCEPT ![q] = c] /\ settled' = settled /\ unshared' = unshared
      /\ must' = must /\ disturbed' = disturbed
      /\ unbroken' = IF c = party[p] /\ p \in unbroken THEN unbroken \cup {q} ELSE unbroken
      /\ late' = IF Excluding(c) THEN late \cup {q} ELSE late
      /\ may' = IF census # "taking" THEN may
                ELSE IF Calls[at].ask = "pids"
                     THEN IF c = Calls[at].of THEN may \cup {q} ELSE may
                     ELSE may \cup ({q} \cap Listing(Calls[at].of))
      /\ events < MaxEvents /\ events' = events + 1
  BY DEF Arrives, Happens
<1>3. /\ ppid' \in [Pid -> Pid \cup {NoParent}] /\ party' \in [Pid -> Party]
      /\ ppid'[q] = p /\ party'[q] = c
      /\ \A x \in Pid \ {q} : ppid'[x] = ppid[x] /\ party'[x] = party[x]
      /\ \A x \in Pid : ppid[x] # q
  BY <1>1, <1>2, PartyFacts DEF Tree
<1>4. Unused' = Unused \ {q}
  BY <1>1, <1>3, PartyFacts DEF Unused
<1>5. HrTypeOK'
  <2>1. may \subseteq may' /\ may' \subseteq Pid /\ unbroken' \subseteq Pid /\ late' \subseteq Pid
    BY <1>2
  <2>2. events' \in 0 .. MaxEvents
    BY <1>2, HostRunAssumption
  <2>3. QED
    BY <1>2, <1>3, <2>1, <2>2 DEF mainVars
<1>6. Tree'
  <2>1. \A d \in Party : party'[InitOf[d]] = d
    <3>1. \A d \in Party : InitOf[d] \in Lasting /\ party[InitOf[d]] = d
      BY PartyFacts DEF Tree
    <3>2. Lasting \subseteq Pid \ {q}
      BY <1>1, PartyFacts DEF Tree
    <3>3. QED
      BY <1>3, <3>1, <3>2
  <2>2. ppid'[1] = NoParent /\ ppid'[TestInit] = 1 /\ ppid'[RefInit] = 1
    BY <1>1, <1>3, PartyFacts DEF Tree
  <2>3. \A x \in Pid : ppid'[x] # x /\ ppid'[x] \in alive' \cup {NoParent}
    BY <1>1, <1>2, <1>3 DEF Tree
  <2>4. \A x \in alive' \ {1} : ppid'[x] # NoParent /\ party'[ppid'[x]] \in {party'[x], "host"}
    <3>1. ppid'[q] # NoParent /\ party'[ppid'[q]] \in {party'[q], "host"}
      BY <1>1, <1>3, PartyFacts
    <3>2. ASSUME NEW x \in alive \ {1}
          PROVE  ppid'[x] # NoParent /\ party'[ppid'[x]] \in {party'[x], "host"}
      <4>1. x \in Pid \ {q} /\ ppid[x] \in alive /\ ppid[x] \in Pid \ {q}
        BY <1>1, <1>3, <3>2 DEF Tree
      <4>2. QED
        BY <1>3, <3>2, <4>1 DEF Tree
    <3>3. QED
      BY <1>2, <3>1, <3>2
  <2>5. QED
    BY <1>2, <2>1, <2>2, <2>3, <2>4 DEF Tree
<1>7. History'
  <2>1. unbroken' \cap Unused' = {} /\ settled' \cap late' = {}
    BY <1>1, <1>2, <1>4 DEF History
  <2>2. ASSUME NEW x \in unbroken' \cap alive' PROVE x \in Descendants(ppid', InitOf[party'[x]])
    <3>1. InitOf[party'[x]] \in Pid /\ x \in Pid /\ DOMAIN ppid' = Pid /\ DOMAIN ppid = Pid
      BY <1>2, <1>3, PartyFacts
    <3> SUFFICES ASSUME NEW S, IsLine(ppid', S), x \in S PROVE InitOf[party'[x]] \in S
      BY <3>1, DescendantsAre
    <3>2. IsLine(ppid, S \ {q})
      BY <1>3, <3>1 DEF IsLine
    <3>3. \A y \in unbroken \cap alive : y \in S => InitOf[party[y]] \in S
      <4> SUFFICES ASSUME NEW y \in unbroken \cap alive, y \in S PROVE InitOf[party[y]] \in S
        OBVIOUS
      <4>1. InitOf[party[y]] \in Pid /\ y # q
        BY <1>1, PartyFacts
      <4>2. QED
        BY <3>1, <3>2, <4>1, DescendantsAre DEF History
    <3>4. CASE x = q
      <4>1. p \in S /\ p \in unbroken /\ c = party[p]
        <5>1. q \notin unbroken
          BY <1>1 DEF History
        <5>2. QED
          BY <1>2, <1>3, <3>1, <3>4, <5>1 DEF IsLine
      <4>2. QED
        BY <1>1, <1>3, <3>3, <3>4, <4>1
    <3>5. CASE x # q
      BY <1>2, <1>3, <3>1, <3>3, <3>5
    <3>6. QED
      BY <3>4, <3>5
  <2>3. QED
    BY <2>1, <2>2 DEF History
<1>8. Onward
  <2>1. \A x \in Pid \ Unused : party'[x] = party[x] /\ (x \in unbroken' => x \in unbroken)
    BY <1>1, <1>2, <1>3
  <2>2. \A x \in alive' : x \in alive \/ (x \in Unused /\ (Excluding(party'[x]) => x \in late'))
    BY <1>1, <1>2, <1>3
  <2>3. \A x \in may' \ may :
           /\ x \in Unused \ Unused' /\ (Excluding(party'[x]) => x \in late')
           /\ Calls[at].ask = "pids" => party'[x] = Calls[at].of
           /\ Calls[at].ask = "view" => x \in Listing(Calls[at].of)
    BY <1>1, <1>2, <1>3, <1>4
  <2>4. QED
    BY <1>2, <1>4, <2>1, <2>2, <2>3 DEF Onward
<1>9. QED
  BY <1>5, <1>6, <1>7, <1>8

\* A process ends: the links through it are broken.
LEMMA ExitStep ==
    ASSUME HrTypeOK, Tree, History, Progress, UNCHANGED <<mainVars, census, counted>>,
           NEW p \in Pid, Exit(p)
    PROVE  HrTypeOK' /\ Tree' /\ History' /\ Onward
<1> USE DEF HrTypeOK
<1>1. /\ p \in alive /\ p \notin Lasting /\ alive' = alive \ {p}
      /\ ppid' = [q \in Pid |-> IF q # p /\ ppid[q] = p THEN InitOf[party[q]] ELSE ppid[q]]
      /\ settled' = settled \ {p} /\ unbroken' = unbroken \ Below(p)
      /\ must' = IF census = "taking" /\ Calls[at].ask = "pids"
                 THEN must \ ({p} \cup Below(p)) ELSE must \ {p}
      /\ disturbed' = disturbed
      /\ party' = party /\ late' = late /\ unshared' = unshared /\ may' = may
      /\ events < MaxEvents /\ events' = events + 1
  BY DEF Exit, Happens
<1>2. \A q \in Pid : InitOf[party[q]] \in Lasting /\ party[InitOf[party[q]]] = party[q]
  BY PartyFacts DEF Tree
<1>3. /\ ppid' \in [Pid -> Pid \cup {NoParent}]
      /\ \A x \in Pid : ppid[x] = p => ppid'[x] = InitOf[party[x]]
      /\ \A x \in Pid : ppid[x] # p => ppid'[x] = ppid[x]
  BY <1>1, <1>2, PartyFacts DEF Tree
<1>4. Unused' \subseteq Unused
  BY <1>2, <1>3, PartyFacts DEF Unused
<1>5. HrTypeOK'
  <2>1. events' \in 0 .. MaxEvents
    BY <1>1, HostRunAssumption
  <2>2. must' \subseteq may'
    BY <1>1
  <2>3. QED
    BY <1>1, <1>3, <2>1, <2>2 DEF mainVars
<1>6. Tree'
  <2>1. ppid'[1] = NoParent /\ ppid'[TestInit] = 1 /\ ppid'[RefInit] = 1
    BY <1>1, <1>3, PartyFacts DEF Tree
  <2>2. ASSUME NEW x \in Pid
        PROVE  ppid'[x] # x /\ ppid'[x] \in alive' \cup {NoParent}
    <3>1. CASE ppid[x] = p
      <4>1. x \notin Lasting
        BY <1>1, <3>1, PartyFacts DEF Tree
      <4>2. QED
        BY <1>1, <1>2, <1>3, <3>1, <4>1 DEF Tree
    <3>2. CASE ppid[x] # p
      BY <1>1, <1>3, <3>2 DEF Tree
    <3>3. QED
      BY <3>1, <3>2
  <2>3. \A x \in alive' \ {1} : ppid'[x] # NoParent /\ party'[ppid'[x]] \in {party'[x], "host"}
    BY <1>1, <1>2, <1>3, PartyFacts DEF Tree
  <2>4. QED
    BY <1>1, <2>1, <2>2, <2>3 DEF Tree
<1>7. \A x \in unbroken' \cap alive' : x \in unbroken \cap alive /\ x \notin Descendants(ppid, p)
  BY <1>1 DEF Below
<1>8. History'
  <2>1. unbroken' \cap Unused' = {} /\ settled' \cap late' = {}
    BY <1>1, <1>4 DEF History
  <2>2. ASSUME NEW x \in unbroken' \cap alive' PROVE x \in Descendants(ppid', InitOf[party'[x]])
    <3>1. InitOf[party[x]] \in Pid /\ x \in Pid /\ DOMAIN ppid' = Pid /\ DOMAIN ppid = Pid
      BY <1>1, <1>2, <1>3, <1>7, PartyFacts
    <3> SUFFICES ASSUME NEW S, IsLine(ppid', S), x \in S PROVE InitOf[party[x]] \in S
      BY <1>1, <3>1, DescendantsAre
    <3>2. IsLine(ppid, S \ Descendants(ppid, p))
      <4> SUFFICES ASSUME NEW y \in S \ Descendants(ppid, p), ppid[y] \in Pid
                   PROVE  ppid[y] \in S \ Descendants(ppid, p)
        BY <3>1 DEF IsLine
      <4>1. y \in Pid
        BY <3>1 DEF IsLine
      <4>2. ppid[y] \notin Descendants(ppid, p)
        BY <3>1, <4>1, ChildIsBelow
      <4>3. ppid[y] # p
        BY <3>1, <4>2, DescendantsAre
      <4>4. QED
        BY <1>3, <3>1, <4>1, <4>2, <4>3 DEF IsLine
    <3>3. QED
      BY <1>7, <3>1, <3>2, DescendantsAre DEF History
  <2>3. QED
    BY <2>1, <2>2 DEF History
<1>9. Onward
  <2>1. \A x \in must \ must' :
           /\ Calls[at].ask = "pids" => x \notin alive' \/ x \notin unbroken'
           /\ Calls[at].ask = "view" => x \notin settled' \/ unshared'
    BY <1>1
  <2>2. QED
    BY <1>1, <1>4, <2>1 DEF Onward
<1>10. QED
  BY <1>5, <1>6, <1>8, <1>9

\* A process gets another mount namespace: a view under way owes nothing.
LEMMA UnshareStep ==
    ASSUME HrTypeOK, Tree, History, Progress, UNCHANGED <<mainVars, census, counted>>,
           NEW p \in Pid, Unshare(p)
    PROVE  HrTypeOK' /\ Tree' /\ History' /\ Onward
<1>1. /\ alive' = alive /\ ppid' = ppid /\ party' = party /\ settled' = settled
      /\ unbroken' = unbroken /\ late' = late /\ may' = may /\ unshared' = TRUE
      /\ must' \in {must, {}} /\ disturbed' = disturbed
      /\ must' # must => Calls[at].ask = "view"
      /\ events < MaxEvents /\ events' = events + 1
  BY DEF Unshare, Happens
<1>2. HrTypeOK'
  <2>1. events' \in 0 .. MaxEvents
    BY <1>1, HostRunAssumption DEF HrTypeOK
  <2>2. QED
    BY <1>1, <2>1 DEF HrTypeOK, mainVars
<1>3. Tree' /\ History'
  BY <1>1 DEF Tree, History, Unused
<1>4. Onward
  BY <1>1 DEF Onward, Unused
<1>5. QED
  BY <1>2, <1>3, <1>4

\* What the parties do leaves the answers in order.
LEMMA WorldStep == HrInv /\ World => HrInv'
<1> SUFFICES ASSUME HrInv, World PROVE HrInv'
  OBVIOUS
<1>1. HrTypeOK' /\ Tree' /\ History' /\ Onward
  <2>1. \A p \in Pid : party[p] \in Party
    BY DEF HrInv, HrTypeOK
  <2>2. QED
    BY <2>1, ArriveStep, ExitStep, UnshareStep, PartyFacts DEF World, Fork, Enter, HrInv
<1>2. UNCHANGED <<run, at, got, refused, astray, census, counted>>
  BY DEF World, mainVars
<1>3. Progress'
  BY <1>2 DEF HrInv, Progress
<1>4. /\ alive \subseteq Pid \ Unused /\ settled \subseteq alive /\ settled' \subseteq alive'
      /\ \A i \in 1 .. 9 : got[Calls[i].into] \subseteq Pid
      /\ \A c : Listing(c)' = Listing(c)
  BY <1>1, <1>2, AliveAreUsed, CallFacts DEF HrInv, HrTypeOK, Listing
<1>5. ASSUME NEW c, NEW A \in SUBSET Pid, Sound(c, A)
      PROVE  /\ A \cap Unused' = {}
             /\ c.ask = "pids" => \A p \in A : party'[p] = c.of
             /\ c.ask = "view" => A \subseteq Listing(c.of)
             /\ c.ask = "view" /\ c.of = "host" => \A p \in A : Excused(p)'
  <2>1. A \cap Unused' = {} /\ \A p \in A : party'[p] = party[p]
    BY <1>1, <1>5 DEF Onward, Sound
  <2>2. \A p \in A : Excused(p) => Excused(p)'
    BY <1>1, <1>5 DEF Onward, Sound, Excused
  <2>3. QED
    BY <1>5, <2>1, <2>2 DEF Sound
<1>6. ASSUME ~astray, NEW i \in 1 .. 9, i <= at, i < at \/ census = "taking",
             NEW A \in SUBSET Pid, Complete(Calls[i], A),
             NEW p, p \notin Unused \/ party'[p] # Calls[i].of \/ Calls[i].ask # "pids"
                    \/ ~Early(Calls[i].into, p)'
      PROVE  /\ Calls[i].ask = "pids" /\ p \in alive' \cap unbroken' /\ party'[p] = Calls[i].of
                     /\ Early(Calls[i].into, p)' => p \in A
             /\ Calls[i].ask = "view" /\ ~unshared' /\ Calls[i].into \notin refused =>
                    (p \in settled' \cap Listing(Calls[i].of) => p \in A)
  <2>1. Calls[i].ask = "view" /\ ~unshared' /\ Calls[i].into \notin refused =>
            (p \in settled' \cap Listing(Calls[i].of) => p \in A)
    BY <1>1, <1>6 DEF Onward, Complete
  <2>2. ASSUME Calls[i].ask = "pids", p \in alive' \cap unbroken', party'[p] = Calls[i].of,
               Early(Calls[i].into, p)'
        PROVE  p \in A
    <3>1. p \notin Unused /\ p \in Pid
      BY <1>1, <1>6, <2>2 DEF HrTypeOK
    <3>2. p \in alive \cap unbroken /\ party[p] = Calls[i].of
      BY <1>1, <2>2, <3>1 DEF Onward
    <3>3. Early(Calls[i].into, p)
      BY <1>1, <1>2, <2>2 DEF Early, Onward
    <3>4. QED
      BY <1>6, <2>2, <3>2, <3>3 DEF Complete
  <2>3. QED
    BY <2>1, <2>2
\* A new process is not one that a call must answer.
<1>7. ASSUME ~astray, NEW i \in 1 .. 9, i <= at, i < at \/ census = "taking",
             NEW p \in Unused, party'[p] = Calls[i].of, p \in alive', Calls[i].ask = "pids"
      PROVE  ~Early(Calls[i].into, p)'
  <2>1. p \notin settled' /\ p \notin alive
    BY <1>1, <1>4 DEF Onward
  <2>2. Calls[i].into \in {"excludes_test", "excludes_ref"} => p \in late'
    BY <1>1, <1>7, <2>1 DEF Onward, Excluding
  <2>3. /\ Calls[i].into = "info_test" => i = 8 /\ 3 < at
        /\ Calls[i].into = "info_ref" => i = 9 /\ 4 < at
    BY <1>7, CallsAre, CallFacts DEF HrInv, HrTypeOK, Ask
  <2>4. /\ 3 < at => p \notin got.view_test
        /\ 4 < at => p \notin got.view_ref
    BY <1>7, CallsAre DEF HrInv, Answers, Sound, Ask
  <2>5. QED
    BY <1>2, <2>1, <2>2, <2>3, <2>4 DEF Early
<1>8. ASSUME ~astray, NEW i \in 1 .. 9, i < at
      PROVE  Sound(Calls[i], got[Calls[i].into])' /\ Complete(Calls[i], got[Calls[i].into])'
  <2>1. Sound(Calls[i], got[Calls[i].into]) /\ Complete(Calls[i], got[Calls[i].into])
    BY <1>8, CallsAre DEF HrInv, Answers
  <2> DEFINE A == got[Calls[i].into]
  <2>2. A \in SUBSET Pid /\ A' = A
    BY <1>2, <1>4
  <2>3. Sound(Calls[i], A)'
    <3>1. /\ A \cap Unused' = {}
          /\ Calls[i].ask = "pids" => \A p \in A : party'[p] = Calls[i].of
          /\ Calls[i].ask = "view" => A \subseteq Listing(Calls[i].of)
          /\ Calls[i].ask = "view" /\ Calls[i].of = "host" => \A p \in A : Excused(p)'
      BY <1>5, <2>1, <2>2
    <3>2. QED
      BY <1>2, <1>4, <2>2, <3>1 DEF Sound
  <2>4. Complete(Calls[i], A)'
    <3>1. i <= at
      BY <1>8 DEF HrInv, HrTypeOK
    <3>2. QED
      BY <1>2, <1>4, <1>6, <1>7, <1>8, <2>1, <2>2, <3>1 DEF Complete
  <2>5. QED
    BY <2>3, <2>4
<1>9. ASSUME ~astray, census = "taking"
      PROVE  Sound(Calls[at], may)' /\ Complete(Calls[at], must)'
  <2>1. Sound(Calls[at], may) /\ Complete(Calls[at], must) /\ at \in 1 .. 9 /\ must \subseteq may /\ may \subseteq Pid
    BY <1>9, CallsAre DEF HrInv, Answers, Progress, HrTypeOK
  <2>2. Sound(Calls[at], may)'
    <3>1. \A p \in may' \ may : Calls[at].ask = "view" /\ Calls[at].of = "host" => Excused(p)'
      <4> SUFFICES ASSUME NEW p \in may' \ may, Calls[at].ask = "view", Calls[at].of = "host",
                          party'[p] # "host"
                   PROVE  p \in late'
        BY DEF Excused
      <4>1. at = 7 /\ party'[p] \in {"test", "ref"}
        BY <1>1, <2>1, CallsAre, PartyFacts DEF HrTypeOK, Ask
      <4>2. Excluding(party'[p])
        <5>1. 5 \in 1 .. at /\ 6 \in 1 .. at /\ 5 < at /\ 6 < at
          BY <4>1
        <5>2. QED
          BY <4>1, <5>1, CallsAre DEF Excluding, Ask
      <4>3. QED
        BY <1>1, <4>2 DEF Onward
    <3>2. QED
      BY <1>1, <1>2, <1>4, <1>5, <2>1, <3>1 DEF Sound, Onward
  <2>3. Complete(Calls[at], must)'
    <3>0. PICK i \in 1 .. 9 : i = at
      BY <2>1
    <3>1. ASSUME NEW p
          PROVE  /\ Calls[i].ask = "pids" /\ p \in alive' \cap unbroken' /\ party'[p] = Calls[i].of
                        /\ Early(Calls[i].into, p)' => p \in must
                 /\ Calls[i].ask = "view" /\ ~unshared' /\ Calls[i].into \notin refused =>
                        (p \in settled' \cap Listing(Calls[i].of) => p \in must)
      <4>1. i <= at /\ must \in SUBSET Pid
        BY <2>1, <3>0
      <4>2. CASE p \in Unused /\ party'[p] = Calls[i].of /\ Calls[i].ask = "pids" /\ p \in alive'
        BY <1>7, <1>9, <2>1, <3>0, <4>1, <4>2
      <4>3. CASE p \notin alive'
        BY <1>4, <4>3
      <4>4. CASE p \notin Unused \/ party'[p] # Calls[i].of \/ Calls[i].ask # "pids"
        BY <1>6, <1>9, <2>1, <3>0, <4>1, <4>4
      <4>5. QED
        BY <4>2, <4>3, <4>4
    <3>2. \A p \in must \ must' :
              /\ Calls[at].ask = "pids" => p \notin alive' \/ p \notin unbroken'
              /\ Calls[at].ask = "view" => p \notin settled' \/ unshared'
      BY <1>1 DEF Onward
    <3>3. QED
      BY <1>2, <1>4, <3>0, <3>1, <3>2 DEF Complete, Early
  <2>4. QED
    BY <2>2, <2>3
<1>10. Answers'
  BY <1>2, <1>8, <1>9, CallsAre DEF Answers
<1>11. QED
  BY <1>1, <1>3, <1>10 DEF HrInv

(***************************************************************************)
(* The steps of main().                                                    *)
(***************************************************************************)
\* Who is linked to the init process of a container is in the container.
LEMMA LinkedAreMembers ==
    ASSUME HrTypeOK, Tree, NEW c \in {"test", "ref"}
    PROVE  Linked(c) \subseteq Members(c)
<1>1. DOMAIN ppid = Pid /\ InitOf[c] \in Pid /\ party[InitOf[c]] = c /\ c # "host"
  BY PartyFacts DEF HrTypeOK, Tree
<1>2. IsLine(ppid, {p \in alive : party[p] # c})
  <2> SUFFICES ASSUME NEW p \in alive, party[p] # c, ppid[p] \in Pid
               PROVE  ppid[p] \in alive /\ party[ppid[p]] # c
    BY <1>1 DEF IsLine, HrTypeOK
  <2>1. p # 1 /\ p \in Pid
    BY PartyFacts DEF Tree, HrTypeOK
  <2>2. QED
    BY <1>1, <2>1, PartyFacts DEF Tree
<1>3. QED
  BY <1>1, <1>2, DescendantsAre DEF Linked, Members

LEMMA BeginStep == HrInv /\ Begin => HrInv'
<1> SUFFICES ASSUME HrInv, Begin PROVE HrInv'
  OBVIOUS
<1> USE DEF HrInv
<1>1. /\ run = "calls" /\ census = "ok" /\ census' = "taking" /\ at \in 1 .. 9
      /\ must' = IF astray THEN {} ELSE MustAnswer(Calls[at])
      /\ may' = IF astray THEN Pid ELSE MayAnswer(Calls[at])
      /\ disturbed' = TRUE /\ counted' = {}
      /\ UNCHANGED <<alive, ppid, party, events, settled, unbroken, late, unshared, run, at, got,
                    refused, astray>>
  BY CallsAre DEF Begin, worldVars, mainVars, HrTypeOK
<1>2. \/ Calls[at].ask = "pids" /\ Calls[at].of \in {"test", "ref"}
      \/ Calls[at].ask = "view" /\ Calls[at].of \in Party
  BY <1>1, CallFacts
<1>3. MustAnswer(Calls[at]) \subseteq MayAnswer(Calls[at]) /\ MayAnswer(Calls[at]) \subseteq alive
  BY <1>2, LinkedAreMembers DEF MustAnswer, MayAnswer, Members
<1>4. HrTypeOK'
  BY <1>1, <1>3 DEF HrTypeOK
<1>5. Tree' /\ History' /\ Progress'
  BY <1>1, CallsAre DEF Tree, History, Progress, Unused
<1>6. ASSUME ~astray
      PROVE  Sound(Calls[at], may)' /\ Complete(Calls[at], must)'
  <2>1. alive \cap Unused = {}
    BY AliveAreUsed
  <2>2. CASE Calls[at].ask = "pids"
    <3>1. may' = Members(Calls[at].of) /\ must' = Linked(Calls[at].of)
      BY <1>1, <1>6, <2>2 DEF MustAnswer, MayAnswer
    <3>2. Sound(Calls[at], may)'
      BY <1>1, <2>1, <2>2, <3>1 DEF Sound, Members, Unused
    <3>3. \A p \in alive \cap unbroken : party[p] = Calls[at].of => p \in must'
      BY <3>1 DEF History, Linked
    <3>4. QED
      BY <1>1, <2>2, <3>2, <3>3 DEF Complete
  <2>3. CASE Calls[at].ask = "view"
    <3>1. may' = alive \cap Listing(Calls[at].of) /\ must' = may'
      BY <1>1, <1>6, <2>3 DEF MustAnswer, MayAnswer
    <3>2. ASSUME Calls[at].of = "host", NEW p \in may' PROVE Excused(p)
      <4> SUFFICES ASSUME party[p] # "host", p \notin late, p \in unbroken PROVE FALSE
        BY DEF Excused
      <4>1. at = 7 /\ p \in alive /\ p \in Pid /\ p \notin got.excludes_test /\ p \notin got.excludes_ref
        BY <1>1, <2>3, <3>1, <3>2, CallsAre DEF Listing, Ask, HrTypeOK
      <4>2. /\ Complete(Calls[5], got.excludes_test) /\ Complete(Calls[6], got.excludes_ref)
        BY <1>6, <4>1, CallsAre DEF Answers, Ask
      <4>3. party[p] # "test" /\ party[p] # "ref"
        BY <4>1, <4>2, CallsAre DEF Complete, Ask, Early
      <4>4. QED
        BY <4>1, <4>3, PartyFacts DEF HrTypeOK
    <3>3. may' \cap Unused' = {} /\ \A c : Listing(c)' = Listing(c) /\ \A p : Excused(p)' <=> Excused(p)
      BY <1>1, <2>1, <3>1 DEF Unused, Listing, Excused
    <3>4. Sound(Calls[at], may)'
      BY <1>1, <2>3, <3>1, <3>2, <3>3 DEF Sound
    <3>5. Complete(Calls[at], must)'
      BY <1>1, <2>3, <3>1, <3>3 DEF Complete, HrTypeOK
    <3>6. QED
      BY <3>4, <3>5
  <2>4. QED
    BY <1>2, <2>2, <2>3
<1>7. ASSUME ~astray, NEW i \in 1 .. 9, i < at
      PROVE  Sound(Calls[i], got[Calls[i].into])' /\ Complete(Calls[i], got[Calls[i].into])'
  <2>1. Sound(Calls[i], got[Calls[i].into]) /\ Complete(Calls[i], got[Calls[i].into])
    BY <1>7, CallsAre DEF Answers
  <2>2. QED
    BY <1>1, <2>1 DEF Sound, Complete, Unused, Listing, Excused, Early
<1>8. Answers'
  BY <1>1, <1>6, <1>7, CallsAre DEF Answers
<1>9. QED
  BY <1>4, <1>5, <1>8

\* setns() is refused: the view under way owes nothing, the answers that main()
\* has are what they were.
LEMMA RefuseStep == HrInv /\ Refuse => HrInv'
<1> SUFFICES ASSUME HrInv, Refuse PROVE HrInv'
  OBVIOUS
<1> USE DEF HrInv
<1>1. /\ census = "taking" /\ at \in 1 .. 9 /\ Calls[at].ask = "view"
      /\ refused' = refused \cup {Calls[at].into} /\ must' = {}
      /\ events' \in 0 .. MaxEvents
      /\ UNCHANGED <<alive, ppid, party, settled, unbroken, late, unshared, run, at, got, astray,
                    census, may, disturbed, counted>>
  BY CallsAre, HostRunAssumption DEF Refuse, Happens, HrTypeOK, Progress
<1>2. HrTypeOK'
  BY <1>1, CallFacts DEF HrTypeOK
<1>3. Tree' /\ History' /\ Progress'
  BY <1>1 DEF Tree, History, Progress, Unused
<1>4. Sound(Calls[at], may) => Sound(Calls[at], may)' /\ Complete(Calls[at], must)'
  BY <1>1 DEF Sound, Complete, Unused, Listing, Excused
<1>5. ASSUME ~astray, NEW i \in 1 .. 9, i < at
      PROVE  Sound(Calls[i], got[Calls[i].into])' /\ Complete(Calls[i], got[Calls[i].into])'
  <2>1. Sound(Calls[i], got[Calls[i].into]) /\ Complete(Calls[i], got[Calls[i].into])
    BY <1>5, CallsAre DEF Answers
  <2>2. QED
    BY <1>1, <2>1 DEF Sound, Complete, Unused, Listing, Excused, Early
<1>6. Answers'
  BY <1>1, <1>4, <1>5, CallsAre DEF Answers
<1>7. QED
  BY <1>2, <1>3, <1>6

LEMMA AnswerStep == HrInv /\ Answer => HrInv'
<1> SUFFICES ASSUME HrInv, Answer PROVE HrInv'
  OBVIOUS
<1> USE DEF HrInv
<1>1. /\ census = "taking" /\ census' = "ok" /\ at \in 1 .. 9 /\ at' = at + 1 /\ run' = run
      /\ counted' \subseteq may /\ must \subseteq counted'
      /\ got' = [got EXCEPT ![Calls[at].into] = counted']
      /\ astray' \in {astray, TRUE}
      /\ UNCHANGED <<alive, ppid, party, events, settled, unbroken, late, unshared, refused,
                    must, may, disturbed>>
  <2>1. census = "taking" /\ at \in 1 .. 9 /\ astray \in BOOLEAN
    BY CallsAre DEF Answer, Call!Return, HrTypeOK, Progress
  <2>2. astray' \in {astray, TRUE}
    BY <2>1 DEF Answer
  <2>3. QED
    BY <2>1, <2>2 DEF Answer, Call!Return, worldVars
<1>2. /\ got' \in [Kept -> SUBSET Pid] /\ got'[Calls[at].into] = counted'
      /\ \A i \in 1 .. 9 : i # at => got'[Calls[i].into] = got[Calls[i].into]
  BY <1>1, CallFacts DEF HrTypeOK
<1>3. HrTypeOK'
  <2>1. at' \in 1 .. Len(Calls) + 1
    BY <1>1, CallsAre
  <2>2. QED
    BY <1>1, <1>2, <2>1 DEF HrTypeOK
<1>4. Tree' /\ History'
  BY <1>1 DEF Tree, History, Unused
<1>5. Progress'
  BY <1>1, <1>2, CallsAre DEF Progress
<1>6. ASSUME NEW i \in 1 .. 9, i <= at
      PROVE  /\ Calls[i].ask = "view" => Listing(Calls[i].of)' = Listing(Calls[i].of)
             /\ \A p : Early(Calls[i].into, p)' <=> Early(Calls[i].into, p)
  <2>1. /\ at # 1 => got'.includes_test = got.includes_test
        /\ at # 2 => got'.includes_ref = got.includes_ref
        /\ at # 3 => got'.view_test = got.view_test
        /\ at # 4 => got'.view_ref = got.view_ref
        /\ at # 5 => got'.excludes_test = got.excludes_test
        /\ at # 6 => got'.excludes_ref = got.excludes_ref
    BY <1>2, CallsAre DEF Ask
  <2>2. CASE i \in {3, 4, 7}
    <3>1. /\ Calls[i].of = "test" => at # 1
          /\ Calls[i].of = "ref" => at # 2
          /\ Calls[i].of = "host" => at # 5 /\ at # 6
          /\ Calls[i].into \notin {"info_test", "info_ref"}
      BY <1>1, <1>6, <2>2, CallsAre DEF Ask
    <3>2. Calls[i].of \in Party
      BY CallFacts
    <3>3. QED
      BY <1>1, <2>1, <3>1, <3>2, PartyFacts DEF Listing, Early
  <2>3. CASE i \in {8, 9}
    <3>1. Calls[i].ask = "pids" /\ at # 3 /\ at # 4
      BY <1>1, <1>6, <2>3, CallsAre DEF Ask
    <3>2. QED
      BY <1>1, <2>1, <3>1 DEF Early
  <2>4. CASE i \in {1, 2, 5, 6}
    <3>1. Calls[i].ask = "pids" /\ Calls[i].into \notin {"info_test", "info_ref"}
      BY <2>4, CallsAre DEF Ask
    <3>2. QED
      BY <1>1, <3>1 DEF Early
  <2>5. QED
    BY <2>2, <2>3, <2>4
<1>7. ASSUME ~astray, NEW i \in 1 .. 9, i <= at
      PROVE  Sound(Calls[i], got[Calls[i].into])' /\ Complete(Calls[i], got[Calls[i].into])'
  <2>1. PICK A \in SUBSET Pid : A = got'[Calls[i].into] /\ Sound(Calls[i], A) /\ Complete(Calls[i], A)
    <3>1. CASE i < at
      BY <1>1, <1>2, <1>7, <3>1, CallFacts, CallsAre DEF Answers, HrTypeOK
    <3>2. CASE i = at
      <4>1. Sound(Calls[at], may) /\ Complete(Calls[at], must) /\ counted' \in SUBSET Pid
        BY <1>1, <1>7 DEF Answers, HrTypeOK
      <4>2. Sound(Calls[at], counted') /\ Complete(Calls[at], counted')
        BY <1>1, <4>1 DEF Sound, Complete
      <4>3. QED
        BY <1>2, <3>2, <4>1, <4>2
    <3>3. QED
      BY <1>1, <1>7, <3>1, <3>2
  <2>2. QED
    BY <1>1, <1>6, <1>7, <2>1 DEF Sound, Complete, Unused, Excused
<1>8. Answers'
  <2>1. \A i \in 1 .. 9 : i < at' => i <= at
    BY <1>1
  <2>2. ~astray' => ~astray
    BY <1>1
  <2>3. census' # "taking"
    BY <1>1
  <2>4. ASSUME ~astray', NEW i \in 1 .. 9, i < at'
        PROVE  Sound(Calls[i], got[Calls[i].into])' /\ Complete(Calls[i], got[Calls[i].into])'
    BY <1>7, <2>1, <2>2, <2>4
  <2>5. QED
    BY <2>3, <2>4, CallsAre DEF Answers
<1>9. QED
  BY <1>3, <1>4, <1>5, <1>8

\* The collectors, the end without a report, the report.
LEMMA OtherMainStep == HrInv /\ (Collect \/ Abort \/ Store \/ UNCHANGED hrVars) => HrInv'
<1> SUFFICES ASSUME HrInv, Collect \/ Abort \/ Store \/ UNCHANGED hrVars PROVE HrInv'
  OBVIOUS
<1> USE DEF HrInv
<1>1. /\ run' \in {run, "calls", "failed", "stored"} /\ census' \in {census, "err"}
      /\ run' = "stored" => run = "stored" \/ at > Len(Calls)
      /\ UNCHANGED <<alive, ppid, party, events, settled, unbroken, late, unshared, at, got,
                    refused, astray, must, may, disturbed, counted>>
  BY DEF Collect, Abort, Store, Call!Fail, worldVars, mainVars, callVars, hrVars
<1>2. HrTypeOK'
  BY <1>1 DEF HrTypeOK
<1>3. Tree' /\ History'
  BY <1>1 DEF Tree, History, Unused
<1>4. Progress'
  BY <1>1, CallsAre DEF Progress, HrTypeOK
<1>5. Answers'
  BY <1>1 DEF Answers, Sound, Complete, Unused, Listing, Excused, Early
<1>6. QED
  BY <1>2, <1>3, <1>4, <1>5

LEMMA HrInvNext == HrInv /\ [HrNext]_hrVars => HrInv'
<1> SUFFICES ASSUME HrInv, [HrNext]_hrVars PROVE HrInv'
  OBVIOUS
<1>1. QED
  BY WorldStep, BeginStep, RefuseStep, AnswerStep, OtherMainStep DEF HrNext, Main

(***************************************************************************)
(* The theorems.                                                           *)
(***************************************************************************)
\* The invariant holds in every state of a run in host mode.
THEOREM HostRunInvariant == HrSpec => []HrInv
BY HrInvInit, HrInvNext, PTL DEF HrSpec

\* The variables keep their types, and a call of main() is never asked for
\* more than it may give.
THEOREM HostRunTyped == HrSpec => []HrTypeOK
<1>1. HrInv => HrTypeOK
  BY DEF HrInv
<1>2. QED
  BY <1>1, HostRunInvariant, PTL

LEMMA LeaksAreExcused == HrInv => FalseLeakOnlyByRace
<1> SUFFICES ASSUME HrInv, ~astray, NEW p \in got.view_host, party[p] # "host"
             PROVE  p \in late \/ p \notin unbroken
  BY DEF FalseLeakOnlyByRace
<1>1. at > 7
  BY CallsAre DEF HrInv, HrTypeOK, Progress, Ask
<1>2. Sound(Calls[7], got.view_host)
  BY <1>1, CallsAre DEF HrInv, Answers, Ask
<1>3. QED
  BY <1>2, CallsAre DEF Sound, Excused, Ask

\* A process of a container is scanned as one of the host only by a race that
\* the report cannot exclude, however many processes there are.
THEOREM FalseLeaksAreRaces == HrSpec => []FalseLeakOnlyByRace
BY LeaksAreExcused, HostRunInvariant, PTL

\* What the answers say of a process once all of them are there.
LEMMA AllAnswered ==
    ASSUME HrInv, run = "stored", ~astray, NEW p \in alive \cap unbroken
    PROVE  /\ p \in got.view_test => p \in got.includes_test
           /\ p \in got.view_ref => p \in got.includes_ref
           /\ p \in got.includes_test => party[p] = "test"
           /\ p \in got.includes_ref => party[p] = "ref"
           /\ p \in got.excludes_test => party[p] = "test"
           /\ p \in got.excludes_ref => party[p] = "ref"
           /\ p \in got.info_test => party[p] = "test"
           /\ p \in got.info_ref => party[p] = "ref"
           /\ party[p] = "test" /\ (p \in settled \/ p \in got.view_test) => p \in got.info_test
           /\ party[p] = "ref" /\ (p \in settled \/ p \in got.view_ref) => p \in got.info_ref
           /\ p \in settled /\ party[p] = "test" => p \in got.includes_test
           /\ p \in settled /\ party[p] = "ref" => p \in got.includes_ref
           /\ p \in settled /\ ~unshared =>
                  /\ p \in got.includes_test /\ "view_test" \notin refused => p \in got.view_test
                  /\ p \in got.includes_ref /\ "view_ref" \notin refused => p \in got.view_ref
                  /\ p \notin got.excludes_test \cup got.excludes_ref /\ "view_host" \notin refused =>
                         p \in got.view_host
           /\ p \in got.view_host => party[p] = "host" \/ p \in late
<1>1. \A i \in 1 .. 9 : Sound(Calls[i], got[Calls[i].into]) /\ Complete(Calls[i], got[Calls[i].into])
  BY CallsAre DEF HrInv, Answers, Progress
<1>2. /\ Sound(Calls[1], got.includes_test) /\ Complete(Calls[1], got.includes_test)
      /\ Sound(Calls[2], got.includes_ref) /\ Complete(Calls[2], got.includes_ref)
      /\ Sound(Calls[3], got.view_test) /\ Complete(Calls[3], got.view_test)
      /\ Sound(Calls[4], got.view_ref) /\ Complete(Calls[4], got.view_ref)
      /\ Sound(Calls[5], got.excludes_test) /\ Sound(Calls[6], got.excludes_ref)
      /\ Sound(Calls[7], got.view_host) /\ Complete(Calls[7], got.view_host)
      /\ Sound(Calls[8], got.info_test) /\ Complete(Calls[8], got.info_test)
      /\ Sound(Calls[9], got.info_ref) /\ Complete(Calls[9], got.info_ref)
  BY <1>1, CallsAre DEF Ask
<1>3. p \in Pid
  BY DEF HrInv, HrTypeOK
<1>4. /\ p \in got.view_test => p \in got.includes_test
      /\ p \in got.view_ref => p \in got.includes_ref
      /\ p \in got.includes_test => party[p] = "test"
      /\ p \in got.includes_ref => party[p] = "ref"
      /\ p \in got.excludes_test => party[p] = "test"
      /\ p \in got.excludes_ref => party[p] = "ref"
      /\ p \in got.info_test => party[p] = "test"
      /\ p \in got.info_ref => party[p] = "ref"
  BY <1>2, CallsAre DEF Sound, Listing, Ask
<1>5. /\ party[p] = "test" /\ (p \in settled \/ p \in got.view_test) => p \in got.info_test
      /\ party[p] = "ref" /\ (p \in settled \/ p \in got.view_ref) => p \in got.info_ref
      /\ p \in settled /\ party[p] = "test" => p \in got.includes_test
      /\ p \in settled /\ party[p] = "ref" => p \in got.includes_ref
  BY <1>2, CallsAre DEF Complete, Early, Ask
<1>6. p \in settled /\ ~unshared =>
          /\ p \in got.includes_test /\ "view_test" \notin refused => p \in got.view_test
          /\ p \in got.includes_ref /\ "view_ref" \notin refused => p \in got.view_ref
          /\ p \notin got.excludes_test \cup got.excludes_ref /\ "view_host" \notin refused =>
                 p \in got.view_host
  BY <1>2, <1>3, CallsAre DEF Complete, Listing, Ask
<1>7. p \in got.view_host => party[p] = "host" \/ p \in late
  BY <1>2, CallsAre DEF Sound, Excused, Ask
<1>8. QED
  BY <1>4, <1>5, <1>6, <1>7

LEMMA ViewsAreDisjoint == HrInv => OneViewEach
<1> SUFFICES ASSUME HrInv, run = "stored", ~astray, NEW p \in settled \cap unbroken, NEW c \in Party
             PROVE  /\ p \in got[View[c]] => party[p] = c
                    /\ party[p] = c /\ ~unshared /\ View[c] \notin refused => p \in got[View[c]]
  BY DEF OneViewEach
<1>1. p \in alive /\ p \notin late
  BY DEF HrInv, HrTypeOK, History
<1>2. CASE c = "test"
  BY <1>1, <1>2, AllAnswered DEF View
<1>3. CASE c = "ref"
  BY <1>1, <1>3, AllAnswered DEF View
<1>4. CASE c = "host"
  BY <1>1, <1>4, AllAnswered DEF View
<1>5. QED
  BY <1>2, <1>3, <1>4, PartyFacts

\* A process that lives through all of the run is in no view but that of its
\* own party, and in that one unless a setns() of the view was refused or some
\* process changed its namespace, for any number of processes.
THEOREM EachInOneView == HrSpec => []OneViewEach
BY ViewsAreDisjoint, HostRunInvariant, PTL

LEMMA ListsAreScanned == HrInv => ReportListsScanned
<1> SUFFICES ASSUME HrInv, run = "stored", ~astray, NEW p \in alive \cap unbroken,
                    NEW c \in {"test", "ref"}
             PROVE  /\ p \in got[View[c]] => p \in got[Info[c]]
                    /\ p \in got[Info[c]] /\ p \in settled /\ ~unshared /\ View[c] \notin refused =>
                           p \in got[View[c]]
  BY DEF ReportListsScanned
<1>1. CASE c = "test"
  BY <1>1, AllAnswered DEF View, Info
<1>2. CASE c = "ref"
  BY <1>2, AllAnswered DEF View, Info
<1>3. QED
  BY <1>1, <1>2

\* The PIDs that the report lists for a container and the processes whose
\* namespaces were searched as the container's are the same, up to those that
\* came, went or were moved during the run, and to what a refused setns() left
\* unsearched.
THEOREM ListsMatchViews == HrSpec => []ReportListsScanned
BY ListsAreScanned, HostRunInvariant, PTL
=============================================================================
