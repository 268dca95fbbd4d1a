------------------------------- MODULE HostRun -------------------------------
(***************************************************************************)
(* The host mode of main() in src/main.rs: which processes does the report *)
(* take for those of the test container, of the reference container and of *)
(* the host?  The run asks get_container_pids() six times and              *)
(* fs_config_hostview() three times, and each answer is a Census: of the   *)
(* processes that this module's events leave to qualify, as ContainerPids  *)
(* and HostSearch are shown to answer for the events of theirs.  All three *)
(* parties go on starting and ending processes between and during the      *)
(* calls.  Kernel threads, which have no parent among the PIDs here and of *)
(* which a view owes nothing, are left out.                                *)
(***************************************************************************)
EXTENDS ProcessTree, Sequences

CONSTANTS
    Pid,            \* the PIDs; 1 is the init process of the host
    TestInit,       \* --pid-container
    RefInit,        \* --pid-ref-container
    MaxEvents       \* bound on what the processes do and setns() refuses

InitOf == [host |-> 1, test |-> TestInit, ref |-> RefInit]
Party == DOMAIN InitOf
Lasting == {InitOf[c] : c \in Party}

ASSUME HostRunAssumption ==
    /\ Pid \subseteq Nat \ {0}
    /\ Lasting \subseteq Pid
    /\ Cardinality(Lasting) = 3
    /\ MaxEvents \in Nat

VARIABLES
    alive,          \* the PIDs of processes
    ppid,           \* their parents
    party,          \* where each process was started
    events,         \* how many events have happened
    settled,        \* history: alive since checkc started
    unbroken,       \* history: never lost an ancestor, and not started in a
                    \* container from outside
    late,           \* history: started since the excludes of its party began
    unshared,       \* history: some process changed its mount namespace
    run,            \* where main() is
    at,             \* the next call
    got,            \* the answers of the calls
    refused,        \* history: the views in which setns() was refused on the
                    \* way to a search
    astray,         \* a view has left checkc in a foreign mount namespace
    census, must, may, disturbed, counted   \* the call under way, see Census

worldVars == <<alive, ppid, party, events, settled, unbroken, late, unshared>>
mainVars == <<run, at, got, refused, astray>>
callVars == <<census, must, may, disturbed, counted>>

Call == INSTANCE Census

hrVars == <<worldVars, mainVars, callVars>>

(***************************************************************************)
(* The calls of main(), in its order: what is asked, about whom, and the   *)
(* variable or the field of the report that keeps the answer.              *)
(***************************************************************************)
Ask(ask, of, into) == [ask |-> ask, of |-> of, into |-> into]

\* Mutants of Calls: the PIDs of the report are computed before the views.
Calls_InfoFirst ==
    <<Ask("pids", "test", "info_test"), Ask("pids", "ref", "info_ref"),
      Ask("pids", "test", "includes_test"), Ask("pids", "ref", "includes_ref"),
      Ask("view", "test", "view_test"), Ask("view", "ref", "view_ref"),
      Ask("pids", "test", "excludes_test"), Ask("pids", "ref", "excludes_ref"),
      Ask("view", "host", "view_host")>>

Calls ==
    <<Ask("pids", "test", "includes_test"), Ask("pids", "ref", "includes_ref"),
      Ask("view", "test", "view_test"), Ask("view", "ref", "view_ref"),
      Ask("pids", "test", "excludes_test"), Ask("pids", "ref", "excludes_ref"),
      Ask("view", "host", "view_host"),
      Ask("pids", "test", "info_test"), Ask("pids", "ref", "info_ref")>>

Kept == {Calls[i].into : i \in DOMAIN Calls}

\* Mutants of Listing: only the test container is excluded from the host's
\* view; the lists of the first two views are used again for the third.
Listing_TestOnly(of) ==
    CASE of = "test" -> got.includes_test
      [] of = "ref"  -> got.includes_ref
      [] of = "host" -> Pid \ got.excludes_test

Listing_Stale(of) ==
    CASE of = "test" -> got.includes_test
      [] of = "ref"  -> got.includes_ref
      [] of = "host" -> Pid \ (got.includes_test \cup got.includes_ref)

\* The PIDs that the include or exclude list of a view admits.
Listing(of) ==
    CASE of = "test" -> got.includes_test
      [] of = "ref"  -> got.includes_ref
      [] of = "host" -> Pid \ (got.excludes_test \cup got.excludes_ref)

\* Mutant of Members: the init process is not counted.
Members_NoInit(of) == {p \in alive \ Lasting : party[p] = of}

\* The processes that a call is about: those of a container, and those that
\* surely are because their parents lead to its init; for a view, the listed.
Members(of) == {p \in alive : party[p] = of}
Linked(of) == alive \cap Descendants(ppid, InitOf[of])

MustAnswer(c) == IF c.ask = "pids" THEN Linked(c.of) ELSE alive \cap Listing(c.of)
MayAnswer(c) == IF c.ask = "pids" THEN Members(c.of) ELSE alive \cap Listing(c.of)

(***************************************************************************)
(* The three parties.  PIDs are handed out in ascending order and are not  *)
(* used twice.  A container is entered by podman exec: the parent of the   *)
(* new process is outside.  An exit includes that the process is reaped.   *)
(***************************************************************************)
Unused == {p \in Pid : ppid[p] = NoParent /\ p # 1}

Happens ==
    /\ events < MaxEvents
    /\ events' = events + 1

FirstUnused(q) == q \in Unused /\ \A r \in Unused : q <= r

\* The PIDs to exclude from the host's view have been asked for.
Excluding(c) ==
    \E i \in 1 .. at :
        /\ i < at \/ census = "taking"
        /\ Calls[i].of = c /\ Calls[i].into \in {"excludes_test", "excludes_ref"}

\* The process q is new: a call that is under way may or may not see it.
Arrives(p, q, c) ==
    /\ Happens
    /\ p \in alive
    /\ FirstUnused(q)
    /\ alive' = alive \cup {q}
    /\ ppid' = [ppid EXCEPT ![q] = p]
    /\ party' = [party EXCEPT ![q] = c]
    /\ unbroken' = IF c = party[p] /\ p \in unbroken THEN unbroken \cup {q} ELSE unbroken
    /\ late' = IF Excluding(c) THEN late \cup {q} ELSE late
    /\ may' = IF census # "taking" THEN may
              ELSE IF Calls[at].ask = "pids"
                   THEN IF c = Calls[at].of THEN may \cup {q} ELSE may
                   ELSE may \cup ({q} \cap Listing(Calls[at].of))
    /\ UNCHANGED <<settled, unshared, must, disturbed>>

Fork(p, q) == Arrives(p, q, party[p])

Enter(p, q) ==
    /\ party[p] = "host"
    /\ \E c \in {"test", "ref"} : Arrives(p, q, c)

Below(p) == (alive \cap Descendants(ppid, p)) \ {p}

Exit(p) ==
    /\ Happens
    /\ p \in alive \ Lasting
    /\ alive' = alive \ {p}
    /\ ppid' = [q \in Pid |-> IF q # p /\ ppid[q] = p THEN InitOf[party[q]] ELSE ppid[q]]
    /\ settled' = settled \ {p}
    /\ unbroken' = unbroken \ Below(p)
    /\ must' = IF census = "taking" /\ Calls[at].ask = "pids"
               THEN must \ ({p} \cup Below(p)) ELSE must \ {p}
    /\ UNCHANGED <<party, late, unshared, may, disturbed>>

\* unshare() or setns(): a view under way owes nothing any more.
Unshare(p) ==
    /\ Happens
    /\ p \in alive
    /\ unshared' = TRUE
    /\ must' = IF census = "taking" /\ Calls[at].ask = "view" THEN {} ELSE must
    /\ UNCHANGED <<alive, ppid, party, settled, unbroken, late, may, disturbed>>

World ==
    /\ \E p, q \in Pid : Fork(p, q) \/ Enter(p, q) \/ Exit(p) \/ Unshare(p)
    /\ UNCHANGED <<mainVars, census, counted>>

(***************************************************************************)
(* main().                                                                 *)
(***************************************************************************)
\* The collectors before the first call: any of them may end the run.
Collect ==
    /\ run = "collect"
    /\ run' \in {"calls", "failed"}
    /\ UNCHANGED <<worldVars, at, got, refused, astray, callVars>>

\* Astray, checkc reads the procfs of a container: no answer is owed, and
\* any PID may be in it.  Every call may fail: a process may vanish, and have a
\* name or a command line that is no text, which no event here is about.
Begin ==
    /\ run = "calls"
    /\ census = "ok" /\ at <= Len(Calls)
    /\ census' = "taking"
    /\ must' = IF astray THEN {} ELSE MustAnswer(Calls[at])
    /\ may' = IF astray THEN Pid ELSE MayAnswer(Calls[at])
    /\ disturbed' = TRUE
    /\ counted' = {}
    /\ UNCHANGED <<worldVars, mainVars>>

\* setns() is refused on the way to a search: the view goes on in the namespace
\* that checkc happens to be in, or with the next PID, and may leave namespaces
\* unsearched.  It owes nothing any more, and returns its result all the same.
Refuse ==
    /\ Happens
    /\ census = "taking"
    /\ Calls[at].ask = "view"
    /\ refused' = refused \cup {Calls[at].into}
    /\ must' = {}
    /\ UNCHANGED <<alive, ppid, party, settled, unbroken, late, unshared,
                   run, at, got, astray, census, may, disturbed, counted>>

\* The one answer considered after checkc went astray.
AstrayAnswer == Pid

\* fs_config_generic() returns its result also when the setns() that should
\* bring checkc back is refused.
Answer ==
    /\ Call!Return
    /\ astray => counted' = AstrayAnswer
    /\ got' = [got EXCEPT ![Calls[at].into] = counted']
    /\ at' = at + 1
    /\ astray' \in {astray, astray \/ Calls[at].ask = "view"}
    /\ UNCHANGED <<worldVars, run, refused>>

\* `?` and unwrap() end the run without a report.
Abort ==
    /\ Call!Fail
    /\ run' = "failed"
    /\ UNCHANGED <<worldVars, at, got, refused, astray>>

Store ==
    /\ run = "calls"
    /\ census = "ok" /\ at > Len(Calls)
    /\ run' = "stored"
    /\ UNCHANGED <<worldVars, at, got, refused, astray, callVars>>

Main == Collect \/ Begin \/ Refuse \/ Answer \/ Abort \/ Store

(***************************************************************************)
(* The run.  Every call ends (Census), so main() goes on.                  *)
(***************************************************************************)
\* checkc may be started at any time in the life of the two containers.
HrInit ==
    /\ \E A \in SUBSET (Pid \ Lasting) :
        /\ \A p \in A, q \in Pid \ (A \cup Lasting) : p < q
        /\ alive = A \cup Lasting
        /\ \E parent \in [A -> alive] :
            /\ \A p \in A : parent[p] < p
            /\ ppid = [p \in Pid |-> IF p \in A THEN parent[p]
                                    ELSE IF p \in Lasting \ {1} THEN 1 ELSE NoParent]
        /\ party \in [Pid -> Party]
        /\ \A c \in Party : party[InitOf[c]] = c
        /\ \A p \in A : party[ppid[p]] \in {party[p], "host"}
        /\ \A p \in Pid \ alive : party[p] = "host"
    /\ events = 0
    /\ settled = alive
    /\ unbroken = UNION {{p \in Linked(c) : party[p] = c} : c \in Party}
    /\ late = {}
    /\ unshared = FALSE
    /\ run = "collect"
    /\ at = 1
    /\ got = [k \in Kept |-> {}]
    /\ refused = {} /\ astray = FALSE
    /\ census = "ok"
    /\ must = {} /\ may = {} /\ disturbed = FALSE /\ counted = {}

HrNext == Main \/ World

HrSpec == HrInit /\ [][HrNext]_hrVars

(***************************************************************************)
(* Properties.                                                             *)
(***************************************************************************)
\* Every variable has its type, and a call is asked for less than it may give.
HrTypeOK ==
    /\ settled \subseteq alive /\ alive \subseteq Pid
    /\ ppid \in [Pid -> Pid \cup {NoParent}]
    /\ party \in [Pid -> Party]
    /\ events \in 0 .. MaxEvents
    /\ unbroken \subseteq Pid /\ late \subseteq Pid
    /\ refused \subseteq Kept
    /\ {unshared, astray, disturbed} \subseteq BOOLEAN
    /\ run \in {"collect", "calls", "stored", "failed"}
    /\ at \in 1 .. Len(Calls) + 1
    /\ got \in [Kept -> SUBSET Pid]
    /\ census \in {"taking", "ok", "err"}
    /\ must \subseteq may /\ may \subseteq Pid /\ counted \subseteq Pid

\* A process of a container is scanned as one of the host, where the flag files
\* it sees count as leaks, only if it was started after the run had begun to
\* ask which PIDs to exclude, entered its container from outside, or lost an
\* ancestor; or if checkc had not found back to its own mount namespace.
FalseLeakOnlyByRace ==
    \A p \in got.view_host :
        party[p] # "host" => p \in late \/ p \notin unbroken \/ astray

View == [host |-> "view_host", test |-> "view_test", ref |-> "view_ref"]
Info == [test |-> "info_test", ref |-> "info_ref"]

\* A process that was there from the first collector to the end of the views,
\* under parents that did not change, is in no other view than that of its own
\* party, whatever is started and ended around it; and it is in that one unless
\* a process changed its namespace or a setns() of that view was refused.
OneViewEach ==
    run = "stored" /\ ~astray =>
        \A p \in settled \cap unbroken, c \in Party :
            /\ p \in got[View[c]] => party[p] = c
            /\ party[p] = c /\ ~unshared /\ View[c] \notin refused => p \in got[View[c]]

\* The report is about one set of processes: one whose namespace was searched
\* as one of a container, and that still runs under parents that did not
\* change, is in the list of the PIDs of that container, and the other way
\* round if it was there when checkc started, no process changed its namespace
\* and no setns() of that view was refused.
ReportListsScanned ==
    run = "stored" /\ ~astray =>
        \A p \in alive \cap unbroken, c \in {"test", "ref"} :
            /\ p \in got[View[c]] => p \in got[Info[c]]
            /\ p \in got[Info[c]] /\ p \in settled /\ ~unshared /\ View[c] \notin refused =>
                   p \in got[View[c]]
=============================================================================
