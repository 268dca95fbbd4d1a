----------------------------- MODULE ProcessTree -----------------------------
(***************************************************************************)
(* Who descends from whom, for a function ppid from PIDs to the PIDs of    *)
(* their parents.                                                          *)
(***************************************************************************)
EXTENDS Naturals, FiniteSets

\* The parent, as /proc/<pid>/stat shows it, of a process that has none.
NoParent == 0

\* The sets between P and Q that have the parent of each of their processes.
Lines(ppid, P, Q) ==
    {S \in {P \cup T : T \in SUBSET (Q \ P)} :
        \A q \in S : ppid[q] \in DOMAIN ppid => ppid[q] \in S}

\* The processes in P and their ancestors, up to PID 1 or to a process without
\* a parent.
Lineage(ppid, P) ==
    LET With == Lines(ppid, P, DOMAIN ppid)
    IN  CHOOSE S \in With : \A T \in With : S \subseteq T

\* p and the processes below it: those that no line without p has.
Descendants(ppid, p) == DOMAIN ppid \ UNION Lines(ppid, {}, DOMAIN ppid \ {p})
=============================================================================
