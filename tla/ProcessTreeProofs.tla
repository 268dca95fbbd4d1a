-------------------------- MODULE ProcessTreeProofs --------------------------
(***************************************************************************)
(* What the proofs about processes and their parents need to know of       *)
(* ancestors and descendants, for any function from PIDs to parents.       *)
(***************************************************************************)
EXTENDS ProcessTree, TLAPS

\* A set that has the parents of its processes.
IsLine(ppid, S) ==
    /\ S \subseteq DOMAIN ppid
    /\ \A q \in S : ppid[q] \in DOMAIN ppid => ppid[q] \in S

LEMMA LinesAre ==
    ASSUME NEW ppid, NEW P, NEW Q, P \subseteq Q, Q \subseteq DOMAIN ppid
    PROVE  \A S : S \in Lines(ppid, P, Q) <=> P \subseteq S /\ S \subseteq Q /\ IsLine(ppid, S)
<1> SUFFICES ASSUME NEW S
             PROVE  S \in Lines(ppid, P, Q) <=> P \subseteq S /\ S \subseteq Q /\ IsLine(ppid, S)
  OBVIOUS
<1>1. S \in {P \cup T : T \in SUBSET (Q \ P)} <=> P \subseteq S /\ S \subseteq Q
  <2>1. ASSUME P \subseteq S, S \subseteq Q PROVE S \in {P \cup T : T \in SUBSET (Q \ P)}
    <3>1. S = P \cup (S \ P) /\ S \ P \in SUBSET (Q \ P)
      BY <2>1
    <3>2. QED
      BY <3>1
  <2>2. QED
    BY <2>1
<1>2. QED
  BY <1>1 DEF Lines, IsLine

\* The lineage is the least line.
LEMMA LineageIsLeast ==
    ASSUME NEW ppid, NEW P, P \subseteq DOMAIN ppid
    PROVE  /\ P \subseteq Lineage(ppid, P) /\ IsLine(ppid, Lineage(ppid, P))
           /\ \A S : P \subseteq S /\ IsLine(ppid, S) => Lineage(ppid, P) \subseteq S
<1> DEFINE With == Lines(ppid, P, DOMAIN ppid)
           Least == {q \in DOMAIN ppid : \A S \in With : q \in S}
<1>1. \A S : S \in With <=> P \subseteq S /\ S \subseteq DOMAIN ppid /\ IsLine(ppid, S)
  BY LinesAre
<1>2. P \subseteq Least
  BY <1>1
<1>3. \A S \in With : Least \subseteq S
  <2>1. DOMAIN ppid \in With
    BY <1>1 DEF IsLine
  <2>2. QED
    BY <2>1
<1>4. IsLine(ppid, Least)
  BY <1>1 DEF IsLine
<1>5. Least \in With
  BY <1>1, <1>2, <1>4 DEF IsLine
<1>6. \E S \in With : \A T \in With : S \subseteq T
  BY <1>3, <1>5
<1>7. Lineage(ppid, P) = CHOOSE S \in With : \A T \in With : S \subseteq T
  BY DEF Lineage
<1> HIDE DEF With, Least
<1>8. Lineage(ppid, P) \in With /\ \A T \in With : Lineage(ppid, P) \subseteq T
  BY <1>6, <1>7
<1>9. QED
  BY <1>1, <1>8 DEF IsLine

\* p is above its descendants in every line.
LEMMA DescendantsAre ==
    ASSUME NEW ppid, NEW p \in DOMAIN ppid
    PROVE  /\ \A q : q \in Descendants(ppid, p) <=>
                  q \in DOMAIN ppid /\ \A S : IsLine(ppid, S) /\ q \in S => p \in S
           /\ p \in Descendants(ppid, p)
<1>1. \A S : S \in Lines(ppid, {}, DOMAIN ppid \ {p}) <=> p \notin S /\ IsLine(ppid, S)
  BY LinesAre DEF IsLine
<1>2. QED
  BY <1>1 DEF Descendants, IsLine

\* A child of p or of a process below p is below p.
LEMMA ChildIsBelow ==
    ASSUME NEW ppid, NEW p \in DOMAIN ppid, NEW q \in DOMAIN ppid,
           ppid[q] \in Descendants(ppid, p)
    PROVE  q \in Descendants(ppid, p)
BY DescendantsAre DEF IsLine

\* A process above which another is found that is not below it has no parent
\* among its descendants.
LEMMA NoCycle ==
    ASSUME NEW ppid, NEW p \in DOMAIN ppid, NEW r \in DOMAIN ppid,
           p \in Descendants(ppid, r), r \notin Descendants(ppid, p)
    PROVE  ppid[p] \notin Descendants(ppid, p)
<1> SUFFICES ASSUME ppid[p] \in Descendants(ppid, p) PROVE FALSE
  OBVIOUS
<1>1. IsLine(ppid, Descendants(ppid, p) \cap Lineage(ppid, {p}))
  <2>1. IsLine(ppid, Lineage(ppid, {p}))
    BY LineageIsLeast
  <2>2. ASSUME NEW q \in Descendants(ppid, p) \ {p}, ppid[q] \in DOMAIN ppid
        PROVE  ppid[q] \in Descendants(ppid, p)
    <3> SUFFICES ASSUME NEW S, IsLine(ppid, S), ppid[q] \in S PROVE p \in S
      BY <2>2, DescendantsAre
    <3>1. IsLine(ppid, S \cup {q})
      BY DescendantsAre DEF IsLine
    <3>2. QED
      BY <3>1, DescendantsAre
  <2>3. QED
    BY <2>1, <2>2, DescendantsAre DEF IsLine
<1>2. p \in Descendants(ppid, p) \cap Lineage(ppid, {p})
  BY DescendantsAre, LineageIsLeast
<1>3. r \in Descendants(ppid, p)
  BY <1>1, <1>2, DescendantsAre
<1>4. QED
  BY <1>3
=============================================================================
