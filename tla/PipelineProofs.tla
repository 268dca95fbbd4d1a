--------------------------- MODULE PipelineProofs ---------------------------
(***************************************************************************)
(* Proofs of the safety properties of Pipeline, for any number of rounds   *)
(* of the script and of containers.                                        *)
(***************************************************************************)
EXTENDS Pipeline, TLAPS

(***************************************************************************)
(* The inductive invariant.                                                *)
(***************************************************************************)
Stored == [st : {"none", "partial", "full"}, cont : 0 .. MaxContainers, host : 0 .. MaxRounds]

\* The modes that have not ended yet, and those that have, where the script is.
Ahead ==
    CASE script \in {"wait", "recopy", "host"} -> Mode
      [] script = "evaluation" -> {"evaluation", "assessment"}
      [] script = "assessment" -> {"assessment"}
      [] OTHER -> {}

Running == {"wait", "recopy"} \cup Mode

\* A report that is complete is about a container and, from the host mode on,
\* about a round.
Provenance ==
    /\ script # "off" => round > 0
    /\ file["container"].st = "full" => file["container"].cont = container
    /\ file["copy"].st = "full" => file["copy"].cont > 0
    /\ script \in Mode /\ cwd = "base" /\ file["copy"].st = "full" =>
           file["copy"].cont = container

\* The report that a mode has in memory, and the state of the file it goes to.
InMemory ==
    /\ report \in Stored
    /\ mode = "run" => report = None
    /\ mode # "run" => script \in Mode /\ report.st = "full"
    /\ mode = "create" => file[script].st = "none"
    /\ mode = "write" => file[script].st = "partial"
    /\ mode # "run" /\ script = "host" => report = Full(0, round)
    /\ mode # "run" /\ script = "evaluation" =>
           /\ file["copy"].st = "full" /\ report.cont = file["copy"].cont
           /\ file["host"].st = "full" /\ report.host = file["host"].host
    /\ mode # "run" /\ script = "assessment" =>
           file["evaluation"].st = "full" /\ report = file["evaluation"]

\* What the modes of a round that have not failed have left.
OfThisRound ==
    failed = {} =>
        /\ script \in {"evaluation", "assessment", "done"} =>
               file["host"].st = "full" /\ file["host"].host = round
        /\ script \in {"assessment", "done"} =>
               /\ file["evaluation"].st = "full" /\ file["evaluation"].host = round
               /\ cwd = "base" => file["evaluation"].cont = container
        /\ script = "done" => file["assessment"].st = "full"

\* In a round that began without reports those of the modes that failed or are
\* still to end are not complete.
NoneLeft ==
    clean /\ script \in Running \cup {"done"} =>
        \A m \in failed \cup Ahead : file[m].st # "full"

PlInv ==
    /\ PlTypeOK
    /\ ReportsMatch
    /\ Provenance
    /\ InMemory
    /\ OfThisRound
    /\ NoneLeft
    /\ script \in Running => failed \cap Ahead = {}

LEMMA PlInvInit == PlInit => PlInv
BY PipelineAssumption DEF PlInit, PlInv, PlTypeOK, ReportsMatch, Provenance, InMemory,
   OfThisRound, NoneLeft, Stored, None, Ended, Mode, Report, Running

\* The reports by name, which the steps below reason about one by one.
LEMMA Reports ==
    /\ Report = {"container", "copy", "host", "evaluation", "assessment"}
    /\ Mode = {"host", "evaluation", "assessment"}
BY DEF Report, Mode

LEMMA EntryStep == PlInv /\ Entry => PlInv'
<1> SUFFICES ASSUME PlInv, Entry PROVE PlInv'
  OBVIOUS
<1> USE DEF PlInv, PlTypeOK
<1>1. UNCHANGED <<container, script, round, cwd, mode, report, failed, printed_ok, clean>>
  BY DEF Entry
<1>2. /\ \A r \in Report \ {"container"} : file'[r] = file[r]
      /\ file' \in [Report -> Stored]
      /\ file'["container"].st = "full" => file'["container"].cont = container
      /\ entry' \in {"collect", "create", "write", "sleep"}
  BY PipelineAssumption, Reports DEF Entry, EntryCollect, EntryCreate, EntryWrite, Create, WriteAll,
     Partial, Full, Stored, Provenance
<1>3. PlTypeOK'
  BY <1>1, <1>2, Reports DEF Stored
<1>4. ReportsMatch'
  BY <1>2, Reports DEF ReportsMatch
<1>5. Provenance'
  BY <1>1, <1>2, Reports DEF Provenance
<1>6. InMemory'
  BY <1>1, <1>2, Reports DEF InMemory
<1>7. OfThisRound'
  BY <1>1, <1>2, Reports DEF OfThisRound
<1>8. NoneLeft' /\ (script \in Running => failed \cap Ahead = {})'
  BY <1>1, <1>2, Reports DEF NoneLeft, Ahead
<1>9. QED
  BY <1>3, <1>4, <1>5, <1>6, <1>7, <1>8

\* The steps of the script before the modes.
LEMMA CopyStep ==
    ASSUME PlInv, FirstCopy \/ SecondCopy, UNCHANGED <<entry, container, round, cwd, clean>>
    PROVE  PlInv'
<1> USE DEF PlInv, PlTypeOK, ScriptVars
<1>1. /\ \A r \in Report \ {"copy"} : file'[r] = file[r]
      /\ file' \in [Report -> Stored]
      /\ file'["copy"].st = "full" => file'["copy"].cont > 0
      /\ script' \in Mode /\ cwd = "base" /\ file'["copy"].st = "full" =>
             file'["copy"].cont = container
  BY PipelineAssumption, Reports DEF FirstCopy, SecondCopy, Stored, Provenance, Ended
<1>2. /\ UNCHANGED <<mode, report, failed, printed_ok>>
      /\ script \in {"wait", "recopy"} /\ script' \in {"recopy", "exit", "host"}
  BY DEF FirstCopy, SecondCopy
<1>3. PlTypeOK'
  BY <1>1, <1>2, Reports DEF Stored, Ended
<1>4. ReportsMatch'
  BY <1>1, Reports DEF ReportsMatch
<1>5. Provenance'
  BY <1>1, <1>2, Reports DEF Provenance
<1>6. InMemory'
  BY <1>1, <1>2, Reports DEF InMemory
<1>7. OfThisRound'
  BY <1>2 DEF OfThisRound
<1>8. NoneLeft' /\ (script \in Running => failed \cap Ahead = {})'
  BY <1>1, <1>2, Reports DEF NoneLeft, Ahead, Running
<1>9. QED
  BY <1>3, <1>4, <1>5, <1>6, <1>7, <1>8

\* What the end of a mode changes: the place in the script, nothing of the files.
LEMMA EndModeFacts ==
    ASSUME PlInv, NEW m \in Mode, script = m, NEW ok \in BOOLEAN, EndMode(m, ok)
    PROVE  /\ mode' = "run" /\ report' = None /\ None \in Stored
           /\ script' = After[m] /\ script' \in {"evaluation", "assessment", "done"}
           /\ failed \subseteq failed' /\ failed' \subseteq failed \cup {m}
           /\ ~ok => failed' = failed \cup {m}
           /\ failed' \subseteq printed_ok' /\ printed_ok' \subseteq Mode
           /\ Ahead' = Ahead \ {m} /\ m \in Ahead
BY PipelineAssumption, Reports DEF EndMode, PlInv, PlTypeOK, None, Stored, After, Ahead

\* A mode that fails leaves the files as they are, or half a report of its own.
LEMMA FailStep ==
    ASSUME PlInv, NEW m \in Mode, script = m, EndMode(m, FALSE),
           UNCHANGED <<file, entry, container, round, cwd, clean>>,
           clean => file[m].st # "full"
    PROVE  PlInv'
<1> USE DEF PlInv, PlTypeOK
<1>1. /\ mode' = "run" /\ report' = None /\ None \in Stored
      /\ script' \in {"evaluation", "assessment", "done"}
      /\ failed' = failed \cup {m}
      /\ failed' \subseteq printed_ok' /\ printed_ok' \subseteq Mode
      /\ Ahead' = Ahead \ {m} /\ m \in Ahead
  BY EndModeFacts, m \in Mode
<1>2. PlTypeOK'
  BY <1>1, Reports DEF Stored, None, Ended
<1>3. ReportsMatch' /\ InMemory'
  BY <1>1 DEF ReportsMatch, InMemory
<1>4. Provenance'
  BY <1>1, Reports DEF Provenance
<1>5. OfThisRound'
  BY <1>1 DEF OfThisRound
<1>6. NoneLeft' /\ (script \in Running => failed \cap Ahead = {})'
  BY <1>1, Reports DEF NoneLeft, Running
<1>7. QED
  BY <1>2, <1>3, <1>4, <1>5, <1>6

LEMMA RunModeStep ==
    ASSUME PlInv, NEW m \in Mode, RunMode(m), UNCHANGED <<entry, container, round, cwd, clean>>
    PROVE  PlInv'
<1> USE DEF PlInv, PlTypeOK
<1>1. /\ UNCHANGED <<file, script, failed, printed_ok>>
      /\ script = m /\ mode' = "check" /\ report' = Derived(m) /\ Readable(m)
  BY DEF RunMode
<1>2. /\ report' \in Stored /\ report'.st = "full"
      /\ m = "host" => report' = Full(0, round)
      /\ m = "evaluation" =>
             /\ file["copy"].st = "full" /\ report'.cont = file["copy"].cont
             /\ file["host"].st = "full" /\ report'.host = file["host"].host
      /\ m = "assessment" => file["evaluation"].st = "full" /\ report' = file["evaluation"]
  BY <1>1, PipelineAssumption, Reports DEF Derived, Readable, Inputs, Full, Stored
<1>3. InMemory'
  BY <1>1, <1>2, Reports DEF InMemory, Full
<1>4. PlTypeOK' /\ ReportsMatch' /\ Provenance' /\ OfThisRound' /\ NoneLeft'
  BY <1>1, <1>2 DEF ReportsMatch, Provenance, OfThisRound, NoneLeft, Ahead
<1>5. QED
  BY <1>1, <1>3, <1>4 DEF Ahead

\* A mode that has a report in memory checks the place for it, creates the file
\* and writes it.
LEMMA StoreStep ==
    ASSUME PlInv, NEW m \in Mode, StoreCheck(m) \/ StoreCreate(m),
           UNCHANGED <<entry, container, round, cwd, clean>>
    PROVE  PlInv'
<1> USE DEF PlInv, PlTypeOK
<1>1. clean => file[m].st # "full"
  BY Reports DEF StoreCheck, StoreCreate, NoneLeft, Ahead, Running
<1>2. CASE EndMode(m, FALSE) /\ UNCHANGED file
  BY <1>1, <1>2, FailStep DEF StoreCheck, StoreCreate
<1>3. CASE StoreCheck(m) /\ ~Refuses(m)
  <2>1. /\ UNCHANGED <<file, script, report, failed, printed_ok>>
        /\ script = m /\ mode = "check" /\ mode' = "create" /\ file[m].st = "none"
    BY <1>3 DEF StoreCheck, Refuses
  <2>2. InMemory'
    BY <2>1 DEF InMemory, Full
  <2>3. PlTypeOK' /\ ReportsMatch' /\ Provenance' /\ OfThisRound' /\ NoneLeft'
    BY <2>1 DEF ReportsMatch, Provenance, OfThisRound, NoneLeft, Ahead
  <2>4. QED
    BY <2>1, <2>2, <2>3 DEF Ahead
<1>4. CASE StoreCreate(m) /\ Create(m) /\ mode' = "write"
  <2>1. /\ UNCHANGED <<script, report, failed, printed_ok>>
        /\ script = m /\ mode = "create" /\ file[m].st = "none"
        /\ file'[m].st = "partial" /\ \A r \in Report \ {m} : file'[r] = file[r]
        /\ file' \in [Report -> Stored]
    BY <1>4, PipelineAssumption, Reports DEF StoreCreate, Create, Partial, Stored, InMemory, EndMode
  <2>2. PlTypeOK'
    BY <1>4, <2>1, Reports DEF Stored
  <2>3. ReportsMatch' /\ Provenance'
    BY <2>1, Reports DEF ReportsMatch, Provenance
  <2>4. InMemory'
    BY <1>4, <2>1, Reports DEF InMemory, Full
  <2>5. OfThisRound' /\ NoneLeft'
    BY <2>1, Reports DEF OfThisRound, NoneLeft, Ahead
  <2>6. QED
    BY <2>1, <2>2, <2>3, <2>4, <2>5 DEF Ahead
<1>5. QED
  BY <1>2, <1>3, <1>4 DEF StoreCheck, StoreCreate

LEMMA WriteStep ==
    ASSUME PlInv, NEW m \in Mode, StoreWrite(m), UNCHANGED <<entry, container, round, cwd, clean>>
    PROVE  PlInv'
<1> USE DEF PlInv, PlTypeOK
<1>1. script = m /\ mode = "write" /\ file[m].st = "partial" /\ report \in Stored /\ report.st = "full"
  BY DEF StoreWrite, InMemory
<1>2. CASE EndMode(m, FALSE) /\ UNCHANGED file
  BY <1>1, <1>2, FailStep
<1>3. CASE EndMode(m, TRUE) /\ WriteAll(m, report)
  <2>1. /\ file'[m] = report /\ \A r \in Report \ {m} : file'[r] = file[r]
        /\ file' \in [Report -> Stored]
    BY <1>1, <1>3, Reports DEF WriteAll, Stored
  <2>2. /\ mode' = "run" /\ report' = None /\ None \in Stored
        /\ script' = After[m] /\ script' \in {"evaluation", "assessment", "done"}
        /\ failed' = failed
        /\ failed' \subseteq printed_ok' /\ printed_ok' \subseteq Mode
        /\ Ahead' = Ahead \ {m} /\ m \in Ahead
    BY <1>1, <1>3, EndModeFacts DEF EndMode
  <2>3. PlTypeOK'
    BY <1>1, <2>1, <2>2, Reports DEF Stored, Ended, None, InMemory, Full, Provenance
  <2>4. ReportsMatch'
    BY <1>1, <2>1, Reports DEF ReportsMatch, InMemory
  <2>5. Provenance' /\ InMemory'
    BY <1>1, <2>1, <2>2, Reports DEF Provenance, InMemory
  <2>6. OfThisRound'
    BY <1>1, <2>1, <2>2, Reports DEF OfThisRound, InMemory, After, Full, Provenance
  <2>7. NoneLeft' /\ (script \in Running => failed \cap Ahead = {})'
    <3>1. script \in Running /\ m \notin failed /\ failed \cap Ahead' = {}
      BY <1>1, <2>2 DEF Running
    <3>2. \A k \in failed' \cup Ahead' : k \in Report \ {m} /\ k \in failed \cup Ahead
      BY <2>2, <3>1, Reports DEF Ahead
    <3>3. QED
      BY <2>1, <2>2, <3>1, <3>2 DEF NoneLeft
  <2>8. QED
    BY <2>3, <2>4, <2>5, <2>6, <2>7
<1>4. QED
  BY <1>2, <1>3 DEF StoreWrite

LEMMA ScriptStep == PlInv /\ Script => PlInv'
<1> SUFFICES ASSUME PlInv, Script PROVE PlInv'
  OBVIOUS
<1> UNCHANGED <<entry, container, round, cwd, clean>>
  BY DEF Script
<1>1. CASE FirstCopy \/ SecondCopy
  BY <1>1, CopyStep
<1>2. ASSUME NEW m \in Mode, RunMode(m) \/ StoreCheck(m) \/ StoreCreate(m) \/ StoreWrite(m)
      PROVE  PlInv'
  BY <1>2, RunModeStep, StoreStep, WriteStep
<1>3. ASSUME NEW m \in Mode, RunFails(m) PROVE PlInv'
  <2>1. clean => file[m].st # "full"
    BY <1>3, Reports DEF RunFails, PlInv, NoneLeft, Ahead, Running
  <2>2. QED
    BY <1>3, <2>1, FailStep DEF RunFails
<1>4. QED
  BY <1>1, <1>2, <1>3 DEF Script

\* What happens to the script from outside.
LEMMA OutsideStep ==
    PlInv /\ (CopyFails \/ Kill \/ Start \/ RunContainers \/ RemoveReports) => PlInv'
<1> SUFFICES ASSUME PlInv PROVE CopyFails \/ Kill \/ Start \/ RunContainers \/ RemoveReports => PlInv'
  OBVIOUS
<1> USE DEF PlInv, PlTypeOK
<1>1. ASSUME CopyFails PROVE PlInv'
  <2>1. PlTypeOK' /\ ReportsMatch' /\ Provenance' /\ InMemory'
    BY <1>1, Reports DEF CopyFails, ReportsMatch, Provenance, InMemory, Ended
  <2>2. OfThisRound' /\ NoneLeft' /\ (script \in Running => failed \cap Ahead = {})'
    BY <1>1, Reports DEF CopyFails, OfThisRound, NoneLeft, Ahead, Running
  <2>3. QED
    BY <2>1, <2>2
<1>2. ASSUME Kill PROVE PlInv'
  <2>1. PlTypeOK' /\ ReportsMatch' /\ Provenance'
    BY <1>2, Reports DEF Kill, ReportsMatch, Provenance, Ended, None
  <2>2. InMemory' /\ OfThisRound' /\ NoneLeft' /\ (script \in Running => failed \cap Ahead = {})'
    BY <1>2, Reports, PipelineAssumption
       DEF Kill, InMemory, OfThisRound, NoneLeft, Ahead, Running, None, Stored, Ended
  <2>3. QED
    BY <2>1, <2>2
<1>3. ASSUME Start PROVE PlInv'
  <2>1. PlTypeOK'
    BY <1>3, PipelineAssumption DEF Start, Ended
  <2>2. ReportsMatch' /\ Provenance' /\ InMemory'
    BY <1>3, Reports DEF Start, ReportsMatch, Provenance, InMemory, Ended
  <2>3. OfThisRound' /\ NoneLeft' /\ (script \in Running => failed \cap Ahead = {})'
    BY <1>3, Reports DEF Start, OfThisRound, NoneLeft, Ahead, Running
  <2>4. QED
    BY <2>1, <2>2, <2>3
<1>4. ASSUME RunContainers \/ RemoveReports PROVE PlInv'
  <2>1. /\ script' = "off" /\ UNCHANGED <<mode, report, failed, printed_ok, round, cwd, clean>>
        /\ mode = "run"
        /\ file' \in [Report -> Stored]
        /\ \A r \in Report \ {"container"} :
               r # "copy" => file'[r] = file[r] \/ \A s \in Mode : file'[s] = None
        /\ container' \in 1 .. MaxContainers
        /\ entry' \in {"collect", "create", "write", "sleep"}
    BY <1>4, PipelineAssumption, Reports
       DEF RunContainers, RemoveReports, InMemory, None, Stored, Ended
  <2>2. /\ file'["container"].st = "full" => file'["container"].cont = container'
        /\ file'["copy"].st = "full" => file'["copy"].cont > 0
    BY <1>4, Reports DEF RunContainers, RemoveReports, Provenance, None
  <2>3. PlTypeOK' /\ ReportsMatch'
    BY <2>1, Reports DEF Stored, ReportsMatch, Ended, None
  <2>4. Provenance' /\ InMemory'
    BY <2>1, <2>2, Reports DEF Provenance, InMemory
  <2>5. OfThisRound' /\ NoneLeft' /\ (script \in Running => failed \cap Ahead = {})'
    BY <2>1, Reports DEF OfThisRound, NoneLeft, Running
  <2>6. QED
    BY <2>3, <2>4, <2>5
<1>5. QED
  BY <1>1, <1>2, <1>3, <1>4

LEMMA PlInvNext == PlInv /\ [PlNext]_plVars => PlInv'
<1>1. PlInv /\ UNCHANGED plVars => PlInv'
  BY DEF plVars, PlInv, PlTypeOK, ReportsMatch, Provenance, InMemory, OfThisRound, NoneLeft, Ahead
<1>2. QED
  BY <1>1, EntryStep, ScriptStep, OutsideStep DEF PlNext

THEOREM PipelineInvariant == PlSpec => []PlInv
BY PlInvInit, PlInvNext, PTL DEF PlSpec

(***************************************************************************)
(* The properties.                                                         *)
(***************************************************************************)
\* The variables keep their types, and the reports of host and evaluation mode
\* say which run and which container they are about.
THEOREM PipelineTyped == PlSpec => []PlTypeOK
<1>1. PlInv => PlTypeOK
  BY DEF PlInv
<1>2. QED
  BY <1>1, PipelineInvariant, PTL

\* store_report() overwrites nothing, so what lies next to each other belongs
\* together, whatever interrupted and repeated runs of the script left there.
THEOREM StoredReportsMatch == PlSpec => []ReportsMatch
<1>1. PlInv => ReportsMatch
  BY DEF PlInv
<1>2. QED
  BY <1>1, PipelineInvariant, PTL

\* A script that went through without a failed mode assessed this host in this
\* round; one that began without reports and had a failed mode has no verdict.
THEOREM VerdictsAreFresh == PlSpec => []VerdictIsOfThisRun
<1>1. PlInv => VerdictIsOfThisRun
  <2> SUFFICES ASSUME PlInv, script = "done" PROVE VerdictIsOfThisRun
    BY DEF VerdictIsOfThisRun
  <2>1. failed = {} =>
            /\ file["assessment"].st = "full" /\ file["assessment"].host = round
            /\ cwd = "base" => file["assessment"].cont = container
    BY DEF PlInv, OfThisRound, ReportsMatch
  <2>2. clean /\ failed # {} => file["assessment"].st # "full"
    BY Reports DEF PlInv, PlTypeOK, NoneLeft, ReportsMatch
  <2>3. QED
    BY <2>1, <2>2 DEF VerdictIsOfThisRun
<1>2. QED
  BY <1>1, PipelineInvariant, PTL
=============================================================================
