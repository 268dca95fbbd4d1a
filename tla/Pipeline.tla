------------------------------- MODULE Pipeline -------------------------------
(***************************************************************************)
(* The example pipeline: entrypoint.sh runs checkc in the test container,  *)
(* run_example_podman.sh (scripts/podman) waits for its report, copies it  *)
(* out of the container and runs the host, evaluation and assessment modes *)
(* of main() one after the other.  The modes hand each other files, which  *)
(* store_report() creates, writes and refuses to overwrite.  The script    *)
(* may be interrupted at any point, and be started again over the files    *)
(* that are left.                                                          *)
(***************************************************************************)
EXTENDS Naturals

CONSTANTS
    MaxRounds,      \* bound on how often the script is started
    MaxContainers   \* bound on how often the containers are

ASSUME PipelineAssumption == MaxRounds \in Nat /\ MaxContainers \in Nat \ {0}

Mode == {"host", "evaluation", "assessment"}

\* The report in the container, its copy in the directory of the reports, and
\* the reports of the modes next to it.
Report == {"container", "copy"} \cup Mode

VARIABLES
    file,           \* what is at the place of each report
    entry,          \* where the checkc of entrypoint.sh is
    container,      \* the number of the test container
    script,         \* where run_example_podman.sh is
    round,          \* how often it was started
    cwd,            \* whether ./reports is the directory of the reports,
                    \* another one, or none
    mode,           \* where the checkc that the script runs is
    report,         \* the report it has in memory
    failed,         \* history: the modes that failed in this round
    printed_ok,     \* the modes after which the script printed return code 0
    clean           \* history: there were no reports when this round began

plVars == <<file, entry, container, script, round, cwd, mode, report, failed,
            printed_ok, clean>>

\* A file, and which container and which run of the host mode it is about.
Content == [st : {"none", "partial", "full"}, cont : Nat, host : Nat]

None == [st |-> "none", cont |-> 0, host |-> 0]
Partial == [st |-> "partial", cont |-> 0, host |-> 0]
Full(cont, host) == [st |-> "full", cont |-> cont, host |-> host]

Ended == {"off", "done", "exit"}

PlInit ==
    /\ file = [r \in Report |-> None]
    /\ entry = "collect"
    /\ container = 1
    /\ script = "off"
    /\ round = 0
    /\ cwd = "base"
    /\ mode = "run"
    /\ report = None
    /\ failed = {}
    /\ printed_ok = {}
    /\ clean = TRUE

(***************************************************************************)
(* store_report(), the steps that a crash or another reader may come       *)
(* between: is_file(), File::create(), which truncates, and write_all().   *)
(***************************************************************************)
\* Mutant of Refuses: what is there is overwritten.
Refuses_Never(r) == FALSE

Refuses(r) == file[r].st # "none"

Create(r) == file' = [file EXCEPT ![r] = Partial]

WriteAll(r, data) == file' = [file EXCEPT ![r] = data]

(***************************************************************************)
(* entrypoint.sh in a fresh container.  When checkc fails, at any point,   *)
(* the container goes on sleeping.                                         *)
(***************************************************************************)
EntryCollect ==
    /\ entry = "collect"
    /\ entry' \in {"create", "sleep"}
    /\ UNCHANGED file

EntryCreate ==
    /\ entry = "create"
    /\ \/ ~Refuses("container") /\ Create("container") /\ entry' = "write"
       \/ UNCHANGED file /\ entry' = "sleep"

EntryWrite ==
    /\ entry = "write"
    /\ WriteAll("container", Full(container, 0)) \/ UNCHANGED file
    /\ entry' = "sleep"

Entry ==
    /\ EntryCollect \/ EntryCreate \/ EntryWrite
    /\ UNCHANGED <<container, script, round, cwd, mode, report, failed, printed_ok, clean>>

(***************************************************************************)
(* run_example_podman.sh: the loop that waits for the container's report,  *)
(* and the second copy.                                                    *)
(***************************************************************************)
ScriptVars == <<mode, report, failed, printed_ok>>

\* Mutant of FirstCopy: the script waits for a report that is complete.
FirstCopy_WaitFull ==
    /\ script = "wait"
    /\ file["container"].st = "full"
    /\ file' = [file EXCEPT !["copy"] = file["container"]]
    /\ script' = "recopy"
    /\ UNCHANGED ScriptVars

\* podman cp finds the file, however much of it is written.
FirstCopy ==
    /\ script = "wait"
    /\ file["container"].st # "none"
    /\ file' = [file EXCEPT !["copy"] = file["container"]]
    /\ script' = "recopy"
    /\ UNCHANGED ScriptVars

\* After two seconds the file is copied to ./reports; set -e.
SecondCopy ==
    /\ script = "recopy"
    /\ IF file["container"].st = "none" \/ cwd = "none"
       THEN script' = "exit" /\ UNCHANGED file
       ELSE /\ script' = "host"
            /\ file' = IF cwd = "base"
                       THEN [file EXCEPT !["copy"] = file["container"]] ELSE file
    /\ UNCHANGED ScriptVars

(***************************************************************************)
(* The modes.  The status of `checkc ... | tee` is that of tee, so the     *)
(* script goes on after a mode that failed.                                *)
(***************************************************************************)
After == [host |-> "evaluation", evaluation |-> "assessment", assessment |-> "done"]

EndMode(m, ok) ==
    /\ script' = After[m]
    /\ mode' = "run"
    /\ report' = None
    /\ failed' = IF ok THEN failed ELSE failed \cup {m}
    /\ printed_ok' = printed_ok \cup {m}

\* What a mode reads, and what it makes of that.  Mutant of Derived: the
\* evaluation takes the host's part from the container's report.
Inputs == [host |-> {}, evaluation |-> {"copy", "host"}, assessment |-> {"evaluation"}]

Derived_Container(m) ==
    CASE m = "host" -> Full(0, round)
      [] m = "evaluation" -> Full(file["copy"].cont, file["copy"].host)
      [] m = "assessment" -> file["evaluation"]

Derived(m) ==
    CASE m = "host" -> Full(0, round)
      [] m = "evaluation" -> Full(file["copy"].cont, file["host"].host)
      [] m = "assessment" -> file["evaluation"]

Readable(m) == \A r \in Inputs[m] : file[r].st = "full"

RunMode(m) ==
    /\ script = m /\ mode = "run"
    /\ Readable(m)
    /\ report' = Derived(m)
    /\ mode' = "check"
    /\ UNCHANGED <<file, script, failed, printed_ok>>

\* A file is missing, or ends before its last brace; or a collector fails.
RunFails(m) ==
    /\ script = m /\ mode = "run"
    /\ m # "host" => ~Readable(m)
    /\ EndMode(m, FALSE)
    /\ UNCHANGED file

\* Mutant of StoreCheck: the mode ends without an error.
StoreCheck_Quiet(m) ==
    /\ script = m /\ mode = "check"
    /\ IF Refuses(m)
       THEN EndMode(m, TRUE)
       ELSE mode' = "create" /\ UNCHANGED <<script, report, failed, printed_ok>>
    /\ UNCHANGED file

StoreCheck(m) ==
    /\ script = m /\ mode = "check"
    /\ IF Refuses(m)
       THEN EndMode(m, FALSE)
       ELSE mode' = "create" /\ UNCHANGED <<script, report, failed, printed_ok>>
    /\ UNCHANGED file

StoreCreate(m) ==
    /\ script = m /\ mode = "create"
    /\ \/ Create(m) /\ mode' = "write" /\ UNCHANGED <<script, report, failed, printed_ok>>
       \/ UNCHANGED file /\ EndMode(m, FALSE)

StoreWrite(m) ==
    /\ script = m /\ mode = "write"
    /\ \/ WriteAll(m, report) /\ EndMode(m, TRUE)
       \/ UNCHANGED file /\ EndMode(m, FALSE)

Script ==
    /\ \/ FirstCopy \/ SecondCopy
       \/ \E m \in Mode :
            RunMode(m) \/ RunFails(m) \/ StoreCheck(m) \/ StoreCreate(m) \/ StoreWrite(m)
    /\ UNCHANGED <<entry, container, round, cwd, clean>>

(***************************************************************************)
(* What may happen to the script: podman fails; the user interrupts it,    *)
(* which takes checkc with it, starts it again, restarts the containers    *)
(* (run_containers.sh) in between, or removes all reports.                 *)
(***************************************************************************)
\* podman cp fails with another message than the one that the loop waits by.
CopyFails ==
    /\ script = "wait"
    /\ script' = "recopy"
    /\ UNCHANGED <<file, entry, container, round, cwd, mode, report, failed, printed_ok, clean>>

Kill ==
    /\ script \notin Ended
    /\ script' = "exit"
    /\ mode' = "run"
    /\ report' = None
    /\ UNCHANGED <<file, entry, container, round, cwd, failed, printed_ok, clean>>

Start ==
    /\ script \in Ended
    /\ round < MaxRounds
    /\ round' = round + 1
    /\ script' = "wait"
    /\ cwd' \in {"base", "other", "none"}
    /\ failed' = {}
    /\ printed_ok' = {}
    /\ clean' = \A r \in Report \ {"container"} : file[r].st = "none"
    /\ UNCHANGED <<file, entry, container, mode, report>>

RunContainers ==
    /\ script \in Ended
    /\ container < MaxContainers
    /\ container' = container + 1
    /\ entry' = "collect"
    /\ file' = [file EXCEPT !["container"] = None]
    /\ script' = "off"
    /\ UNCHANGED <<round, cwd, mode, report, failed, printed_ok, clean>>

RemoveReports ==
    /\ script \in Ended
    /\ file' = [r \in Report |-> IF r = "container" THEN file[r] ELSE None]
    /\ script' = "off"
    /\ UNCHANGED <<entry, container, round, cwd, mode, report, failed, printed_ok, clean>>

PlNext == Entry \/ Script \/ CopyFails \/ Kill \/ Start \/ RunContainers \/ RemoveReports

PlSpec == PlInit /\ [][PlNext]_plVars /\ WF_plVars(Script)

(***************************************************************************)
(* Properties.                                                             *)
(***************************************************************************)
\* Every variable has its type, and a report is about something.
PlTypeOK ==
    /\ file \in [Report -> [st : {"none", "partial", "full"},
                           cont : 0 .. MaxContainers, host : 0 .. MaxRounds]]
    /\ entry \in {"collect", "create", "write", "sleep"}
    /\ container \in 1 .. MaxContainers
    /\ script \in Ended \cup {"wait", "recopy"} \cup Mode
    /\ round \in 0 .. MaxRounds
    /\ cwd \in {"base", "other", "none"}
    /\ mode \in {"run", "check", "create", "write"}
    /\ report.st \in {"none", "full"}
    /\ failed \subseteq printed_ok /\ printed_ok \subseteq Mode
    /\ clean \in BOOLEAN
    /\ file["host"].st = "full" => file["host"].host > 0
    /\ file["evaluation"].st = "full" => file["evaluation"].cont > 0 /\ file["evaluation"].host > 0

\* The reports that lie next to each other belong together: the assessment is
\* that of the evaluation report, which is about the host report, over any
\* number of interrupted and repeated runs of the script.
ReportsMatch ==
    /\ file["evaluation"].st = "full" =>
        file["host"].st = "full" /\ file["evaluation"].host = file["host"].host
    /\ file["assessment"].st = "full" => file["assessment"] = file["evaluation"]

\* When the script is done and no mode failed, the verdict is about the host as
\* it is in this run, and about this test container, whatever was left behind
\* by earlier runs; only a script that is not started where its reports are may
\* have taken the copy from an earlier container, when podman cp failed.  Where
\* no reports were left, there is no verdict after a mode has failed, the
\* evaluation of a half-written report included.
VerdictIsOfThisRun ==
    script = "done" =>
        /\ failed = {} =>
            /\ file["assessment"].st = "full" /\ file["assessment"].host = round
            /\ cwd = "base" => file["assessment"].cont = container
        /\ clean /\ failed # {} => file["assessment"].st # "full"

\* The script waits for the container no longer than for its report: from then
\* on it ends, although it may have copied half of it.
ScriptEnds ==
    (script = "wait" /\ file["container"].st # "none") ~> (script \in {"done", "exit"})

\* info "Executed checkc in host mode, return code: $?", and the same after
\* the other modes: the script reports 0 only if the mode succeeded.
ReturnCodeReported == printed_ok \cap failed = {}
=============================================================================
