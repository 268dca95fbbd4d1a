------------------------------ MODULE Judgement ------------------------------
(***************************************************************************)
(* The modes `checkc evaluation` and `checkc assessment` of src/main.rs:   *)
(* the first turns the collected configuration into an evaluation report,  *)
(* the second, a run of its own, turns that report into the assessment.    *)
(* The properties relate the assessment to the configuration, across both. *)
(***************************************************************************)
EXTENDS Assessment

CONSTANTS
    Configs,    \* the configurations that were collected
    NoReport    \* a report that is not written yet

ASSUME ConfigAssumption == Configs \subseteq Config

VARIABLES
    config,                 \* container_data_raw.json and host_data_raw.json
    evaluation_report,
    assessment_report

vars == <<config, evaluation_report, assessment_report>>

Init ==
    /\ config \in Configs
    /\ evaluation_report = NoReport
    /\ assessment_report = NoReport

Evaluate ==
    /\ evaluation_report = NoReport
    /\ evaluation_report' = EvalResult(config)
    /\ UNCHANGED <<config, assessment_report>>

Assess ==
    /\ evaluation_report # NoReport
    /\ assessment_report = NoReport
    /\ assessment_report' = AssessmentReport(evaluation_report)
    /\ UNCHANGED <<config, evaluation_report>>

Next == Evaluate \/ Assess

Spec == Init /\ [][Next]_vars

(***************************************************************************)
(* Properties.                                                             *)
(***************************************************************************)
Verdict == {Ok, Info, Warn, Error}

\* The verdicts are criticalities, never CRITICALITY_UNSPECIFIED.
JudgementTypeOK ==
    /\ config \in Config
    /\ assessment_report # NoReport =>
        {assessment_report.goal_s1, assessment_report.goal_s2,
         assessment_report.goal_s3, assessment_report.goal_s4} \subseteq Verdict

\* No permitted capability gets lost between the eight categories, and none
\* is judged twice: a capability that no category lists would be free.
EveryCapabilityJudged ==
    assessment_report # NoReport =>
        /\ assessment_report.capabilities = config.cap_prm
        /\ \A c \in config.cap_prm :
            \E k \in Category :
                {l \in Category : c \in evaluation_report.categories[l].capabilities} = {k}

\* Goal S1 is met by a container, and only by one, that shares no namespace,
\* owns every namespace but the user namespace itself, has a pivoted root, is
\* not mapped to root and, if it may chroot, has no device it should not have.
\* There is nothing between OK and ERROR: a capability that CAP_MAP rates INFO
\* or WARN is only ever found where a missing namespace is an ERROR already.
IsolatedFromHost(c) ==
    /\ c.unshared = NsType
    /\ \A n \in NsType \ {"user"} : c.owner[n] = "own"
    /\ c.root = "pivot"
    /\ "root" \notin c.uid_map_parents
    /\ "SYS_CHROOT" \in c.cap_prm => assessment_report.goal_s2 = Ok

S1MeansIsolated ==
    assessment_report # NoReport =>
        assessment_report.goal_s1 = IF IsolatedFromHost(config) THEN Ok ELSE Error

\* Goal S3 is met only if no flag file was seen where the test container's
\* files must not be, through whichever of the scans.
S3MeansNoLeak ==
    assessment_report # NoReport =>
        (assessment_report.goal_s3 = Ok <=>
            /\ \A f \in config.host_flags : f.uuid => f.in_root
            /\ config.ref_flags = {}
            /\ config.unique_mapping)

\* Taking a namespace of its own, or dropping a capability, never makes the
\* verdict on a container worse, for any of the goals.
TakesNs(c, n) ==
    [c EXCEPT !.unshared = @ \cup {n},
              !.owner[n] = IF Unprivileged(c) THEN "own" ELSE "host"]

TakesUserNs(c) ==
    [c EXCEPT !.unshared = @ \cup {"user"},
              !.owner = [n \in NsType |-> IF n = "user" THEN "host" ELSE "own"]]

DropsCap(c, p) == [c EXCEPT !.cap_prm = @ \ {p}]

Harder(c) ==
    {TakesUserNs(c)}
        \cup {TakesNs(c, n) : n \in NsType \ {"user"}}
        \cup {DropsCap(c, p) : p \in c.cap_prm}

NoWorse(r, s) ==
    /\ r.goal_s1 <= s.goal_s1
    /\ r.goal_s2 <= s.goal_s2
    /\ r.goal_s3 <= s.goal_s3
    /\ r.goal_s4 <= s.goal_s4

HardeningNeverHurts ==
    assessment_report # NoReport =>
        \A c \in Harder(config) :
            NoWorse(AssessmentReport(EvalResult(c)), assessment_report)
=============================================================================
