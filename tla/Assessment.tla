------------------------------ MODULE Assessment ------------------------------
(***************************************************************************)
(* assess_eval_result() of src/assessment/mod.rs and CAP_MAP of            *)
(* src/config/cap_sec.rs: the verdict on an evaluation report, for each of *)
(* the four security goals.  Goal S2 is judged first, because CAP_SYS_CHROOT*)
(* is judged by it under goal S1.                                          *)
(*                                                                         *)
(* A SecResult keeps the worst criticality appended to it, so a verdict is *)
(* the greatest of a set; the texts that explain it are left out.          *)
(***************************************************************************)
EXTENDS Evaluation

\* enum Criticality of assessment.proto, whose order append() relies on.
Unspecified == 0
Ok == 1
Info == 2
Warn == 3
Error == 4

\* SecResult::append, for a set of criticalities.
Worst(S) == CHOOSE m \in S : \A c \in S : c <= m

\* Mutant of Expect: the state of a SecResult starts at its default.
Expect_Default(holds) == IF holds THEN Unspecified ELSE Error

Expect(holds) == IF holds THEN Ok ELSE Error

(***************************************************************************)
(* CAP_MAP: the namespaces that make a capability harmless, those that     *)
(* make it a matter of a warning, and what it is otherwise.                *)
(***************************************************************************)
CapMap ==
    [c \in Capability |->
        [ok |->
            CASE c \in {"CHECKPOINT_RESTORE", "SYS_BOOT"} -> {"user", "pid"}
              [] c = "IPC_OWNER" -> {"user", "ipc"}
              [] c = "NET_BROADCAST" -> {"user", "network"}
              [] c = "SYS_CHROOT" -> {}
              [] OTHER -> {"user"},
         warn |->
            CASE c \in {"KILL", "SYS_PTRACE"} -> {"pid"}
              [] c \in {"NET_BIND_SERVICE", "NET_RAW"} -> {"network"}
              [] OTHER -> {},
         default |->
            CASE c \in {"AUDIT_READ", "BLOCK_SUSPEND", "DAC_OVERRIDE", "PERFMON",
                        "SYS_NICE", "SYS_PACCT"} -> Warn
              [] c = "MKNOD" -> Info
              [] OTHER -> Error]]

\* A set of namespaces that is required and there.
Covered(required, ns_set) == required # {} /\ required \subseteq ns_set

AssessCap(c, ns_set) ==
    IF Covered(CapMap[c].ok, ns_set) THEN Unspecified
    ELSE IF Covered(CapMap[c].warn, ns_set) THEN Warn
    ELSE CapMap[c].default

\* CAP_SYS_CHROOT: it takes both namespaces, a root of its own, and goal S2.
AssessSysChroot(ns_set, rooted, goal_s2) ==
    IF {"user", "mount"} \subseteq ns_set /\ rooted THEN goal_s2 ELSE Error

AssessCapabilities(ns_set, caps, rooted, goal_s2) ==
    Worst({Unspecified}
          \cup {AssessCap(c, ns_set) : c \in caps \ {"SYS_CHROOT"}}
          \cup {AssessSysChroot(ns_set, rooted, goal_s2) : c \in caps \cap {"SYS_CHROOT"}})

(***************************************************************************)
(* The goals, each of an evaluation report e.                              *)
(***************************************************************************)
ActiveNs(e) == UNION {e.categories[k].active : k \in Category}
DesiredNs(e) == UNION {e.categories[k].desired : k \in Category}
Capabilities(e) == UNION {e.categories[k].capabilities : k \in Category}
Rooted(e) == e.chroot /\ e.pivot_root

AssessTests(e, names) == Expect(\A t \in names : e.tests[t])

GoalS2(e) == AssessTests(e, {"dev_whitelist_compliance", "mknod_whitelist_compliance"})

GoalS1(e, goal_s2) ==
    Worst({Expect(Rooted(e)),
           Expect(DesiredNs(e) \subseteq ActiveNs(e)),
           AssessCapabilities(ActiveNs(e), Capabilities(e), Rooted(e), goal_s2),
           AssessTests(e, {"user_ns_maps_to_non_root_user"})})

GoalS3(e) ==
    AssessTests(e, {"user_ns_mapping_unique", "flag_matches_refcontainer",
                    "flag_matches_host"})

CgroupsNamespaceUsed(e) ==
    e.categories["resource_control"].desired = e.categories["resource_control"].active

GoalS4(e) ==
    Worst({Expect(CgroupsNamespaceUsed(e)),
           AssessTests(e, {"cpu_max_limited", "memory_max_limited"})})

AssessmentReport(e) ==
    LET goal_s2 == GoalS2(e) IN
    [unprivileged |-> e.unprivileged,
     goal_s1 |-> GoalS1(e, goal_s2),
     goal_s2 |-> goal_s2,
     goal_s3 |-> GoalS3(e),
     goal_s4 |-> GoalS4(e),
     capabilities |-> Capabilities(e),
     namespace_conf |-> ActiveNs(e)]
=============================================================================
