---------------------------- MODULE VerdictProofs ----------------------------
(***************************************************************************)
(* Proofs about the verdicts, for every configuration that can be          *)
(* collected, where TLC looks at a selection; and about the devices whose  *)
(* test is one of them, for every number of files, entries and accesses.   *)
(***************************************************************************)
EXTENDS Judgement, DeviceProbe, TLAPS

Criticality == {Unspecified, Ok, Info, Warn, Error}

\* The worst of a set of criticalities is one of them and at least each.
LEMMA WorstIsGreatest ==
    ASSUME NEW S, S \subseteq Criticality, S # {}
    PROVE  Worst(S) \in S /\ \A c \in S : c <= Worst(S)
<1> USE DEF Criticality, Unspecified, Ok, Info, Warn, Error
<1>1. \E m \in S : \A c \in S : c <= m
  <2>1. CASE 4 \in S
    BY <2>1
  <2>2. CASE 4 \notin S /\ 3 \in S
    BY <2>2
  <2>3. CASE 4 \notin S /\ 3 \notin S /\ 2 \in S
    BY <2>3
  <2>4. CASE 4 \notin S /\ 3 \notin S /\ 2 \notin S /\ 1 \in S
    BY <2>4
  <2>5. CASE S = {0}
    BY <2>5
  <2>6. QED
    BY <2>1, <2>2, <2>3, <2>4, <2>5
<1>2. QED
  BY <1>1 DEF Worst

LEMMA CapMapTyped ==
    ASSUME NEW c \in Capability
    PROVE  /\ CapMap[c].ok \subseteq NsType
           /\ CapMap[c].default \in {Info, Warn, Error}
           /\ CapMap[c].ok = {} <=> c = "SYS_CHROOT"
BY DEF CapMap, NsType

\* With every namespace active, no capability but CAP_SYS_CHROOT is rated.
LEMMA CapsHarmlessInside ==
    ASSUME NEW c \in Capability \ {"SYS_CHROOT"}
    PROVE  AssessCap(c, NsType) = Unspecified
BY CapMapTyped DEF AssessCap, Covered

LEMMA AssessCapTyped ==
    ASSUME NEW c \in Capability, NEW ns_set
    PROVE  AssessCap(c, ns_set) \in Criticality
BY CapMapTyped DEF AssessCap, Criticality

LEMMA ExpectTyped == \A b \in BOOLEAN : Expect(b) \in {Ok, Error} /\ (Expect(b) = Ok <=> b)
BY DEF Expect, Ok, Error

\* The categories cover the namespaces and the capabilities.
LEMMA CategoriesCoverNs == UNION {CategoryNs[k] : k \in Category} = NsType
<1>1. \A n \in NsType : \E k \in Category : n \in CategoryNs[k]
  BY DEF CategoryNs, Category, NsType
<1>2. \A k \in Category : CategoryNs[k] \subseteq NsType
  BY DEF CategoryNs, Category, NsType
<1>3. QED
  BY <1>1, <1>2

LEMMA CategoriesCoverCaps ==
    \A c \in Capability : \E k \in Category : c \in CategoryCaps[k]
BY DEF CategoryCaps, Category, Capability

LEMMA CategoriesAreDisjoint ==
    \A k, l \in Category : k # l => CategoryCaps[k] \cap CategoryCaps[l] = {}
BY DEF CategoryCaps, Category

(***************************************************************************)
(* What the assessment sees of the evaluation of a configuration.          *)
(***************************************************************************)
LEMMA SeesNs ==
    ASSUME NEW c \in Config
    PROVE  /\ DesiredNs(EvalResult(c)) = NsType
           /\ ActiveNs(EvalResult(c)) = NsSet(c)
           /\ NsSet(c) \subseteq NsType
<1>1. NsSet(c) \subseteq NsType
  BY DEF NsSet, Unprivileged, Config, RawConfig, NsType
<1>2. \A k \in Category : /\ EvalResult(c).categories[k].desired = CategoryNs[k]
                          /\ EvalResult(c).categories[k].active = CategoryNs[k] \cap NsSet(c)
  BY DEF EvalResult, CategoryOf
<1>3. DesiredNs(EvalResult(c)) = NsType
  BY <1>2, CategoriesCoverNs DEF DesiredNs
<1>4. ActiveNs(EvalResult(c)) = NsSet(c)
  BY <1>1, <1>2, CategoriesCoverNs DEF ActiveNs
<1>5. QED
  BY <1>1, <1>3, <1>4

LEMMA SeesCaps ==
    ASSUME NEW c \in Config
    PROVE  /\ Capabilities(EvalResult(c)) = c.cap_prm
           /\ \A p \in c.cap_prm : \E k \in Category :
                {l \in Category : p \in EvalResult(c).categories[l].capabilities} = {k}
<1>1. c.cap_prm \subseteq Capability
  BY DEF Config, RawConfig
<1>2. \A k \in Category : EvalResult(c).categories[k].capabilities = CategoryCaps[k] \cap c.cap_prm
  BY DEF EvalResult, CategoryOf
<1>3. Capabilities(EvalResult(c)) = c.cap_prm
  BY <1>1, <1>2, CategoriesCoverCaps DEF Capabilities
<1>4. ASSUME NEW p \in c.cap_prm
      PROVE  \E k \in Category :
                {l \in Category : p \in EvalResult(c).categories[l].capabilities} = {k}
  <2>1. PICK k \in Category : p \in CategoryCaps[k]
    BY <1>1, CategoriesCoverCaps
  <2>2. \A l \in Category : p \in CategoryCaps[l] => l = k
    BY <2>1, CategoriesAreDisjoint
  <2>3. QED
    BY <1>2, <2>1, <2>2
<1>5. QED
  BY <1>3, <1>4

LEMMA SeesTests ==
    ASSUME NEW c \in Config
    PROVE  /\ EvalResult(c).tests = Tests(c)
           /\ Rooted(EvalResult(c)) <=> c.root = "pivot"
<1>1. EvalResult(c).tests = Tests(c)
  BY DEF EvalResult
<1>2. EvalResult(c).chroot = (c.root # "host") /\ EvalResult(c).pivot_root = (c.root = "pivot")
  BY DEF EvalResult
<1>3. Rooted(EvalResult(c)) <=> c.root = "pivot"
  BY <1>2 DEF Rooted
<1>4. QED
  BY <1>1, <1>3

\* Two lists of a verdict's parts: a verdict of OK is OK in every part, and
\* one part that is an error makes the verdict one.
LEMMA WorstOfParts ==
    ASSUME NEW S, S \subseteq Criticality, S # {}
    PROVE  /\ Error \in S => Worst(S) = Error
           /\ S \subseteq {Unspecified, Ok} /\ Ok \in S => Worst(S) = Ok
           /\ S = {Unspecified} => Worst(S) = Unspecified
           /\ Worst(S) \in Criticality
<1>1. Worst(S) \in S /\ \A c \in S : c <= Worst(S)
  BY WorstIsGreatest
<1>2. Worst(S) \in Criticality
  BY <1>1
<1> USE DEF Criticality, Unspecified, Ok, Info, Warn, Error
<1>3. Error \in S => Worst(S) = Error
  BY <1>1, <1>2
<1>4. S \subseteq {Unspecified, Ok} /\ Ok \in S => Worst(S) = Ok
  BY <1>1, <1>2
<1>5. S = {Unspecified} => Worst(S) = Unspecified
  BY <1>1
<1>6. QED
  BY <1>2, <1>3, <1>4, <1>5

LEMMA GoalTyped ==
    ASSUME NEW c \in Config
    PROVE  /\ GoalS2(EvalResult(c)) \in {Ok, Error}
           /\ GoalS3(EvalResult(c)) \in {Ok, Error}
           /\ GoalS4(EvalResult(c)) \in {Ok, Error}
<1>1. \A names : AssessTests(EvalResult(c), names) \in {Ok, Error}
  BY DEF AssessTests, Expect
<1>2. Expect(CgroupsNamespaceUsed(EvalResult(c))) \in {Ok, Error}
  BY DEF Expect
<1>3. GoalS4(EvalResult(c)) \in {Ok, Error}
  BY <1>1, <1>2, WorstIsGreatest DEF GoalS4, Criticality
<1>4. QED
  BY <1>1, <1>3 DEF GoalS2, GoalS3

\* The capabilities alone, where every namespace is active.
LEMMA CapabilitiesInside ==
    ASSUME NEW held \in SUBSET Capability, NEW goal_s2 \in {Ok, Error}
    PROVE  AssessCapabilities(NsType, held, TRUE, goal_s2) =
               IF "SYS_CHROOT" \in held THEN goal_s2 ELSE Unspecified
<1> DEFINE rated == {AssessCap(c, NsType) : c \in held \ {"SYS_CHROOT"}}
           special == {AssessSysChroot(NsType, TRUE, goal_s2) : c \in held \cap {"SYS_CHROOT"}}
<1>1. rated \subseteq {Unspecified}
  BY CapsHarmlessInside
<1>2. special = IF "SYS_CHROOT" \in held THEN {goal_s2} ELSE {}
  BY DEF AssessSysChroot, NsType
<1>3. AssessCapabilities(NsType, held, TRUE, goal_s2) = Worst({Unspecified} \cup rated \cup special)
  BY DEF AssessCapabilities
<1>4. {Unspecified} \cup rated = {Unspecified}
  BY <1>1
<1> HIDE DEF rated, special
<1>5. CASE "SYS_CHROOT" \in held
  <2>1. AssessCapabilities(NsType, held, TRUE, goal_s2) = Worst({Unspecified, goal_s2})
    BY <1>2, <1>3, <1>4, <1>5
  <2>2. {Unspecified, goal_s2} \subseteq Criticality
    BY DEF Criticality
  <2>3. Worst({Unspecified, goal_s2}) = goal_s2
    BY <2>2, WorstOfParts
  <2>4. QED
    BY <1>5, <2>1, <2>3
<1>6. CASE "SYS_CHROOT" \notin held
  <2>1. AssessCapabilities(NsType, held, TRUE, goal_s2) = Worst({Unspecified})
    BY <1>2, <1>3, <1>4, <1>6
  <2>2. QED
    BY <1>6, <2>1, WorstOfParts DEF Criticality
<1>7. QED
  BY <1>5, <1>6

LEMMA CapabilitiesTyped ==
    ASSUME NEW c \in Config, NEW goal_s2 \in {Ok, Error}, NEW rooted, NEW ns_set
    PROVE  AssessCapabilities(ns_set, c.cap_prm, rooted, goal_s2) \in Criticality
<1> DEFINE S == {Unspecified}
                  \cup {AssessCap(p, ns_set) : p \in c.cap_prm \ {"SYS_CHROOT"}}
                  \cup {AssessSysChroot(ns_set, rooted, goal_s2) : p \in c.cap_prm \cap {"SYS_CHROOT"}}
<1>1. c.cap_prm \subseteq Capability
  BY DEF Config, RawConfig
<1>2. {AssessCap(p, ns_set) : p \in c.cap_prm \ {"SYS_CHROOT"}} \subseteq Criticality
  BY <1>1, AssessCapTyped
<1>3. AssessSysChroot(ns_set, rooted, goal_s2) \in Criticality
  BY DEF AssessSysChroot, Criticality
<1>4. S \subseteq Criticality /\ S # {}
  BY <1>2, <1>3 DEF Criticality
<1>5. AssessCapabilities(ns_set, c.cap_prm, rooted, goal_s2) = Worst(S)
  BY DEF AssessCapabilities
<1> HIDE DEF S
<1>6. QED
  BY <1>4, <1>5, WorstOfParts

\* The container's own namespaces are all eight of them just in case it has a
\* user namespace and that one owns the seven others.
LEMMA AllNsOwned ==
    ASSUME NEW c \in Config
    PROVE  NsSet(c) = NsType <=> /\ c.unshared = NsType
                                 /\ \A n \in NsType \ {"user"} : c.owner[n] = "own"
<1>1. c.unshared \subseteq NsType
  BY DEF Config, RawConfig
<1>2. "user" \in NsType
  BY DEF NsType
<1>3. CASE "user" \in c.unshared
  <2>1. NsSet(c) = {"user"} \cup {n \in c.unshared : c.owner[n] = "own"}
    BY <1>3 DEF NsSet, Unprivileged
  <2>2. QED
    BY <1>1, <1>2, <1>3, <2>1
<1>4. CASE "user" \notin c.unshared
  <2>1. "user" \notin NsSet(c)
    BY <1>4 DEF NsSet, Unprivileged
  <2>2. QED
    BY <1>2, <1>4, <2>1
<1>5. QED
  BY <1>3, <1>4

\* Goal S1 of a configuration, given the verdict of goal S2 on it.
Isolated(c, goal_s2) ==
    /\ NsSet(c) = NsType
    /\ c.root = "pivot"
    /\ "root" \notin c.uid_map_parents
    /\ "SYS_CHROOT" \in c.cap_prm => goal_s2 = Ok

LEMMA GoalS1IsIsolation ==
    ASSUME NEW c \in Config, NEW goal_s2 \in {Ok, Error}
    PROVE  GoalS1(EvalResult(c), goal_s2) = IF Isolated(c, goal_s2) THEN Ok ELSE Error
<1> DEFINE e == EvalResult(c)
           root == Expect(Rooted(e))
           ns == Expect(DesiredNs(e) \subseteq ActiveNs(e))
           rated == AssessCapabilities(ActiveNs(e), Capabilities(e), Rooted(e), goal_s2)
           user == AssessTests(e, {"user_ns_maps_to_non_root_user"})
<1>1. GoalS1(e, goal_s2) = Worst({root, ns, rated, user})
  BY DEF GoalS1
<1>2. root = (IF c.root = "pivot" THEN Ok ELSE Error)
  BY SeesTests DEF Expect
<1>3. ns = (IF NsSet(c) = NsType THEN Ok ELSE Error)
  BY SeesNs DEF Expect
<1>4. user = (IF "root" \notin c.uid_map_parents THEN Ok ELSE Error)
  <2>1. user = Expect(\A t \in {"user_ns_maps_to_non_root_user"} : Tests(c)[t])
    BY SeesTests DEF AssessTests
  <2>2. Tests(c)["user_ns_maps_to_non_root_user"] = ("root" \notin c.uid_map_parents)
    BY DEF Tests
  <2>3. QED
    BY <2>1, <2>2 DEF Expect
<1>5. rated = AssessCapabilities(NsSet(c), c.cap_prm, Rooted(e), goal_s2)
  BY SeesNs, SeesCaps
<1>6. rated \in Criticality
  BY <1>5, CapabilitiesTyped
<1>7. c.cap_prm \in SUBSET Capability
  BY DEF Config, RawConfig
<1>8. c.root = "pivot" => Rooted(e) = TRUE
  BY SeesTests DEF Rooted
<1>9. NsSet(c) = NsType /\ c.root = "pivot"
        => rated = IF "SYS_CHROOT" \in c.cap_prm THEN goal_s2 ELSE Unspecified
  BY <1>5, <1>7, <1>8, CapabilitiesInside
<1> HIDE DEF e, root, ns, rated, user
<1>10. {root, ns, rated, user} \subseteq Criticality
  BY <1>2, <1>3, <1>4, <1>6 DEF Criticality
<1>11. CASE Isolated(c, goal_s2)
  <2>1. root = Ok /\ ns = Ok /\ user = Ok /\ rated \in {Unspecified, Ok}
    BY <1>2, <1>3, <1>4, <1>9, <1>11 DEF Isolated
  <2>2. {root, ns, rated, user} \subseteq {Unspecified, Ok} /\ Ok \in {root, ns, rated, user}
    BY <2>1
  <2>3. QED
    BY <1>1, <1>10, <1>11, <2>2, WorstOfParts DEF e
<1>12. CASE ~Isolated(c, goal_s2)
  <2>1. Error \in {root, ns, rated, user}
    BY <1>2, <1>3, <1>4, <1>9, <1>12 DEF Isolated
  <2>2. QED
    BY <1>1, <1>10, <1>12, <2>1, WorstOfParts DEF e
<1>13. QED
  BY <1>11, <1>12

(***************************************************************************)
(* The theorems.  Each report is a function of the report before it, and   *)
(* so the assessment is one of the configuration.                          *)
(***************************************************************************)
ReportInv ==
    /\ config \in Config
    /\ evaluation_report # NoReport => evaluation_report = EvalResult(config)
    /\ assessment_report # NoReport =>
        /\ evaluation_report = EvalResult(config)
        /\ assessment_report = AssessmentReport(EvalResult(config))

LEMMA ReportInvariant == Spec => []ReportInv
<1>1. Init => ReportInv
  BY ConfigAssumption DEF Init, ReportInv
<1>2. ReportInv /\ [Next]_vars => ReportInv'
  <2> SUFFICES ASSUME ReportInv, [Next]_vars PROVE ReportInv'
    OBVIOUS
  <2> USE DEF ReportInv
  <2>1. CASE Evaluate
    BY <2>1 DEF Evaluate
  <2>2. CASE Assess
    BY <2>2 DEF Assess
  <2>3. CASE UNCHANGED vars
    BY <2>3 DEF vars
  <2>4. QED
    BY <2>1, <2>2, <2>3 DEF Next
<1>3. QED
  BY <1>1, <1>2, PTL DEF Spec

\* The verdict on every goal is one of the four criticalities that say
\* something, for every configuration.
THEOREM VerdictsTyped == Spec => []JudgementTypeOK
<1>1. ReportInv => JudgementTypeOK
  <2> SUFFICES ASSUME ReportInv, assessment_report # NoReport
               PROVE  {assessment_report.goal_s1, assessment_report.goal_s2,
                       assessment_report.goal_s3, assessment_report.goal_s4} \subseteq Verdict
    BY DEF ReportInv, JudgementTypeOK
  <2> DEFINE e == EvalResult(config)
  <2>1. config \in Config /\ assessment_report = AssessmentReport(e)
    BY DEF ReportInv
  <2>2. /\ assessment_report.goal_s1 = GoalS1(e, GoalS2(e))
        /\ assessment_report.goal_s2 = GoalS2(e)
        /\ assessment_report.goal_s3 = GoalS3(e)
        /\ assessment_report.goal_s4 = GoalS4(e)
    BY <2>1 DEF AssessmentReport
  <2>3. GoalS1(e, GoalS2(e)) \in {Ok, Error}
    BY <2>1, GoalTyped, GoalS1IsIsolation
  <2>4. QED
    BY <2>1, <2>2, <2>3, GoalTyped DEF Verdict
<1>2. QED
  BY <1>1, ReportInvariant, PTL

\* Every permitted capability reaches the assessment, through one category.
THEOREM CapabilitiesJudged == Spec => []EveryCapabilityJudged
<1>1. ReportInv => EveryCapabilityJudged
  <2> SUFFICES ASSUME ReportInv, assessment_report # NoReport
               PROVE  /\ assessment_report.capabilities = config.cap_prm
                      /\ \A c \in config.cap_prm : \E k \in Category :
                            {l \in Category :
                                c \in evaluation_report.categories[l].capabilities} = {k}
    BY DEF EveryCapabilityJudged
  <2>1. /\ config \in Config
        /\ evaluation_report = EvalResult(config)
        /\ assessment_report = AssessmentReport(EvalResult(config))
    BY DEF ReportInv
  <2>2. assessment_report.capabilities = Capabilities(EvalResult(config))
    BY <2>1 DEF AssessmentReport
  <2>3. QED
    BY <2>1, <2>2, SeesCaps
<1>2. QED
  BY <1>1, ReportInvariant, PTL

\* Goal S1 is met exactly by the containers that are isolated in every one of
\* its respects, and is an error for every other.
THEOREM S1IsIsolation == Spec => []S1MeansIsolated
<1>1. ReportInv => S1MeansIsolated
  <2> SUFFICES ASSUME ReportInv, assessment_report # NoReport
               PROVE  assessment_report.goal_s1
                        = IF IsolatedFromHost(config) THEN Ok ELSE Error
    BY DEF S1MeansIsolated
  <2> DEFINE e == EvalResult(config)
  <2>1. config \in Config /\ assessment_report = AssessmentReport(e)
    BY DEF ReportInv
  <2>2. assessment_report.goal_s1 = GoalS1(e, GoalS2(e)) /\ assessment_report.goal_s2 = GoalS2(e)
    BY <2>1 DEF AssessmentReport
  <2>3. GoalS1(e, GoalS2(e)) = IF Isolated(config, GoalS2(e)) THEN Ok ELSE Error
    BY <2>1, GoalTyped, GoalS1IsIsolation
  <2>4. Isolated(config, GoalS2(e)) <=> IsolatedFromHost(config)
    BY <2>1, <2>2, AllNsOwned DEF Isolated, IsolatedFromHost
  <2>5. QED
    BY <2>2, <2>3, <2>4
<1>2. QED
  BY <1>1, ReportInvariant, PTL

\* Goal S3 is met exactly if no scan found a flag file where the container's
\* files must not be, and the mapping of its identifiers is its own.
THEOREM S3IsNoLeak == Spec => []S3MeansNoLeak
<1>1. ReportInv => S3MeansNoLeak
  <2> SUFFICES ASSUME ReportInv, assessment_report # NoReport
               PROVE  assessment_report.goal_s3 = Ok <=>
                        /\ \A f \in config.host_flags : f.uuid => f.in_root
                        /\ config.ref_flags = {}
                        /\ config.unique_mapping
    BY DEF S3MeansNoLeak
  <2> DEFINE e == EvalResult(config)
  <2>1. config \in Config /\ assessment_report = AssessmentReport(e)
    BY DEF ReportInv
  <2>2. assessment_report.goal_s3 = GoalS3(e)
    BY <2>1 DEF AssessmentReport
  <2>3. GoalS3(e) = Ok <=> /\ Tests(config).user_ns_mapping_unique
                           /\ Tests(config).flag_matches_refcontainer
                           /\ Tests(config).flag_matches_host
    BY <2>1, SeesTests DEF GoalS3, AssessTests, Expect, Ok, Error
  <2>4. Tests(config).user_ns_mapping_unique = config.unique_mapping
    BY DEF Tests
  <2>5. Tests(config).flag_matches_refcontainer = (config.ref_flags = {})
    BY DEF Tests, FlagMatchesRef
  <2>6. Tests(config).flag_matches_host <=> \A f \in config.host_flags : f.uuid => f.in_root
    BY DEF Tests, FlagMatchesHost
  <2>7. QED
    BY <2>2, <2>3, <2>4, <2>5, <2>6
<1>2. QED
  BY <1>1, ReportInvariant, PTL

(***************************************************************************)
(* Hardening.  What the three ways to harden a container have in common is *)
(* that the namespaces that count only grow, the capabilities only shrink  *)
(* and the rest stays; every goal is monotone in that.                     *)
(***************************************************************************)
NoLooser(h, c) ==
    /\ NsSet(c) \subseteq NsSet(h)
    /\ h.cap_prm \subseteq c.cap_prm
    /\ h.root = c.root
    /\ h.host_flags = c.host_flags
    /\ h.ref_flags = c.ref_flags
    /\ h.dev_devices = c.dev_devices
    /\ h.mknod_devices = c.mknod_devices
    /\ h.cpu_max = c.cpu_max
    /\ h.memory_max = c.memory_max
    /\ h.uid_map_parents = c.uid_map_parents
    /\ h.unique_mapping = c.unique_mapping

LEMMA HarderIsNoLooser ==
    ASSUME NEW c \in Config, NEW h \in Harder(c)
    PROVE  h \in Config /\ NoLooser(h, c)
<1> USE DEF Config, RawConfig
<1>1. c \in RawConfig /\ c.unshared \subseteq NsType /\ "user" \in NsType
  BY DEF NsType
<1>2. CASE h = TakesUserNs(c)
  <2>1. h \in Config
    BY <1>1, <1>2 DEF TakesUserNs
  <2>2. h.unshared = c.unshared \cup {"user"}
        /\ \A n \in NsType : h.owner[n] = IF n = "user" THEN "host" ELSE "own"
    BY <1>1, <1>2 DEF TakesUserNs
  <2>3. NsSet(h) = c.unshared \cup {"user"}
    BY <1>1, <2>2 DEF NsSet, Unprivileged
  <2>4. NsSet(c) \subseteq NsSet(h)
    BY <2>3 DEF NsSet, Unprivileged
  <2>5. QED
    BY <1>1, <1>2, <2>1, <2>4 DEF NoLooser, TakesUserNs
<1>3. ASSUME NEW n \in NsType \ {"user"}, h = TakesNs(c, n)
      PROVE  h \in Config /\ NoLooser(h, c)
  <2>1. h \in Config
    BY <1>1, <1>3 DEF TakesNs, Unprivileged
  <2>2. /\ h.unshared = c.unshared \cup {n}
        /\ h.owner[n] = IF Unprivileged(c) THEN "own" ELSE "host"
        /\ \A m \in NsType \ {n} : h.owner[m] = c.owner[m]
    BY <1>1, <1>3 DEF TakesNs
  <2>3. Unprivileged(h) <=> Unprivileged(c)
    BY <1>3, <2>2 DEF Unprivileged
  <2>4. NsSet(c) \subseteq NsSet(h)
    BY <1>1, <2>2, <2>3 DEF NsSet
  <2>5. QED
    BY <1>1, <1>3, <2>1, <2>4 DEF NoLooser, TakesNs
<1>4. ASSUME NEW p \in c.cap_prm, h = DropsCap(c, p)
      PROVE  h \in Config /\ NoLooser(h, c)
  BY <1>1, <1>4 DEF NoLooser, DropsCap, NsSet, Unprivileged
<1>5. QED
  BY <1>2, <1>3, <1>4 DEF Harder

LEMMA NoLooserIsNoWorse ==
    ASSUME NEW c \in Config, NEW h \in Config, NoLooser(h, c)
    PROVE  NoWorse(AssessmentReport(EvalResult(h)), AssessmentReport(EvalResult(c)))
<1> DEFINE e == EvalResult(c)
           f == EvalResult(h)
<1>1. e.tests = Tests(c) /\ f.tests = Tests(h)
  BY SeesTests
<1>2. GoalS2(f) <= GoalS2(e)
  <2>1. /\ Tests(c).dev_whitelist_compliance => Tests(h).dev_whitelist_compliance
        /\ Tests(c).mknod_whitelist_compliance => Tests(h).mknod_whitelist_compliance
    BY DEF Tests, NotAllowed, NoLooser
  <2>2. QED
    BY <1>1, <2>1 DEF GoalS2, AssessTests, Expect, Ok, Error
<1>3. GoalS3(f) = GoalS3(e)
  <2>1. /\ Tests(c).user_ns_mapping_unique = Tests(h).user_ns_mapping_unique
        /\ Tests(c).flag_matches_refcontainer = Tests(h).flag_matches_refcontainer
        /\ Tests(c).flag_matches_host = Tests(h).flag_matches_host
    BY DEF Tests, FlagMatchesHost, FlagMatchesRef, NoLooser
  <2>2. QED
    BY <1>1, <2>1 DEF GoalS3, AssessTests
<1>4. GoalS1(f, GoalS2(f)) <= GoalS1(e, GoalS2(e))
  <2>1. Isolated(c, GoalS2(e)) => Isolated(h, GoalS2(f))
    <3>1. NsSet(h) \subseteq NsType
      BY SeesNs
    <3>2. GoalS2(e) = Ok => GoalS2(f) = Ok
      BY <1>2, GoalTyped DEF Ok, Error
    <3>3. QED
      BY <3>1, <3>2 DEF Isolated, NoLooser
  <2>2. QED
    BY <2>1, GoalTyped, GoalS1IsIsolation DEF Ok, Error
<1>5. GoalS4(f) <= GoalS4(e)
  <2>1. \A d \in Config : CgroupsNamespaceUsed(EvalResult(d)) <=> "cgroup" \in NsSet(d)
    BY DEF CgroupsNamespaceUsed, EvalResult, CategoryOf, CategoryNs, Category
  <2>2. CgroupsNamespaceUsed(e) => CgroupsNamespaceUsed(f)
    BY <2>1 DEF NoLooser
  <2>3. AssessTests(e, {"cpu_max_limited", "memory_max_limited"})
          = AssessTests(f, {"cpu_max_limited", "memory_max_limited"})
    <3>1. /\ Tests(c).cpu_max_limited = Tests(h).cpu_max_limited
          /\ Tests(c).memory_max_limited = Tests(h).memory_max_limited
      BY DEF Tests, NoLooser
    <3>2. QED
      BY <1>1, <3>1 DEF AssessTests
  <2> DEFINE ns(r) == Expect(CgroupsNamespaceUsed(r))
             tests == AssessTests(e, {"cpu_max_limited", "memory_max_limited"})
  <2>4. ns(e) \in {Ok, Error} /\ ns(f) \in {Ok, Error} /\ (ns(e) = Ok => ns(f) = Ok)
    BY <2>2 DEF Expect, Ok, Error
  <2>5. tests \in {Ok, Error}
    BY DEF AssessTests, Expect
  <2>6. GoalS4(e) = Worst({ns(e), tests}) /\ GoalS4(f) = Worst({ns(f), tests})
    BY <2>3 DEF GoalS4
  <2> HIDE DEF ns, tests
  <2>7. \A a, b \in {Ok, Error} : Worst({a, b}) \in {a, b} /\ a <= Worst({a, b}) /\ b <= Worst({a, b})
    <3>1. ASSUME NEW a \in {Ok, Error}, NEW b \in {Ok, Error}
          PROVE  Worst({a, b}) \in {a, b} /\ a <= Worst({a, b}) /\ b <= Worst({a, b})
      <4>1. {a, b} \subseteq Criticality /\ {a, b} # {}
        BY DEF Criticality
      <4>2. QED
        BY <4>1, WorstIsGreatest
    <3>2. QED
      BY <3>1
  <2>8. QED
    BY <2>4, <2>5, <2>6, <2>7 DEF Ok, Error
<1>6. QED
  BY <1>2, <1>3, <1>4, <1>5, GoalTyped DEF NoWorse, AssessmentReport, Ok, Error

\* Taking a namespace or dropping a capability never makes a verdict worse.
THEOREM HardeningIsMonotone == Spec => []HardeningNeverHurts
<1>1. ReportInv => HardeningNeverHurts
  <2> SUFFICES ASSUME ReportInv, assessment_report # NoReport, NEW c \in Harder(config)
               PROVE  NoWorse(AssessmentReport(EvalResult(c)), assessment_report)
    BY DEF HardeningNeverHurts
  <2>1. config \in Config /\ assessment_report = AssessmentReport(EvalResult(config))
    BY DEF ReportInv
  <2>2. c \in Config /\ NoLooser(c, config)
    BY <2>1, HarderIsNoLooser
  <2>3. QED
    BY <2>1, <2>2, NoLooserIsNoWorse
<1>2. QED
  BY <1>1, ReportInvariant, PTL

(***************************************************************************)
(* The devices: types.                                                     *)
(***************************************************************************)
\* Owner and mode of a file that was not removed.
Attr == [owner : {"checkc", "other"}, user : SUBSET Access, others : SUBSET Access]

\* An entry is at hand.
Trying == probe \in {"read", "write", "tried", "chmod_read", "chmod_write", "reread", "rewrite", "take"}

LEMMA TriesIsNat == Tries \in Nat
<1>1. Len(Majors) \in Nat /\ Len(Minors) \in Nat
  BY DeviceAssumption
<1>2. QED
  BY <1>1 DEF Tries

LEMMA DpInitTyped == DpInit => DpTypeOK
<1> SUFFICES ASSUME DpInit PROVE DpTypeOK
  OBVIOUS
<1>1. attr \in [Node -> Attr \cup {Gone}]
  BY DeviceAssumption DEF DpInit, Attr
<1>2. 0 \in 0 .. Tries /\ 0 \in 0 .. MaxMeddling
  BY TriesIsNat, DeviceAssumption
<1>3. QED
  BY <1>1, <1>2 DEF DpInit, DpTypeOK, Attr

\* What the types say of the file at hand.
LEMMA HereIs ==
    ASSUME DpTypeOK, Trying
    PROVE  path \in Path \ todo /\ path # NoPath /\ Here \in Node
BY DeviceAssumption DEF DpTypeOK, Trying, Here

LEMMA AttrIs ==
    ASSUME DpTypeOK
    PROVE  /\ attr \in [Node -> Attr \cup {Gone}] /\ attr0 \in [Node -> Attr \cup {Gone}]
           /\ \A at \in Attr : at # Gone
BY DEF DpTypeOK, Attr, Gone

\* A change of owner or mode touches the file at hand only.
LEMMA ChownIs ==
    ASSUME DpTypeOK, NEW n \in Node
    PROVE  /\ Chown(n) \in [Node -> Attr \cup {Gone}]
           /\ \A m \in Node \ {n} : Chown(n)[m] = attr[m]
           /\ ~MayChown(attr[n]) => Chown(n) = attr
           /\ MayChown(attr[n]) => /\ Chown(n)[n] \in Attr
                                   /\ Chown(n)[n].owner = "checkc"
<1>1. /\ attr \in [Node -> Attr \cup {Gone}] /\ \A at \in Attr : at # Gone
  BY AttrIs
<1>2. CASE ~MayChown(attr[n])
  BY <1>1, <1>2 DEF Chown
<1>3. CASE MayChown(attr[n])
  <2>1. attr[n] \in Attr
    BY <1>1, <1>3 DEF MayChown
  <2>2. Chown(n) = [attr EXCEPT ![n].owner = "checkc"]
    BY <1>3 DEF Chown
  <2>3. [attr[n] EXCEPT !.owner = "checkc"] \in Attr /\ [attr[n] EXCEPT !.owner = "checkc"].owner = "checkc"
    BY <2>1 DEF Attr
  <2>4. Chown(n) = [attr EXCEPT ![n] = [attr[n] EXCEPT !.owner = "checkc"]]
    BY <2>2
  <2>5. QED
    BY <1>1, <1>3, <2>3, <2>4
<1>4. QED
  BY <1>2, <1>3

LEMMA ChmodIs ==
    ASSUME DpTypeOK, NEW n \in Node, NEW mode \in SUBSET Access
    PROVE  /\ Chmod(n, mode) \in [Node -> Attr \cup {Gone}]
           /\ \A m \in Node \ {n} : Chmod(n, mode)[m] = attr[m]
           /\ ~MayChmod(attr[n]) => Chmod(n, mode) = attr
           /\ MayChmod(attr[n]) => /\ Chmod(n, mode)[n] \in Attr
                                   /\ Chmod(n, mode)[n].owner = attr[n].owner
                                   /\ Chmod(n, mode)[n].user = mode /\ Chmod(n, mode)[n].others = mode
<1>1. /\ attr \in [Node -> Attr \cup {Gone}] /\ \A at \in Attr : at # Gone
  BY AttrIs
<1>2. CASE ~MayChmod(attr[n])
  BY <1>1, <1>2 DEF Chmod
<1>3. CASE MayChmod(attr[n])
  <2> DEFINE new == [attr[n] EXCEPT !.user = mode, !.others = mode]
  <2>1. attr[n] \in Attr
    BY <1>1, <1>3 DEF MayChmod
  <2>2. new \in Attr /\ new.owner = attr[n].owner /\ new.user = mode /\ new.others = mode
    BY <2>1 DEF Attr
  <2>3. Chmod(n, mode) = [attr EXCEPT ![n] = new]
    BY <1>1, <1>3, <2>1 DEF Chmod, Attr
  <2> HIDE DEF new
  <2>4. QED
    BY <1>1, <1>3, <2>2, <2>3
<1>4. QED
  BY <1>2, <1>3

\* What no step of checkc changes.
Rest == UNCHANGED <<caps, rules, dev_ro, attr0, meddled, meddling>>

LEMMA DpNextTyped == DpTypeOK /\ [DpNext]_dpVars => DpTypeOK'
<1> SUFFICES ASSUME DpTypeOK, [DpNext]_dpVars PROVE DpTypeOK'
  OBVIOUS
<1>1. CASE UNCHANGED dpVars
  BY <1>1 DEF dpVars, dpWorldVars, DpTypeOK, Wanted
<1>2. ASSUME attr' \in [Node -> Attr \cup {Gone}], UNCHANGED attr0
      PROVE  {attr, attr0}' \subseteq
        [Node -> [owner : {"checkc", "other"}, user : SUBSET Access, others : SUBSET Access] \cup {Gone}]
  BY <1>2 DEF DpTypeOK, Attr
<1>3. ASSUME NEW n \in Node, Meddle(n) PROVE DpTypeOK'
  <2>1. attr' \in [Node -> Attr \cup {Gone}]
    BY <1>3, AttrIs, DeviceAssumption DEF Meddle, Attr
  <2>2. meddling' \in 0 .. MaxMeddling
    BY <1>3, DeviceAssumption DEF Meddle, DpTypeOK
  <2>3. QED
    BY <1>2, <1>3, <2>1, <2>2 DEF Meddle, DpTypeOK, Wanted
<1> USE DEF Rest
<1>4. ASSUME NEW p \in todo, Visit(p), Rest PROVE DpTypeOK'
  <2>1. p \in Path /\ p # NoPath
    BY DeviceAssumption DEF DpTypeOK
  <2>2. QED
    BY <1>4, <2>1 DEF Visit, DpTypeOK, Wanted
<1>5. CASE (TryRead \/ TryWrite \/ ReadAfter \/ WriteAfter) /\ Rest
  BY <1>5 DEF TryRead, TryWrite, ReadAfter, WriteAfter, Try, TryAgain, DpTypeOK, Access, Wanted
<1>6. CASE Retry /\ Rest
  <2>1. path \in Path \ todo /\ path # NoPath /\ Here \in Node
    BY <1>6, HereIs DEF Retry, Trying
  <2>2. CASE before = Access
    BY <1>6, <2>1, <2>2 DEF Retry, Take, DpTypeOK, Wanted
  <2>3. CASE before # Access
    <3>1. attr' \in [Node -> Attr \cup {Gone}]
      BY <1>6, <2>1, <2>3, ChownIs DEF Retry
    <3>2. QED
      BY <1>2, <1>6, <2>3, <3>1 DEF Retry, DpTypeOK, Wanted
  <2>4. QED
    BY <2>2, <2>3
<1>7. ASSUME NEW a \in Access, NEW mode \in SUBSET Access, NEW then \in {"chmod_write", "reread"},
             probe \in {"chmod_read", "chmod_write"}, ChmodFor(a, mode, then), Rest
      PROVE  DpTypeOK'
  <2>1. path \in Path \ todo /\ path # NoPath /\ Here \in Node
    BY <1>7, HereIs DEF Trying
  <2>2. attr' \in [Node -> Attr \cup {Gone}]
    BY <1>7, <2>1, ChmodIs, AttrIs DEF ChmodFor
  <2>3. QED
    BY <1>2, <1>7, <2>1, <2>2 DEF ChmodFor, DpTypeOK, Wanted
<1>8. CASE (ChmodRead \/ ChmodWrite) /\ Rest
  BY <1>7, <1>8 DEF ChmodRead, ChmodWrite, Access
<1>9. CASE TakeAfter /\ Rest
  <2>1. path \in Path \ todo /\ path # NoPath /\ Here \in Node
    BY <1>9, HereIs DEF TakeAfter, Trying
  <2>2. QED
    BY <1>9, <2>1 DEF TakeAfter, Take, Accessible, DpTypeOK, Wanted
<1>10. CASE (StartMknod \/ AllTried) /\ Rest
  BY <1>10 DEF StartMknod, AllTried, DpTypeOK, Wanted
<1>11. CASE Mknod /\ Rest
  <2>1. tried' \in 0 .. Tries /\ tried' = tried + 1 /\ tried \in Nat
    BY <1>11, TriesIsNat DEF Mknod, DpTypeOK
  <2>2. \A k : Wanted(k)' = Wanted(k)
    BY DEF Wanted
  <2>3. mknod_devices' \subseteq mknod_devices \cup {Wanted(tried)}
    BY <1>11 DEF Mknod
  <2>4. mknod_devices' \subseteq {Wanted(k) : k \in 0 .. tried' - 1}
    BY <2>1, <2>3 DEF DpTypeOK
  <2>5. QED
    BY <1>11, <2>1, <2>4 DEF Mknod, DpTypeOK, Wanted
<1>12. QED
  BY <1>1, <1>3, <1>4, <1>5, <1>6, <1>8, <1>9, <1>10, <1>11 DEF DpNext, Probe

(***************************************************************************)
(* The devices: the inductive invariant.                                   *)
(***************************************************************************)
May(at) == MayChown(at) \/ MayChmod(at)

\* A file that others leave alone is as it was, or checkc can still change it.
Kept ==
    \A n \in Node \ meddled :
        /\ attr[n] \in Attr /\ attr0[n] \in Attr
        /\ IF May(attr0[n]) THEN May(attr[n]) ELSE attr[n] = attr0[n]

\* What is known at step p of the visit to file n, with attributes at, of the
\* accesses found.  Nothing is found that cannot be obtained.  What can be had
\* without a change of owner or mode is found by the first attempt; with one, the
\* mode is set for what the first attempt missed.
KnownOf(n, p, at, bf, af) ==
    /\ bf \cup af \subseteq Obtainable(n)
    /\ ~May(attr0[n]) =>
           /\ p # "read" => ("read" \in Obtainable(n) => "read" \in bf)
           /\ p \notin {"read", "write"} => Obtainable(n) \subseteq bf
    /\ May(attr0[n]) /\ p \notin {"read", "write", "tried"} =>
           /\ MayChmod(at)
           /\ p = "chmod_write" => "read" \in bf \/ Permits("read", at)
           /\ p \in {"reread", "rewrite", "take"} => \A a \in Access : a \in bf \/ Permits(a, at)
    /\ p \in {"rewrite", "take"} => ("read" \in Obtainable(n) => "read" \in bf \cup af)
    /\ p = "take" => Obtainable(n) \subseteq bf \cup af

AtHand == Trying /\ Here \notin meddled => KnownOf(Here, probe, attr[Here], before, after)

\* The numbers recorded are those of which a node can be made and opened.
Usable(id) == Allows(id, "mknod") /\ \E a \in Access : Allows(id, a)

NodesMade ==
    /\ probe \notin {"mknod", "done", "err"} => tried = 0 /\ mknod_devices = {}
    /\ probe = "done" => tried = Tries
    /\ \A id \in mknod_devices : Usable(id)
    /\ \A k \in 0 .. tried - 1 : Usable(Wanted(k)) => Wanted(k) \in mknod_devices

DpInv == DpTypeOK /\ Kept /\ AtHand /\ AccessObtainable /\ NodesMade

LEMMA DpInvInit == DpInit => DpInv
<1> SUFFICES ASSUME DpInit PROVE DpInv
  OBVIOUS
<1>1. DpTypeOK
  BY DpInitTyped
<1>2. Kept
  BY DeviceAssumption DEF DpInit, Kept, Attr
<1>3. AtHand /\ AccessObtainable
  BY DEF DpInit, AtHand, Trying, AccessObtainable
<1>4. NodesMade
  BY DEF DpInit, NodesMade
<1>5. QED
  BY <1>1, <1>2, <1>3, <1>4 DEF DpInv

\* What the two attempts to open the file at hand find.
LEMMA OpensIs ==
    ASSUME DpInv, Trying, Here \notin meddled, NEW a \in Access
    PROVE  /\ Opens(Here, a) => a \in Obtainable(Here)
           /\ ~May(attr0[Here]) /\ a \in Obtainable(Here) => Opens(Here, a)
           /\ Permits(a, attr[Here]) /\ a \in Obtainable(Here) => Opens(Here, a)
<1>1. Here \in Node
  BY HereIs DEF DpInv
<1>2. attr[Here] \in Attr /\ attr[Here] # Gone
  BY <1>1, AttrIs DEF DpInv, Kept
<1>3. IF May(attr0[Here]) THEN May(attr[Here]) ELSE attr[Here] = attr0[Here]
  BY <1>1 DEF DpInv, Kept
<1>4. a \in Obtainable(Here) <=>
          Allows(NodeType[Here], a) /\ (Permits(a, attr0[Here]) \/ May(attr0[Here]))
  BY DEF Obtainable, May
<1>5. Opens(Here, a) <=> Permits(a, attr[Here]) /\ Allows(NodeType[Here], a)
  BY <1>2 DEF Opens
<1>6. QED
  BY <1>3, <1>4, <1>5

\* No step changes what checkc may do.
LEMMA RestKeeps ==
    ASSUME UNCHANGED <<caps, rules, dev_ro, attr0>>
    PROVE  /\ \A at : May(at)' <=> May(at)
           /\ \A n : Obtainable(n)' = Obtainable(n)
           /\ \A n, p, at, bf, af : KnownOf(n, p, at, bf, af)' <=> KnownOf(n, p, at, bf, af)
<1>1. \A at : May(at)' <=> May(at)
  BY DEF May, MayChown, MayChmod
<1>2. \A n : Obtainable(n)' = Obtainable(n)
  BY DEF Obtainable, Allows, Permits, MayChown, MayChmod
<1>3. \A n, p, at, bf, af : KnownOf(n, p, at, bf, af)' <=> KnownOf(n, p, at, bf, af)
  BY <1>1, <1>2 DEF KnownOf, Permits, MayChmod
<1>4. QED
  BY <1>1, <1>2, <1>3

\* A step within the visit to one file: the rest of the invariant stays.
LEMMA VisitStep ==
    ASSUME DpInv, DpTypeOK', Rest, UNCHANGED <<path, dev_devices, mknod_devices, tried>>,
           Trying, Trying', \A n \in Node \ {Here} : attr'[n] = attr[n],
           Here \notin meddled =>
               /\ attr'[Here] \in Attr
               /\ IF May(attr0[Here]) THEN May(attr'[Here]) ELSE attr'[Here] = attr0[Here]
               /\ KnownOf(Here, probe', attr'[Here], before', after')
    PROVE  DpInv'
<1> USE DEF DpInv, Rest
<1>1. \A at : May(at)' <=> May(at)
  BY RestKeeps
<1>2. Kept'
  <2> SUFFICES ASSUME NEW n \in Node \ meddled
               PROVE  /\ attr'[n] \in Attr /\ attr0[n] \in Attr
                      /\ IF May(attr0[n]) THEN May(attr'[n]) ELSE attr'[n] = attr0[n]
    BY DEF Kept, May, MayChown, MayChmod
  <2>1. QED
    BY DEF Kept
<1>3. AccessObtainable'
  BY DEF AccessObtainable, Obtainable, Allows, Permits, MayChown, MayChmod
<1>4. NodesMade'
  BY DEF NodesMade, Trying, Usable, Allows, Wanted, Tries
<1>5. AtHand'
  <2>1. PICK n : n = Here
    OBVIOUS
  <2>2. Here' = n
    BY <2>1 DEF Here
  <2>3. KnownOf(n, probe', attr'[n], before', after') =>
            KnownOf(n, probe, attr[n], before, after)'
    BY RestKeeps DEF Rest, KnownOf, Permits, MayChmod
  <2>4. QED
    BY <2>1, <2>2, <2>3 DEF AtHand
<1>6. QED
  BY <1>2, <1>3, <1>4, <1>5

\* read_access() and write_access() change no file.
LEMMA TryStep ==
    ASSUME DpInv, DpTypeOK', Rest, TryRead \/ TryWrite \/ ReadAfter \/ WriteAfter
    PROVE  DpInv'
<1>1. Trying /\ Trying' /\ UNCHANGED <<attr, path, dev_devices, mknod_devices, tried>>
  BY DEF TryRead, TryWrite, ReadAfter, WriteAfter, Try, TryAgain, Trying
<1>2. ASSUME Here \notin meddled PROVE KnownOf(Here, probe', attr[Here], before', after')
  <2>1. KnownOf(Here, probe, attr[Here], before, after)
    BY <1>1, <1>2 DEF DpInv, AtHand
  <2>2. /\ \A a \in Access : Opens(Here, a) => a \in Obtainable(Here)
        /\ \A a \in Access : ~May(attr0[Here]) /\ a \in Obtainable(Here) => Opens(Here, a)
        /\ \A a \in Access : Permits(a, attr[Here]) /\ a \in Obtainable(Here) => Opens(Here, a)
    BY <1>1, <1>2, OpensIs
  <2>3. Obtainable(Here) \subseteq Access /\ Access = {"read", "write"}
    BY DEF Obtainable, Access
  <2> DEFINE o == Obtainable(Here)
             at == attr[Here]
  <2>4. CASE TryRead
    BY <2>1, <2>2, <2>3, <2>4 DEF TryRead, Try, KnownOf
  <2>5. CASE TryWrite
    BY <2>1, <2>2, <2>3, <2>5 DEF TryWrite, Try, KnownOf
  <2>6. CASE ReadAfter
    BY <2>1, <2>2, <2>3, <2>6 DEF ReadAfter, TryAgain, KnownOf
  <2>7. CASE WriteAfter
    BY <2>1, <2>2, <2>3, <2>7 DEF WriteAfter, TryAgain, KnownOf
  <2>8. QED
    BY <2>4, <2>5, <2>6, <2>7
<1>3. Here \in Node
  BY <1>1, HereIs DEF DpInv
<1>4. QED
  BY <1>1, <1>2, <1>3, VisitStep DEF DpInv, Kept

\* A file that checkc may make its own it can then change the mode of.
LEMMA ChownStep ==
    ASSUME DpInv, DpTypeOK', Rest, Retry, before # Access
    PROVE  DpInv'
<1>1. /\ Trying /\ Trying' /\ probe = "tried" /\ probe' = "chmod_read" /\ attr' = Chown(Here)
      /\ UNCHANGED <<path, before, after, dev_devices, mknod_devices, tried>>
  BY DEF Retry, Trying
<1>2. Here \in Node
  BY <1>1, HereIs DEF DpInv
<1>3. /\ \A m \in Node \ {Here} : attr'[m] = attr[m]
      /\ ~MayChown(attr[Here]) => attr' = attr
      /\ MayChown(attr[Here]) => attr'[Here] \in Attr /\ attr'[Here].owner = "checkc"
  BY <1>1, <1>2, ChownIs DEF DpInv
<1>4. PICK at : at = attr'[Here]
  OBVIOUS
<1>5. MayChown(attr[Here]) => May(at) /\ MayChmod(at)
  BY <1>3, <1>4, AttrIs DEF MayChown, MayChmod, May, DpInv
<1>6. ASSUME Here \notin meddled
      PROVE  /\ at \in Attr
             /\ IF May(attr0[Here]) THEN May(at) ELSE at = attr0[Here]
             /\ KnownOf(Here, "chmod_read", at, before, after)
  <2>1. /\ KnownOf(Here, "tried", attr[Here], before, after)
        /\ attr[Here] \in Attr
        /\ IF May(attr0[Here]) THEN May(attr[Here]) ELSE attr[Here] = attr0[Here]
    BY <1>1, <1>2, <1>6 DEF DpInv, AtHand, Kept
  <2>2. CASE MayChown(attr[Here])
    BY <1>3, <1>4, <1>5, <2>1, <2>2 DEF KnownOf, May
  <2>3. CASE ~MayChown(attr[Here])
    BY <1>3, <1>4, <2>1, <2>3 DEF KnownOf, May
  <2>4. QED
    BY <2>2, <2>3
<1>7. QED
  BY <1>1, <1>3, <1>4, <1>6, VisitStep

\* The mode is set for what the first attempt missed.
LEMMA ChmodStep ==
    ASSUME DpInv, DpTypeOK', Rest, ChmodRead \/ ChmodWrite
    PROVE  DpInv'
<1>1. PICK a \in Access, mode \in SUBSET Access, then \in {"chmod_write", "reread"} :
          /\ ChmodFor(a, mode, then) /\ a \in mode
          /\ \/ /\ probe = "chmod_read" /\ a = "read" /\ then = "chmod_write"
             \/ /\ probe = "chmod_write" /\ a = "write" /\ mode = Access /\ then = "reread"
  BY DEF ChmodRead, ChmodWrite, Access
<1>2. /\ Trying /\ Trying' /\ probe' = then
      /\ attr' = IF a \in before THEN attr ELSE Chmod(Here, mode)
      /\ UNCHANGED <<path, before, after, dev_devices, mknod_devices, tried>>
  BY <1>1 DEF ChmodFor, Trying
<1>3. Here \in Node
  BY <1>2, HereIs DEF DpInv
<1>4. PICK at : at = attr'[Here]
  OBVIOUS
<1>5. /\ \A m \in Node \ {Here} : attr'[m] = attr[m]
      /\ ~MayChmod(attr[Here]) \/ a \in before => attr' = attr
      /\ MayChmod(attr[Here]) /\ a \notin before =>
             /\ at \in Attr /\ at.owner = attr[Here].owner /\ at.user = mode /\ at.others = mode
  BY <1>2, <1>3, <1>4, ChmodIs DEF DpInv
<1>6. MayChmod(attr[Here]) => MayChmod(at)
  BY <1>4, <1>5, AttrIs DEF MayChmod, DpInv
<1>7. MayChmod(attr[Here]) /\ a \notin before => \A b \in mode : Permits(b, at)
  BY <1>5 DEF Permits
<1>8. ASSUME Here \notin meddled
      PROVE  /\ at \in Attr
             /\ IF May(attr0[Here]) THEN May(at) ELSE at = attr0[Here]
             /\ KnownOf(Here, then, at, before, after)
  <2>1. /\ KnownOf(Here, probe, attr[Here], before, after)
        /\ attr[Here] \in Attr
        /\ IF May(attr0[Here]) THEN May(attr[Here]) ELSE attr[Here] = attr0[Here]
    BY <1>2, <1>3, <1>8 DEF DpInv, AtHand, Kept
  <2>2. CASE MayChmod(attr[Here]) /\ a \notin before
    <3>1. at \in Attr /\ MayChmod(at) /\ May(at) /\ May(attr[Here])
      BY <1>5, <1>6, <2>2 DEF May
    <3>2. May(attr0[Here])
      BY <2>1, <3>1
    <3>3. KnownOf(Here, then, at, before, after)
      BY <1>1, <1>7, <2>1, <2>2, <3>1, <3>2 DEF KnownOf, Access
    <3>4. QED
      BY <3>1, <3>2, <3>3
  <2>3. CASE ~MayChmod(attr[Here]) \/ a \in before
    <3>1. at = attr[Here]
      BY <1>4, <1>5, <2>3
    <3>2. KnownOf(Here, then, at, before, after)
      BY <1>1, <2>1, <2>3, <3>1 DEF KnownOf, Access
    <3>3. QED
      BY <2>1, <3>1, <3>2
  <2>4. QED
    BY <2>2, <2>3
<1>9. QED
  BY <1>2, <1>4, <1>5, <1>8, VisitStep

\* What is recorded of a file that others left alone is what can be obtained of it.
LEMMA TakeStep ==
    ASSUME DpInv, DpTypeOK', Rest, NEW access, Take(access), Trying,
           UNCHANGED <<attr, mknod_devices, tried>>,
           Here \notin meddled => access = Obtainable(Here)
    PROVE  DpInv'
<1> USE DEF DpInv, Rest
<1>1. Kept'
  BY DEF Kept, May, MayChown, MayChmod
<1>2. AtHand'
  BY DEF Take, AtHand, Trying
<1>3. NodesMade'
  BY DEF Take, NodesMade, Trying, Usable, Allows, Wanted, Tries
<1>4. AccessObtainable'
  <2>1. \A n : Obtainable(n)' = Obtainable(n)
    BY RestKeeps
  <2> SUFFICES ASSUME NEW d \in dev_devices', d.file \notin meddled
               PROVE  d.access = Obtainable(d.file)
    BY <2>1 DEF AccessObtainable
  <2>2. CASE d \in dev_devices
    BY <2>2 DEF AccessObtainable
  <2>3. CASE d = [file |-> Here, access |-> access]
    BY <2>3
  <2>4. QED
    BY <2>2, <2>3 DEF Take
<1>5. QED
  BY <1>1, <1>2, <1>3, <1>4

LEMMA TakesStep ==
    ASSUME DpInv, DpTypeOK', Rest, (Retry /\ before = Access) \/ TakeAfter
    PROVE  DpInv'
<1>1. Trying /\ UNCHANGED <<attr, mknod_devices, tried>>
  BY DEF Retry, TakeAfter, Trying
<1>2. Here \notin meddled => KnownOf(Here, probe, attr[Here], before, after)
  BY <1>1 DEF DpInv, AtHand
<1>3. CASE Retry /\ before = Access
  <2>1. Obtainable(Here) \subseteq Access
    BY DEF Obtainable
  <2>2. Here \notin meddled => before = Obtainable(Here)
    BY <1>2, <1>3, <2>1 DEF KnownOf
  <2>3. Take(before)
    BY <1>3 DEF Retry
  <2>4. QED
    BY <1>1, <2>2, <2>3, TakeStep
<1>4. CASE TakeAfter
  <2>1. Here \notin meddled => Accessible = Obtainable(Here)
    BY <1>2, <1>4 DEF KnownOf, Accessible, TakeAfter
  <2>2. Take(Accessible)
    BY <1>4 DEF TakeAfter
  <2>3. QED
    BY <1>1, <2>1, <2>2, TakeStep
<1>5. QED
  BY <1>3, <1>4

\* The walk.
LEMMA WalkStep ==
    ASSUME DpInv, DpTypeOK', Rest, NEW p \in todo, Visit(p)
    PROVE  DpInv'
<1> USE DEF DpInv, Rest
<1>1. Kept'
  BY DEF Visit, Kept, May, MayChown, MayChmod
<1>2. NodesMade'
  BY DEF Visit, NodesMade, Usable, Allows, Wanted, Tries
<1>3. AccessObtainable'
  BY DEF Visit, AccessObtainable, Obtainable, Allows, Permits, MayChown, MayChmod
<1>4. AtHand'
  <2>1. CASE UNCHANGED <<probe, path>>
    BY <2>1 DEF Visit, AtHand, Trying
  <2>2. CASE probe' = "read" /\ path' = p
    BY <2>2 DEF Visit, AtHand, KnownOf
  <2>3. QED
    BY <2>1, <2>2 DEF Visit
<1>5. QED
  BY <1>1, <1>2, <1>3, <1>4

\* A file that others change is none that anything is said of.
LEMMA MeddleStep ==
    ASSUME DpInv, DpTypeOK', NEW n \in Node, Meddle(n)
    PROVE  DpInv'
<1> USE DEF DpInv
<1>1. /\ UNCHANGED <<caps, rules, dev_ro, attr0, probe, path, before, after, tried, dev_devices, mknod_devices>>
      /\ meddled' = meddled \cup {n} /\ \A m \in Node \ {n} : attr'[m] = attr[m]
  BY AttrIs DEF Meddle
<1>2. Kept'
  <2> SUFFICES ASSUME NEW m \in Node \ meddled, m # n
               PROVE  /\ attr'[m] \in Attr /\ attr0[m] \in Attr
                      /\ IF May(attr0[m]) THEN May(attr'[m]) ELSE attr'[m] = attr0[m]
    BY <1>1 DEF Kept, May, MayChown, MayChmod
  <2>1. QED
    BY <1>1 DEF Kept
<1>3. NodesMade'
  BY <1>1 DEF NodesMade, Usable, Allows, Wanted, Tries
<1>4. AccessObtainable'
  BY <1>1 DEF AccessObtainable, Obtainable, Allows, Permits, MayChown, MayChmod
<1>5. AtHand'
  <2> SUFFICES ASSUME Trying, Here \notin meddled, Here # n PROVE AtHand'
    <3>1. Here' = Here /\ Trying' = Trying
      BY <1>1 DEF Here, Trying
    <3>2. QED
      BY <1>1, <3>1 DEF AtHand
  <2>1. Here \in Node
    BY HereIs
  <2>2. PICK h \in Node : h = Here /\ h # n
    BY <2>1
  <2>3. Here' = h /\ attr'[h] = attr[h]
    BY <1>1, <2>2 DEF Here
  <2>4. KnownOf(h, probe, attr[h], before, after)
    BY <2>2 DEF AtHand
  <2>5. KnownOf(h, probe, attr[h], before, after)'
    BY <1>1, <2>3, <2>4, RestKeeps DEF KnownOf, Permits, MayChmod
  <2>6. QED
    BY <2>3, <2>5 DEF AtHand
<1>6. QED
  BY <1>2, <1>3, <1>4, <1>5

(***************************************************************************)
(* The devices: mknod.                                                     *)
(***************************************************************************)
LEMMA ElementIs ==
    ASSUME NEW S, NEW s \in Seq(S), NEW i \in 1 .. Len(s)
    PROVE  s[i] \in S
OBVIOUS

\* Every number tried is one of the two loops'.
LEMMA WantedIs ==
    ASSUME NEW k \in 0 .. Tries - 1
    PROVE  /\ Wanted(k).major \in 0 .. MajorMax /\ Wanted(k).minor \in 0 .. MinorMax
           /\ Wanted(k).type \in {"char", "block"}
           /\ Wanted(k) \in [type : {"char", "block"}, major : 0 .. MajorMax, minor : 0 .. MinorMax]
<1> DEFINE m == Len(Minors)
           l == Len(Majors)
           q == k \div 2
<1>1. m \in Nat /\ l \in Nat /\ k \in Nat /\ k < 2 * l * m
  BY DeviceAssumption, TriesIsNat DEF Tries
<1> HIDE DEF m, l
<1>2. q \in Nat /\ 2 * q <= k
  BY <1>1
<1>3. m > 0
  <2>1. CASE m = 0
    BY <1>1, <2>1
  <2>2. QED
    BY <1>1, <2>1
<1>4. q < l * m
  BY <1>1, <1>2
<1> HIDE DEF q
<1>5. PICK d \in Nat : d = q \div m /\ d * m <= q
  BY <1>2, <1>3, <1>1
<1>6. d < l
  <2> SUFFICES ASSUME d >= l PROVE FALSE
    BY <1>1
  <2>1. d * m >= l * m
    BY <1>1
  <2>2. QED
    BY <1>1, <1>2, <1>4, <1>5, <2>1
<1>7. q % m \in 0 .. m - 1
  BY <1>1, <1>2, <1>3
<1>8. d + 1 \in 1 .. Len(Majors) /\ (q % m) + 1 \in 1 .. Len(Minors)
  BY <1>1, <1>6, <1>7 DEF l, m
<1>9. Majors[d + 1] \in 0 .. MajorMax /\ Minors[(q % m) + 1] \in 0 .. MinorMax
  <2>1. Majors \in Seq(0 .. MajorMax) /\ Minors \in Seq(0 .. MinorMax)
    BY DeviceAssumption
  <2>2. \A i \in 1 .. Len(Majors) : Majors[i] \in 0 .. MajorMax
    BY <2>1, ElementIs
  <2>3. \A i \in 1 .. Len(Minors) : Minors[i] \in 0 .. MinorMax
    BY <2>1, ElementIs
  <2>4. QED
    BY <1>8, <2>2, <2>3
<1>10. Wanted(k) = [type |-> IF k % 2 = 0 THEN "char" ELSE "block",
                    major |-> Majors[d + 1], minor |-> Minors[(q % m) + 1]]
  BY <1>5 DEF Wanted, q, m
<1>11. QED
  BY <1>9, <1>10

\* The number beyond the kernel's is never usable, nor what the kernel makes of it.
LEMMA KernelIs ==
    ASSUME DpTypeOK, NEW k \in 0 .. Tries - 1
    PROVE  /\ Usable(Wanted(k)) => Kernel(Wanted(k)) = Wanted(k)
           /\ Worth(Wanted(k)) => Kernel(Wanted(k)) = Wanted(k)
           /\ Kernel(Wanted(k)) = Wanted(k) => (Worth(Wanted(k)) <=> \E a \in Access : Allows(Wanted(k), a))
<1> DEFINE id == Wanted(k)
<1>1. id \in [type : {"char", "block"}, major : 0 .. MajorMax, minor : 0 .. MinorMax]
  BY WantedIs
<1>2. \A i, a : Allows(i, a) => i.major < KernelMajor /\ (i.major = 0 => a = "mknod")
  BY DeviceAssumption DEF Allows, DpTypeOK
<1> HIDE DEF id
<1>3. id.major \in 0 .. 4096
  BY <1>1 DEF MajorMax
<1>4. CASE id.major # 4096
  <2>1. PICK x \in 0 .. 4095 : x = id.major
    BY <1>3, <1>4
  <2>2. x % 4096 = x
    OBVIOUS
  <2>3. Kernel(id) = id
    BY <1>1, <2>1, <2>2 DEF Kernel, KernelMajor
  <2>4. QED
    BY <2>3 DEF id, Worth
<1>5. CASE id.major = 4096
  <2>1. ~Usable(id)
    BY <1>2, <1>5 DEF Usable, KernelMajor
  <2>2. Kernel(id).major = 0
    BY <1>1, <1>5 DEF Kernel, KernelMajor
  <2>3. ~Worth(id) /\ Kernel(id) # id
    BY <1>2, <1>5, <2>2 DEF Worth, Access
  <2>4. QED
    BY <2>1, <2>3 DEF id
<1>6. QED
  BY <1>4, <1>5

LEMMA MknodStep ==
    ASSUME DpInv, DpTypeOK', Rest, Mknod
    PROVE  DpInv'
<1> USE DEF DpInv, Rest
<1>1. Kept'
  BY DEF Mknod, Kept, May, MayChown, MayChmod
<1>2. AtHand'
  BY DEF Mknod, AtHand, Trying
<1>3. AccessObtainable'
  BY DEF Mknod, AccessObtainable, Obtainable, Allows, Permits, MayChown, MayChmod
<1>4. NodesMade'
  <2>1. tried \in 0 .. Tries - 1 /\ tried' = tried + 1 /\ tried \in Nat
    BY TriesIsNat DEF Mknod, DpTypeOK
  <2>2. PICK id : id = Wanted(tried)
    OBVIOUS
  <2>3. /\ Usable(id) => Kernel(id) = id
        /\ Worth(id) => Kernel(id) = id
        /\ Kernel(id) = id => (Worth(id) <=> \E a \in Access : Allows(id, a))
    BY <2>1, <2>2, KernelIs
  <2>4. \/ /\ Allows(Kernel(id), "mknod")
           /\ mknod_devices' = IF Worth(id) THEN mknod_devices \cup {id} ELSE mknod_devices
        \/ ~Allows(Kernel(id), "mknod") /\ UNCHANGED mknod_devices
        \/ id # Kernel(id) /\ UNCHANGED mknod_devices
    BY <2>2 DEF Mknod
  <2>5. mknod_devices' = IF Usable(id) THEN mknod_devices \cup {id} ELSE mknod_devices
    BY <2>3, <2>4 DEF Usable
  <2>6. \A i : Usable(i)' = Usable(i)
    BY DEF Usable, Allows
  <2>7. \A i \in mknod_devices' : Usable(i)
    BY <2>5 DEF NodesMade
  <2>8. ASSUME NEW k \in 0 .. tried, Usable(Wanted(k)) PROVE Wanted(k) \in mknod_devices'
    <3>1. CASE k = tried
      BY <2>2, <2>5, <2>8, <3>1
    <3>2. CASE k # tried
      BY <2>1, <2>5, <2>8, <3>2 DEF NodesMade
    <3>3. QED
      BY <3>1, <3>2
  <2>9. \A k \in 0 .. tried' - 1 : k \in 0 .. tried
    BY <2>1
  <2>10. \A k \in 0 .. tried' - 1 : Wanted(k)' = Wanted(k) /\ (Usable(Wanted(k))' <=> Usable(Wanted(k)))
    BY DEF Usable, Allows, Wanted
  <2>11. \A k \in 0 .. tried' - 1 : Usable(Wanted(k))' => Wanted(k)' \in mknod_devices'
    BY <2>8, <2>9, <2>10
  <2>12. probe' = "mknod"
    BY DEF Mknod
  <2>13. QED
    BY <2>6, <2>7, <2>11, <2>12 DEF NodesMade
<1>5. QED
  BY <1>1, <1>2, <1>3, <1>4

\* The begin and the end of it.
LEMMA PhaseStep ==
    ASSUME DpInv, DpTypeOK', Rest, StartMknod \/ AllTried
    PROVE  DpInv'
<1> USE DEF DpInv, Rest
<1>1. Kept'
  BY DEF StartMknod, AllTried, Kept, May, MayChown, MayChmod
<1>2. AtHand'
  BY DEF StartMknod, AllTried, AtHand, Trying
<1>3. AccessObtainable'
  BY DEF StartMknod, AllTried, AccessObtainable, Obtainable, Allows, Permits, MayChown, MayChmod
<1>4. NodesMade'
  BY DEF StartMknod, AllTried, NodesMade, Usable, Allows, Wanted, Tries
<1>5. QED
  BY <1>1, <1>2, <1>3, <1>4

LEMMA DpInvNext == DpInv /\ [DpNext]_dpVars => DpInv'
<1> SUFFICES ASSUME DpInv, [DpNext]_dpVars PROVE DpInv'
  OBVIOUS
<1>1. DpTypeOK'
  BY DpNextTyped DEF DpInv
<1>2. CASE UNCHANGED dpVars
  <2>1. UNCHANGED <<caps, rules, dev_ro, attr0>>
    BY <1>2 DEF dpVars, dpWorldVars
  <2>2. Kept'
    BY <1>2 DEF dpVars, dpWorldVars, DpInv, Kept, May, MayChown, MayChmod
  <2>3. AccessObtainable'
    BY <1>2 DEF dpVars, dpWorldVars, DpInv, AccessObtainable, Obtainable, Allows, Permits, MayChown, MayChmod
  <2>4. NodesMade'
    BY <1>2 DEF dpVars, dpWorldVars, DpInv, NodesMade, Usable, Allows, Wanted, Tries
  <2>5. AtHand'
    BY <1>2, <2>1, RestKeeps
    DEF dpVars, dpWorldVars, DpInv, AtHand, Trying, Here, KnownOf, Permits, MayChmod
  <2>6. QED
    BY <1>1, <2>2, <2>3, <2>4, <2>5 DEF DpInv
<1>3. ASSUME NEW n \in Node, Meddle(n) PROVE DpInv'
  BY <1>1, <1>3, MeddleStep
<1>4. ASSUME NEW p \in todo, Visit(p), Rest PROVE DpInv'
  BY <1>1, <1>4, WalkStep
<1>5. CASE Rest /\ (TryRead \/ TryWrite \/ ReadAfter \/ WriteAfter)
  BY <1>1, <1>5, TryStep
<1>6. CASE Rest /\ Retry
  BY <1>1, <1>6, ChownStep, TakesStep
<1>7. CASE Rest /\ (ChmodRead \/ ChmodWrite)
  BY <1>1, <1>7, ChmodStep
<1>8. CASE Rest /\ TakeAfter
  BY <1>1, <1>8, TakesStep
<1>9. CASE Rest /\ (StartMknod \/ AllTried)
  BY <1>1, <1>9, PhaseStep
<1>10. CASE Rest /\ Mknod
  BY <1>1, <1>10, MknodStep
<1>11. QED
  BY <1>2, <1>3, <1>4, <1>5, <1>6, <1>7, <1>8, <1>9, <1>10 DEF DpNext, Probe, Rest

\* The invariant holds in every state: what each step of device_config leaves,
\* with any number of files, entries, processes that meddle, and rules.
THEOREM DevicesInvariant == DpSpec => []DpInv
<1>1. QED
  BY DpInvInit, DpInvNext, PTL DEF DpSpec

\* Every variable of the enumeration of the devices has its type.
THEOREM DevicesTyped == DpSpec => []DpTypeOK
<1>1. DpInv => DpTypeOK
  BY DEF DpInv
<1>2. QED
  BY <1>1, DevicesInvariant, PTL

\* DevFileCheck: each record of a file says what checkc can obtain of it, unless
\* others change the file at the same time.
THEOREM AccessIsObtainable == DpSpec => []AccessObtainable
<1>1. DpInv => AccessObtainable
  BY DEF DpInv
<1>2. QED
  BY <1>1, DevicesInvariant, PTL

\* The test of the evaluation looks at each device by itself.
LEMMA EachByItself ==
    ASSUME NEW ids, NEW unprivileged \in BOOLEAN
    PROVE  NotAllowed({AsDevice(id) : id \in ids}, unprivileged) # {} <=>
               \E id \in ids : NotAllowed({AsDevice(id)}, unprivileged) # {}
BY DEF NotAllowed

\* mknod_whitelist_compliance fails if and only if checkc can make and open a
\* node of a device, with one of the numbers tried, that is not whitelisted.
THEOREM NodesDecideTheTest == DpSpec => []MknodVerdict
<1>1. DpInv => MknodVerdict
  <2> SUFFICES ASSUME DpInv, probe = "done", NEW unprivileged \in BOOLEAN
               PROVE  NotAllowed({AsDevice(id) : id \in mknod_devices}, unprivileged) # {} <=>
                          \E id \in Tried :
                              /\ NotAllowed({AsDevice(id)}, unprivileged) # {}
                              /\ Allows(id, "mknod") /\ \E a \in Access : Allows(id, a)
    BY DEF MknodVerdict
  <2>1. tried = Tries /\ mknod_devices \subseteq Tried
    BY DEF DpInv, DpTypeOK, NodesMade, Tried
  <2>2. \A id \in Tried : id \in mknod_devices <=> Usable(id)
    BY <2>1 DEF DpInv, NodesMade, Tried
  <2>3. \A id : Usable(id) <=> Allows(id, "mknod") /\ \E a \in Access : Allows(id, a)
    BY DEF Usable
  <2>4. (\E id \in mknod_devices : NotAllowed({AsDevice(id)}, unprivileged) # {}) <=>
            \E id \in Tried : NotAllowed({AsDevice(id)}, unprivileged) # {} /\ Usable(id)
    BY <2>1, <2>2
  <2>5. QED
    BY <2>3, <2>4, EachByItself
<1>2. QED
  BY <1>1, DevicesInvariant, PTL

=============================================================================
