--------------------------- MODULE CollectorsProofs ---------------------------
(***************************************************************************)
(* Proofs of the properties of Collectors, for any system of processes and *)
(* namespaces, any tree of cgroups, and any number of changes of them.     *)
(***************************************************************************)
EXTENDS Collectors, ProcessTreeProofs, FiniteSetTheorems

(***************************************************************************)
(* The limits of the cgroups.                                              *)
(***************************************************************************)
\* A cgroup and those above it; the root is none of them.
Upper(g) == IF g = RootCgroup THEN {} ELSE Lineage(CgroupParent, {g})

LEMMA UpperIs ==
    ASSUME NEW g \in Cgroup
    PROVE  /\ Upper(g) = {g} \cup Upper(CgroupParent[g])
           /\ Upper(g) \subseteq Cgroup
           /\ \A h \in Upper(g) : CgroupParent[h] \in Upper(g) \cup {RootCgroup}
           /\ \A h \in Upper(g) : Upper(h) \subseteq Upper(g)
<1>1. \A h \in Cgroup : /\ h \in Upper(h) /\ IsLine(CgroupParent, Upper(h))
                        /\ \A S : h \in S /\ IsLine(CgroupParent, S) => Upper(h) \subseteq S
  <2> TAKE h \in Cgroup
  <2>1. {h} \subseteq DOMAIN CgroupParent
    BY CgroupAssumption
  <2>2. QED
    BY <2>1, LineageIsLeast, CgroupAssumption DEF Upper
<1>2. Upper(RootCgroup) = {} /\ DOMAIN CgroupParent = Cgroup
  BY CgroupAssumption DEF Upper
<1>3. IsLine(CgroupParent, {g} \cup Upper(CgroupParent[g]))
  BY <1>1, <1>2, CgroupAssumption DEF IsLine
<1>4. {g} \cup Upper(CgroupParent[g]) \subseteq Upper(g)
  <2>1. CgroupParent[g] \in Cgroup => CgroupParent[g] \in Upper(g)
    BY <1>1, <1>2 DEF IsLine
  <2>2. QED
    BY <2>1, <1>1, <1>2, CgroupAssumption
<1>5. CgroupParent[g] \in Cgroup \cup {RootCgroup} /\ Upper(g) = {g} \cup Upper(CgroupParent[g])
  BY <1>1, <1>3, <1>4, CgroupAssumption
<1>6. Upper(g) \subseteq Cgroup
  BY <1>1, <1>2 DEF IsLine
<1>7. QED
  BY <1>1, <1>2, <1>5, <1>6, CgroupAssumption DEF IsLine

\* Of two cgroups one is not above the other.
LEMMA UpperIsStrict ==
    ASSUME NEW g \in Cgroup, NEW h \in Upper(g), g \in Upper(h)
    PROVE  g = h
<1> SUFFICES ASSUME g # h PROVE FALSE
  OBVIOUS
<1> DEFINE S == {x \in Upper(g) : g \in Upper(x)}
<1>1. S \subseteq Cgroup /\ g \in S
  BY UpperIs
<1>2. ASSUME NEW x \in S PROVE CgroupParent[x] \in S
  <2>1. x \in Cgroup
    BY <1>1
  <2>2. CgroupParent[x] \in Upper(g) \cup {RootCgroup}
    BY UpperIs
  <2>3. g \in Upper(CgroupParent[x])
    <3>1. CASE x # g
      BY <2>1, <3>1, UpperIs
    <3>2. CASE x = g
      <4>1. h \in Upper(CgroupParent[g])
        BY UpperIs
      <4>2. CgroupParent[g] \in Cgroup
        BY <4>1, CgroupAssumption DEF Upper
      <4>3. QED
        BY <3>2, <4>1, <4>2, UpperIs
    <3>3. QED
      BY <3>1, <3>2
  <2>4. QED
    BY <2>2, <2>3 DEF Upper
<1>3. QED
  BY <1>1, <1>2, CgroupAssumption

\* What the climb for r goes past is no limit, or was changed meanwhile.
PassedBy(r, h) ==
    IF r = "cpu" THEN limit[r][h] = "absent"
    ELSE limit[r][h] # "limit" \/ <<r, h>> \in relimited

\* Where the climb is.
Climb ==
    cg \in Resource /\ ~cg_moved =>
        /\ path_cgroup \in Chain \cup {RootCgroup}
        /\ \A h \in Chain \ Upper(path_cgroup) : PassedBy(cg, h)

\* What LimitsAreEffective says of one resource, once its climb has ended.
AnswerFor(r) ==
    interface_files[r] # "unread" /\ ~cg_moved =>
        /\ interface_files[r] = "limit" =>
               Limited(r) # {} \/ \E g \in Chain : <<r, g>> \in relimited
        /\ \A g \in Limited(r) :
               /\ <<r, g>> \notin relimited
               /\ r = "cpu" => \A h \in Chain \ Upper(g) : limit["cpu"][h] = "absent"
               => interface_files[r] = "limit"

\* Which climb comes first, and what a cgroup that never moved implies.
CgOrder ==
    /\ cg = "memory" => interface_files["cpu"] # "unread"
    /\ cg \in {"cgroup", "controllers", "cpu"} => interface_files["cpu"] = "unread"
    /\ cg = "done" => \A r \in Resource : interface_files[r] # "unread"
    /\ ~cg_moved => removed = {}

CgInv == CgTypeOK /\ CgOrder /\ Climb /\ \A r \in Resource : AnswerFor(r)

LEMMA ChainIs ==
    ASSUME CgTypeOK
    PROVE  Chain = Upper(cgroup_of) /\ \A g \in Cgroup : Lineage(CgroupParent, {g}) = Upper(g)
BY CgroupAssumption DEF CgTypeOK, Chain, Upper

LEMMA CgInvInit == CgInit => CgInv
<1> SUFFICES ASSUME CgInit PROVE CgInv
  OBVIOUS
<1>1. CgTypeOK
  <2>1. cgroup_of \in Cgroup
    BY DEF CgInit
  <2>2. limit \in [Resource -> [Cgroup -> Limit]]
    BY CgroupAssumption DEF CgInit
  <2>3. cgevents \in 0 .. MaxCgEvents
    BY CgroupAssumption DEF CgInit
  <2>4. interface_files \in [Resource -> {"unread", "none", "max", "limit"}]
    BY DEF CgInit
  <2>5. QED
    BY <2>1, <2>2, <2>3, <2>4 DEF CgInit, CgTypeOK
<1>2. QED
  BY <1>1 DEF CgInit, CgInv, CgOrder, Climb, AnswerFor, Resource

\* Nobody makes a cgroup's file appear or disappear, and a container that is not
\* moved stays under the same cgroups.
LEMMA CgWorldStep ==
    ASSUME CgInv, CgWorldNext, UNCHANGED cgVars
    PROVE  CgInv'
<1> USE DEF CgInv, cgVars
<1>1. ASSUME NEW g \in Cgroup, MoveCgroup(g) PROVE CgInv'
  <2>1. CgTypeOK'
    BY <1>1, CgroupAssumption DEF CgTypeOK, MoveCgroup, CgHappens
  <2>2. QED
    BY <1>1, <2>1 DEF MoveCgroup, CgOrder, Climb, AnswerFor
<1>2. ASSUME NEW r \in Resource, NEW c \in Cgroup, NEW l \in {"max", "limit"}, SetLimit(r, c, l)
      PROVE  CgInv'
  <2>1. CgTypeOK'
    <3>1. cgevents' \in 0 .. MaxCgEvents
      BY <1>2, CgroupAssumption DEF CgTypeOK, SetLimit, CgHappens
    <3>2. limit' \in [Resource -> [Cgroup -> Limit]]
      BY <1>2 DEF CgTypeOK, SetLimit, Limit
    <3>3. QED
      BY <1>2, <3>1, <3>2 DEF CgTypeOK, SetLimit
  <2>2. Chain' = Chain
    BY <1>2 DEF SetLimit, Chain
  <2>3. \A s \in Resource, h \in Cgroup :
            /\ limit'[s][h] = limit[s][h] \/ <<s, h>> \in relimited'
            /\ limit'[s][h] = "absent" <=> limit[s][h] = "absent"
            /\ <<s, h>> \in relimited => <<s, h>> \in relimited'
    BY <1>2 DEF SetLimit, CgTypeOK
  <2>4. Chain \subseteq Cgroup
    BY ChainIs, UpperIs DEF CgTypeOK
  <2>5. CgOrder'
    BY <1>2 DEF CgOrder, SetLimit
  <2>6. Climb'
    BY <1>2, <2>2, <2>3, <2>4 DEF Climb, SetLimit, PassedBy, Resource
  <2>7. ASSUME NEW s \in Resource PROVE AnswerFor(s)'
    <3> SUFFICES ASSUME interface_files[s] # "unread", ~cg_moved
                 PROVE  /\ interface_files[s] = "limit" =>
                               Limited(s)' # {} \/ \E g \in Chain : <<s, g>> \in relimited'
                        /\ \A g \in Limited(s)' :
                               /\ <<s, g>> \notin relimited'
                               /\ s = "cpu" => \A h \in Chain \ Upper(g) : limit'["cpu"][h] = "absent"
                               => interface_files[s] = "limit"
      BY <1>2, <2>2 DEF AnswerFor, SetLimit
    <3>1. AnswerFor(s)
      OBVIOUS
    <3>2. \A h \in Chain : h \in Limited(s)' /\ <<s, h>> \notin relimited' => h \in Limited(s)
      BY <2>2, <2>3, <2>4 DEF Limited
    <3>3. \A h \in Chain : h \in Limited(s) => h \in Limited(s)' \/ <<s, h>> \in relimited'
      BY <2>2, <2>3, <2>4 DEF Limited
    <3>4. Limited(s) \subseteq Chain /\ Limited(s)' \subseteq Chain
      BY <2>2 DEF Limited
    <3>5. "cpu" \in Resource
      BY DEF Resource
    <3>6. ASSUME interface_files[s] = "limit"
          PROVE  Limited(s)' # {} \/ \E g \in Chain : <<s, g>> \in relimited'
      <4>1. Limited(s) # {} \/ \E g \in Chain : <<s, g>> \in relimited
        BY <3>1, <3>6 DEF AnswerFor
      <4>2. QED
        BY <4>1, <2>3, <2>4, <3>3, <3>4
    <3>7. ASSUME NEW g \in Limited(s)', <<s, g>> \notin relimited',
                 s = "cpu" => \A h \in Chain \ Upper(g) : limit'["cpu"][h] = "absent"
          PROVE  interface_files[s] = "limit"
      <4>1. g \in Limited(s) /\ <<s, g>> \notin relimited
        BY <3>7, <2>3, <2>4, <3>2, <3>4
      <4>2. s = "cpu" => \A h \in Chain \ Upper(g) : limit["cpu"][h] = "absent"
        BY <3>7, <2>3, <2>4, <3>5
      <4>3. QED
        BY <3>1, <4>1, <4>2 DEF AnswerFor
    <3>8. QED
      BY <3>6, <3>7
  <2>8. QED
    BY <2>1, <2>5, <2>6, <2>7
<1>3. QED
  BY <1>1, <1>2 DEF CgWorldNext

\* cgroup_config() gets the cgroup before each climb, and may end before it.
LEMMA GetStep ==
    ASSUME CgInv, UNCHANGED cgWorldVars,
           GetCgroup \/ GetControllers \/ \E r \in Resource : ReadFails(r)
    PROVE  CgInv'
<1> USE DEF CgInv, cgWorldVars
<1>1. CgTypeOK'
  BY DEF CgTypeOK, GetCgroup, GetControllers, ReadFails
<1>2. CgOrder'
  BY DEF CgOrder, GetCgroup, GetControllers, ReadFails
<1>3. Climb'
  <2>1. CASE GetControllers \/ \E r \in Resource : ReadFails(r)
    BY <2>1 DEF GetControllers, ReadFails, Climb, Resource
  <2>2. CASE GetCgroup
    <3>1. path_cgroup' = cgroup_of /\ Chain' = Chain
      BY <2>2 DEF GetCgroup, Chain
    <3>2. Chain = Upper(cgroup_of) /\ cgroup_of \in Upper(cgroup_of)
      BY ChainIs, UpperIs DEF CgTypeOK
    <3>3. QED
      BY <3>1, <3>2 DEF Climb
  <2>3. QED
    BY <2>1, <2>2
<1>4. ASSUME NEW r \in Resource PROVE AnswerFor(r)'
  BY DEF AnswerFor, Limited, Chain, GetCgroup, GetControllers, ReadFails
<1>5. QED
  BY <1>1, <1>2, <1>3, <1>4

\* Past a cgroup without a limit, to its parent.
LEMMA ClimbOnStep ==
    ASSUME CgInv, UNCHANGED cgWorldVars, NEW r \in Resource, cg = r,
           path_cgroup # RootCgroup, path_cgroup \in removed \/ Climbs(r),
           path_cgroup' = CgroupParent[path_cgroup], UNCHANGED <<cg, interface_files>>
    PROVE  CgInv'
<1> USE DEF CgInv, cgWorldVars
<1>1. CgTypeOK'
  BY CgroupAssumption DEF CgTypeOK
<1>2. Chain' = Chain
  BY DEF Chain
<1>3. Climb'
  <2> SUFFICES ASSUME ~cg_moved
               PROVE  /\ path_cgroup' \in Chain \cup {RootCgroup}
                      /\ \A h \in Chain \ Upper(path_cgroup') : PassedBy(r, h)
    BY <1>2 DEF Climb, PassedBy
  <2>1. path_cgroup \in Chain /\ \A h \in Chain \ Upper(path_cgroup) : PassedBy(r, h)
    BY DEF Climb
  <2>2. Chain \subseteq Cgroup /\ \A h \in Chain : CgroupParent[h] \in Chain \cup {RootCgroup}
    BY ChainIs, UpperIs DEF CgTypeOK
  <2>3. Upper(path_cgroup) = {path_cgroup} \cup Upper(path_cgroup')
    BY <2>1, <2>2, UpperIs
  <2>4. PassedBy(r, path_cgroup)
    BY DEF CgOrder, Climbs, PassedBy, Resource
  <2>5. QED
    BY <2>1, <2>2, <2>3, <2>4
<1>4. CgOrder'
  BY DEF CgOrder
<1>5. ASSUME NEW s \in Resource PROVE AnswerFor(s)'
  BY <1>2 DEF AnswerFor, Limited
<1>6. QED
  BY <1>1, <1>3, <1>4, <1>5

\* The climb ends.
LEMMA FoundStep ==
    ASSUME CgInv, UNCHANGED cgWorldVars, NEW r \in Resource, cg = r,
           NEW l \in {"none", "max", "limit"}, Found(r, l), UNCHANGED path_cgroup,
           IF path_cgroup = RootCgroup THEN l = "none"
           ELSE path_cgroup \notin removed /\ ~Climbs(r) /\ l = limit[r][path_cgroup]
    PROVE  CgInv'
<1> USE DEF CgInv, cgWorldVars
<1>1. CgTypeOK'
  BY DEF CgTypeOK, Found, Resource
<1>2. Chain' = Chain /\ Limited(r)' = Limited(r)
  BY DEF Chain, Limited
<1>3. CgOrder'
  BY DEF CgOrder, Found, CgTypeOK, Resource
<1>4. Climb'
  BY DEF Climb, Found, Resource
<1>5. interface_files' = [interface_files EXCEPT ![r] = l]
  BY DEF Found
<1>6. ASSUME NEW s \in Resource, s # r PROVE AnswerFor(s)'
  BY <1>2, <1>5, <1>6 DEF AnswerFor, Limited, CgTypeOK
<1>7. AnswerFor(r)'
  <2> SUFFICES ASSUME ~cg_moved
               PROVE  /\ l = "limit" => Limited(r) # {}
                      /\ \A g \in Limited(r) :
                            /\ <<r, g>> \notin relimited
                            /\ r = "cpu" => \A h \in Chain \ Upper(g) : limit["cpu"][h] = "absent"
                            => l = "limit"
    BY <1>2, <1>5 DEF AnswerFor, CgTypeOK
  <2>1. /\ path_cgroup \in Chain \cup {RootCgroup}
        /\ \A h \in Chain \ Upper(path_cgroup) : PassedBy(r, h)
    BY DEF Climb
  <2>2. Chain \subseteq Cgroup
    BY ChainIs, UpperIs DEF CgTypeOK
  <2>3. ASSUME l = "limit" PROVE Limited(r) # {}
    BY <2>1, <2>3 DEF Limited
  <2>4. ASSUME NEW g \in Limited(r), <<r, g>> \notin relimited,
               r = "cpu" => \A h \in Chain \ Upper(g) : limit["cpu"][h] = "absent"
        PROVE  l = "limit"
    <3>1. g \in Chain /\ limit[r][g] = "limit"
      BY <2>4 DEF Limited
    <3>2. ~PassedBy(r, g)
      BY <2>4, <3>1 DEF PassedBy
    <3>3. g \in Upper(path_cgroup)
      BY <2>1, <3>1, <3>2
    <3>4. path_cgroup \in Chain /\ path_cgroup \in Cgroup
      BY <2>1, <2>2, <3>3 DEF Upper
    <3>5. CASE r = "memory"
      BY <3>4, <3>5, CgroupAssumption DEF Climbs, CgTypeOK, Limit
    <3>6. CASE r = "cpu"
      <4>1. limit["cpu"][path_cgroup] # "absent"
        BY <3>4, <3>6, CgroupAssumption DEF Climbs
      <4>2. path_cgroup \in Upper(g)
        BY <2>4, <3>4, <3>6, <4>1
      <4>3. g = path_cgroup
        BY <3>3, <3>4, <4>2, UpperIsStrict
      <4>4. QED
        BY <3>1, <3>4, <4>3, CgroupAssumption
    <3>7. QED
      BY <3>5, <3>6 DEF Resource
  <2>5. QED
    BY <2>3, <2>4
<1>8. QED
  BY <1>1, <1>3, <1>4, <1>6, <1>7

LEMMA CgNextStep ==
    ASSUME CgInv, CgNext, UNCHANGED cgWorldVars
    PROVE  CgInv'
<1>1. ASSUME NEW r \in Resource, ClimbStep(r) PROVE CgInv'
  <2>1. CASE path_cgroup = RootCgroup
    BY <1>1, <2>1, FoundStep DEF ClimbStep
  <2>2. CASE path_cgroup # RootCgroup /\ (path_cgroup \in removed \/ Climbs(r))
    BY <1>1, <2>2, ClimbOnStep DEF ClimbStep
  <2>3. CASE path_cgroup # RootCgroup /\ ~(path_cgroup \in removed \/ Climbs(r))
    <3>1. limit[r][path_cgroup] \in {"none", "max", "limit"}
      BY <2>3 DEF CgInv, CgTypeOK, Climbs, Limit
    <3>2. QED
      BY <1>1, <2>3, <3>1, FoundStep DEF ClimbStep
  <2>4. QED
    BY <2>1, <2>2, <2>3
<1>2. QED
  BY <1>1, GetStep DEF CgNext

(***************************************************************************)
(* The user namespaces.                                                    *)
(***************************************************************************)
\* A namespace with a process in it or below it is in use and lies below the
\* initial one, and only one that was in use has a mapping.
UnsInv ==
    /\ UnsTypeOK
    /\ userns[1] = InitNs /\ Runs(Cont)
    /\ ns_parent[InitNs] = InitNs
    /\ Live \subseteq seen
    /\ \A n \in Live : InitNs \in Above(n)
    /\ uid_map[userns[Cont]] # {}
    /\ \A n \in UserNs \ seen : uid_map[n] = {}

LEMMA AboveIs ==
    ASSUME NEW parent \in [UserNs -> UserNs], NEW n \in UserNs
    PROVE  /\ n \in Lineage(parent, {n}) /\ Lineage(parent, {n}) \subseteq UserNs
           /\ \A m \in Lineage(parent, {n}) : parent[m] \in Lineage(parent, {n})
           /\ \A S : n \in S /\ S \subseteq UserNs /\ (\A m \in S : parent[m] \in S)
                     => Lineage(parent, {n}) \subseteq S
<1>1. {n} \subseteq DOMAIN parent /\ DOMAIN parent = UserNs
  OBVIOUS
<1>2. QED
  BY <1>1, LineageIsLeast DEF IsLine

LEMMA LiveIs ==
    ASSUME UnsTypeOK
    PROVE  /\ \A p \in UPid : Runs(p) <=> userns[p] \in UserNs
           /\ \A p \in UPid : Runs(p) => userns[p] \in Live
           /\ Live \subseteq UserNs /\ \A n \in Live : ns_parent[n] \in Live
           /\ \A S : S \subseteq UserNs /\ (\A p \in UPid : Runs(p) => userns[p] \in S)
                     /\ (\A n \in S : ns_parent[n] \in S) => Live \subseteq S
<1> DEFINE Used == {userns[p] : p \in {q \in UPid : Runs(q)}}
<1>1. \A p \in UPid : Runs(p) <=> userns[p] \in UserNs
  BY UserNsAssumption DEF UnsTypeOK, Runs
<1>2. Used \subseteq DOMAIN ns_parent /\ DOMAIN ns_parent = UserNs
  BY <1>1 DEF UnsTypeOK
<1>3. Live = Lineage(ns_parent, Used)
  BY DEF Live
<1>4. /\ Used \subseteq Live /\ IsLine(ns_parent, Live)
      /\ \A S : Used \subseteq S /\ IsLine(ns_parent, S) => Live \subseteq S
  BY <1>2, <1>3, LineageIsLeast
<1>5. QED
  BY <1>1, <1>2, <1>4 DEF UnsTypeOK, IsLine

\* What is above a namespace in use is in use.
LEMMA AboveIsLive ==
    ASSUME UnsTypeOK, NEW n \in Live
    PROVE  Above(n) \subseteq Live
BY LiveIs, AboveIs DEF Above, UnsTypeOK

LEMMA UnsInvInit == UnsInit => UnsInv
<1> SUFFICES ASSUME UnsInit PROVE UnsInv
  OBVIOUS
<1>1. UnsTypeOK
  <2>1. uid_map \in [UserNs -> {InitMap, {}} \cup IdMaps]
    BY DEF UnsInit
  <2>2. Live \subseteq UserNs
    <3> DEFINE Used == {userns[p] : p \in {q \in UPid : Runs(q)}}
    <3>1. Used \subseteq DOMAIN ns_parent /\ DOMAIN ns_parent = UserNs
      BY UserNsAssumption DEF UnsInit, Runs
    <3>2. Live = Lineage(ns_parent, Used)
      BY DEF Live
    <3>3. QED
      BY <3>1, <3>2, LineageIsLeast DEF IsLine
  <2>3. QED
    BY <2>1, <2>2, UserNsAssumption DEF UnsInit, UnsTypeOK
<1>2. QED
  BY <1>1, LiveIs DEF UnsInit, UnsInv

\* What the processes do keeps the tree above a namespace in use, and its
\* mapping, once it has one; a process that was there all along was there before.
Stays ==
    /\ userns'[Cont] = userns[Cont]
    /\ \A p \in UPid : Steady(p)' => Steady(p) /\ userns'[p] = userns[p]
    /\ \A n \in Live : /\ ns_parent'[n] = ns_parent[n]
                       /\ uid_map'[n] = uid_map[n] \/ (uid_map[n] = {} /\ n \in remapped')
    /\ recycled' = {} =>
           \A n \in seen : /\ ns_parent'[n] = ns_parent[n]
                           /\ uid_map[n] # {} => uid_map'[n] = uid_map[n]
    /\ stirred \subseteq stirred' /\ remapped \subseteq remapped'
    /\ seen \subseteq seen' /\ recycled \subseteq recycled'

\* When the namespaces keep their parents, those above one are the same.
LEMMA SameAbove ==
    ASSUME UnsTypeOK, UnsTypeOK', NEW n \in Live, \A m \in Live : ns_parent'[m] = ns_parent[m]
    PROVE  Above(n)' = Above(n)
<1> DEFINE A == Lineage(ns_parent, {n})
           B == Lineage(ns_parent', {n})
<1>1. n \in UserNs /\ A \subseteq Live
  BY LiveIs, AboveIsLive DEF Above
<1>2. /\ n \in A /\ A \subseteq UserNs /\ \A m \in A : ns_parent[m] \in A
      /\ \A S : n \in S /\ S \subseteq UserNs /\ (\A m \in S : ns_parent[m] \in S) => A \subseteq S
  BY <1>1, AboveIs DEF UnsTypeOK
<1>3. /\ n \in B /\ B \subseteq UserNs /\ \A m \in B : ns_parent'[m] \in B
      /\ \A S : n \in S /\ S \subseteq UserNs /\ (\A m \in S : ns_parent'[m] \in S) => B \subseteq S
  BY <1>1, AboveIs DEF UnsTypeOK
<1> HIDE DEF A, B
<1>4. B \subseteq A
  BY <1>1, <1>2, <1>3
<1>5. A \subseteq B
  BY <1>1, <1>2, <1>3, <1>4
<1>6. QED
  BY <1>4, <1>5 DEF A, B, Above

\* What is in use after a step, from a set that contains it.
LEMMA LiveNext ==
    ASSUME UnsTypeOK', NEW S, S \subseteq UserNs, \A p \in UPid : Runs(p)' => userns'[p] \in S,
           \A n \in S : ns_parent'[n] \in S
    PROVE  Live' \subseteq S
<1> DEFINE Used == {userns'[p] : p \in {q \in UPid : Runs(q)'}}
<1>1. Used \subseteq DOMAIN ns_parent' /\ DOMAIN ns_parent' = UserNs
  BY UserNsAssumption DEF UnsTypeOK, Runs
<1>2. Live' = Lineage(ns_parent', Used)
  BY DEF Live
<1>3. QED
  BY <1>1, <1>2, LineageIsLeast DEF IsLine

LEMMA USpawnStep ==
    ASSUME UnsInv, NEW p \in UPid, NEW q \in UPid, USpawn(p, q)
    PROVE  UnsTypeOK' /\ Stays /\ Live' \subseteq Live /\ userns'[1] = InitNs /\ Runs(Cont)'
<1> USE DEF UnsInv
<1>1. UnsTypeOK'
  BY UserNsAssumption DEF USpawn, UHappens, UnsTypeOK, Runs
<1>2. q # Cont /\ q # 1
  BY UserNsAssumption DEF USpawn, Runs
<1>3. userns'[1] = InitNs /\ Runs(Cont)' /\ userns'[Cont] = userns[Cont]
  BY <1>2, UserNsAssumption DEF USpawn, Runs, UnsTypeOK
<1>4. \A r \in UPid : Steady(r)' => Steady(r) /\ userns'[r] = userns[r]
  BY DEF Steady, USpawn, Runs, UnsTypeOK
<1>5. Live' \subseteq Live
  <2>1. \A r \in UPid : Runs(r)' => userns'[r] \in Live
    BY LiveIs DEF USpawn, Runs, UnsTypeOK
  <2>2. Live \subseteq UserNs /\ \A n \in Live : ns_parent'[n] \in Live
    BY LiveIs DEF USpawn
  <2>3. QED
    BY <1>1, <2>1, <2>2, LiveNext
<1>6. QED
  BY <1>1, <1>3, <1>4, <1>5 DEF Stays, USpawn

LEMMA UExitStep ==
    ASSUME UnsInv, NEW p \in UPid, UExit(p)
    PROVE  UnsTypeOK' /\ Stays /\ Live' \subseteq Live /\ userns'[1] = InitNs /\ Runs(Cont)'
<1> USE DEF UnsInv
<1>1. UnsTypeOK'
  BY UserNsAssumption DEF UExit, UHappens, UnsTypeOK
<1>2. userns'[1] = InitNs /\ Runs(Cont)' /\ userns'[Cont] = userns[Cont]
  BY UserNsAssumption DEF UExit, Runs, UnsTypeOK
<1>3. \A r \in UPid : Steady(r)' => Steady(r) /\ userns'[r] = userns[r]
  BY DEF Steady, UExit, Runs, UnsTypeOK
<1>4. Live' \subseteq Live
  <2>1. \A r \in UPid : Runs(r)' => userns'[r] \in Live
    BY LiveIs DEF UExit, Runs, UnsTypeOK
  <2>2. Live \subseteq UserNs /\ \A n \in Live : ns_parent'[n] \in Live
    BY LiveIs DEF UExit
  <2>3. QED
    BY <1>1, <2>1, <2>2, LiveNext
<1>5. QED
  BY <1>1, <1>2, <1>3, <1>4 DEF Stays, UExit

LEMMA USetMapStep ==
    ASSUME UnsInv, NEW n \in UserNs, USetMap(n)
    PROVE  UnsTypeOK' /\ Stays /\ Live' \subseteq Live /\ userns'[1] = InitNs /\ Runs(Cont)'
<1> USE DEF UnsInv
<1>1. PICK map \in IdMaps : uid_map' = [uid_map EXCEPT ![n] = map]
  BY DEF USetMap
<1>2. UnsTypeOK'
  <2>1. uid_map' \in [UserNs -> {InitMap, {}} \cup IdMaps]
    BY <1>1 DEF UnsTypeOK
  <2>2. QED
    BY <2>1, UserNsAssumption DEF USetMap, UHappens, UnsTypeOK
<1>3. \A r \in UPid : Steady(r)' => Steady(r) /\ userns'[r] = userns[r]
  BY DEF Steady, USetMap, Runs
<1>4. Live' = Live
  BY DEF USetMap, Live, Runs
<1>5. \A m \in UserNs : uid_map'[m] = uid_map[m] \/ (uid_map[m] = {} /\ m \in remapped')
  BY <1>1 DEF USetMap, UnsTypeOK
<1>6. Live \subseteq UserNs /\ seen \subseteq UserNs
  BY LiveIs DEF UnsTypeOK
<1>7. Stays
  BY <1>3, <1>5, <1>6 DEF Stays, USetMap
<1>8. QED
  BY <1>2, <1>4, <1>7 DEF USetMap, Runs

LEMMA UUnshareStep ==
    ASSUME UnsInv, NEW p \in UPid, NEW n \in UserNs, UUnshare(p, n)
    PROVE  /\ UnsTypeOK' /\ Stays /\ Live' \subseteq Live \cup {n}
           /\ n \notin Live /\ ns_parent'[n] \in Live
           /\ userns'[1] = InitNs /\ Runs(Cont)'
<1> USE DEF UnsInv
<1>1. UnsTypeOK'
  <2>1. userns[p] \in UserNs
    BY LiveIs DEF UUnshare
  <2>2. QED
    BY <2>1, UserNsAssumption DEF UUnshare, UHappens, UnsTypeOK
<1>2. userns'[1] = InitNs /\ Runs(Cont)' /\ userns'[Cont] = userns[Cont]
  BY UserNsAssumption DEF UUnshare, Runs, UnsTypeOK
<1>3. \A r \in UPid : Steady(r)' => Steady(r) /\ userns'[r] = userns[r]
  BY DEF Steady, UUnshare, Runs, UnsTypeOK
<1>4. n \notin Live /\ userns[p] \in Live /\ Live \subseteq UserNs
  BY LiveIs DEF UUnshare
<1>5. /\ ns_parent' = [ns_parent EXCEPT ![n] = userns[p]]
      /\ uid_map' = [uid_map EXCEPT ![n] = {}]
      /\ ns_parent \in [UserNs -> UserNs] /\ DOMAIN uid_map = UserNs
  BY DEF UUnshare, UnsTypeOK
<1>6. \A m \in Live : ns_parent'[m] = ns_parent[m] /\ uid_map'[m] = uid_map[m]
  BY <1>4, <1>5
<1>7. recycled' = {} => \A m \in seen : ns_parent'[m] = ns_parent[m] /\ uid_map'[m] = uid_map[m]
  <2>1. recycled' = {} => n \notin seen
    BY DEF UUnshare
  <2>2. QED
    BY <2>1, <1>5 DEF UnsTypeOK
<1>8. Live' \subseteq Live \cup {n}
  <2> DEFINE S == Live \cup {n}
  <2>1. S \subseteq UserNs
    BY <1>4
  <2>2. \A r \in UPid : Runs(r)' => userns'[r] \in S
    BY LiveIs DEF UUnshare, Runs, UnsTypeOK
  <2>3. \A m \in S : ns_parent'[m] \in S
    BY <1>4, <1>5, <1>6, LiveIs
  <2> HIDE DEF S
  <2>4. Live' \subseteq S
    BY <1>1, <2>1, <2>2, <2>3, LiveNext
  <2>5. QED
    BY <2>4 DEF S
<1>9. Stays
  BY <1>2, <1>3, <1>6, <1>7 DEF Stays, UUnshare
<1>10. QED
  BY <1>1, <1>2, <1>4, <1>5, <1>8, <1>9

LEMMA UnsStep ==
    ASSUME UnsInv, UnsNext
    PROVE  UnsInv' /\ Stays
<1> USE DEF UnsInv
<1>1. ASSUME UnsTypeOK', Stays, Live' \subseteq Live, userns'[1] = InitNs, Runs(Cont)',
             \A n \in UserNs \ seen' : uid_map'[n] = {}
      PROVE  UnsInv'
  <2>1. InitNs \in Live /\ userns[Cont] \in Live
    BY LiveIs, UserNsAssumption DEF Runs
  <2>2. ns_parent'[InitNs] = InitNs /\ uid_map'[userns[Cont]] # {} /\ Live' \subseteq seen'
    BY <1>1, <2>1 DEF Stays
  <2>3. \A n \in Live' : InitNs \in Above(n)'
    BY <1>1, SameAbove DEF Stays
  <2>4. QED
    BY <1>1, <2>2, <2>3 DEF Stays
<1>2. ASSUME NEW p \in UPid, NEW q \in UPid, USpawn(p, q) PROVE UnsInv' /\ Stays
  BY <1>1, <1>2, USpawnStep DEF USpawn
<1>3. ASSUME NEW p \in UPid, UExit(p) PROVE UnsInv' /\ Stays
  BY <1>1, <1>3, UExitStep DEF UExit
<1>4. ASSUME NEW n \in UserNs, USetMap(n) PROVE UnsInv' /\ Stays
  <2>1. \A m \in UserNs \ seen' : uid_map'[m] = {}
    BY <1>4 DEF USetMap, UnsTypeOK
  <2>2. QED
    BY <1>1, <1>4, <2>1, USetMapStep
<1>5. ASSUME NEW p \in UPid, NEW n \in UserNs, UUnshare(p, n) PROVE UnsInv' /\ Stays
  <2>1. /\ UnsTypeOK' /\ Stays /\ Live' \subseteq Live \cup {n}
        /\ n \notin Live /\ ns_parent'[n] \in Live
        /\ userns'[1] = InitNs /\ Runs(Cont)'
    BY <1>5, UUnshareStep
  <2>2. InitNs \in Live /\ userns[Cont] \in Live
    BY LiveIs, UserNsAssumption DEF Runs
  <2>3. Live' \subseteq seen' /\ \A m \in UserNs \ seen' : uid_map'[m] = {}
    BY <1>5, <2>1 DEF UUnshare, UnsTypeOK
  <2>4. ns_parent'[InitNs] = InitNs /\ uid_map'[userns'[Cont]] # {}
    BY <2>1, <2>2 DEF Stays
  <2>5. \A m \in Live : InitNs \in Above(m)'
    BY <2>1, SameAbove DEF Stays
  <2>6. InitNs \in Above(n)'
    <3>1. PICK a \in Live : a = ns_parent'[n]
      BY <2>1
    <3>2. InitNs \in Lineage(ns_parent', {a})
      BY <2>5 DEF Above
    <3>3. Lineage(ns_parent', {a}) \subseteq Lineage(ns_parent', {n})
      <4>1. ns_parent' \in [UserNs -> UserNs] /\ a \in UserNs
        BY <2>1, LiveIs DEF UnsTypeOK
      <4>2. QED
        BY <4>1, <3>1, AboveIs
    <3>4. QED
      BY <3>2, <3>3 DEF Above
  <2>7. QED
    BY <2>1, <2>3, <2>4, <2>5, <2>6
<1>6. QED
  BY <1>2, <1>3, <1>4, <1>5 DEF UnsNext

(***************************************************************************)
(* The uniqueness of the mapping.                                          *)
(***************************************************************************)
LEMMA SmallMod ==
    ASSUME NEW N \in Nat, NEW x \in Nat, x < N
    PROVE  x % N = x
OBVIOUS

\* The test for an overlap compares identifiers.
LEMMA OverlapIsCommon ==
    ASSUME NEW map \in {InitMap, {}} \cup IdMaps, NEW own \in {InitMap, {}} \cup IdMaps
    PROVE  (\E e \in map, f \in own : Overlap(e, f)) <=> Ids(map) \cap Ids(own) # {}
<1> DEFINE N == 2 ^ W
           Extent(e) == e.parent .. (e.parent + e.range - 1)
<1>1. /\ N \in Nat
      /\ \A m \in {InitMap} \cup IdMaps : \A e \in m : e.range > 0 /\ e.parent + e.range < N
  BY WidthAssumption
<1>2. ASSUME NEW e, NEW f PROVE Plus(e.parent, e.range) = (e.parent + e.range) % N
  BY DEF Plus
<1> HIDE DEF N
<1>3. \A m \in {InitMap, {}} \cup IdMaps : \A e \in m :
          e.parent \in Nat /\ e.range \in Nat /\ e.range > 0 /\ e.parent + e.range < N
  BY <1>1, UserNsAssumption
<1>4. \A m \in {InitMap, {}} \cup IdMaps : \A e \in m : Plus(e.parent, e.range) = e.parent + e.range
  <2> TAKE m \in {InitMap, {}} \cup IdMaps
  <2> TAKE e \in m
  <2>1. e.parent + e.range \in Nat /\ e.parent + e.range < N
    BY <1>3
  <2>2. QED
    BY <1>1, <1>2, <2>1, SmallMod
<1>5. \A e \in map, f \in own :
          Overlap(e, f) <=> Extent(e) \cap Extent(f) # {}
  <2> SUFFICES ASSUME NEW e \in map, NEW f \in own
               PROVE  Overlap(e, f) <=> Extent(e) \cap Extent(f) # {}
    OBVIOUS
  <2>1. /\ e.parent \in Nat /\ e.range \in Nat /\ e.range > 0
        /\ f.parent \in Nat /\ f.range \in Nat /\ f.range > 0
    BY <1>3
  <2>2. Plus(e.parent, e.range) = e.parent + e.range /\ Plus(f.parent, f.range) = f.parent + f.range
    BY <1>4
  <2>3. Overlap(e, f) <=> e.parent + e.range > f.parent /\ f.parent + f.range > e.parent
    <3>1. Overlap(e, f) <=> ~(e.parent + e.range <= f.parent \/ f.parent + f.range <= e.parent)
      BY <2>2 DEF Overlap
    <3>2. QED
      BY <2>1, <3>1
  <2>4. ASSUME Overlap(e, f)
        PROVE  Extent(e) \cap Extent(f) # {}
    <3>1. CASE e.parent <= f.parent
      <4>1. /\ f.parent \in Extent(e)
            /\ f.parent \in Extent(f)
        BY <2>1, <2>3, <2>4, <3>1
      <4>2. QED
        BY <4>1
    <3>2. CASE f.parent <= e.parent
      <4>1. /\ e.parent \in Extent(e)
            /\ e.parent \in Extent(f)
        BY <2>1, <2>3, <2>4, <3>2
      <4>2. QED
        BY <4>1
    <3>3. QED
      BY <2>1, <3>1, <3>2
  <2>5. ASSUME NEW x \in Extent(e) \cap Extent(f)
        PROVE  Overlap(e, f)
    BY <2>1, <2>3, <2>5
  <2>6. QED
    BY <2>4, <2>5
<1>6. Ids(map) \cap Ids(own) # {} <=>
          \E e \in map, f \in own : Extent(e) \cap Extent(f) # {}
  BY DEF Ids
<1>7. QED
  BY <1>5, <1>6

Shared(n) == Ids(uid_map[n]) \cap Ids(uid_map[userns[Cont]]) # {}

\* A namespace that needs no look at its mapping, or had one.
Settled(n) ==
    n \notin remapped \cup {userns[Cont], InitNs} /\ ns_parent[n] = InitNs => ~Shared(n)

\* The processes compared, and those to come.
Compared ==
    unique # "start" =>
        \A p \in UPid : Steady(p) /\ p \notin upids \cup {Cont} => Settled(userns[p])

\* What was read of the one in hand.
IdRead ==
    /\ unique \in {"owner", "map"} =>
           \A p \in UPid : LeastUPid(p) /\ Steady(p) => read_id = userns[p]
    /\ unique = "map" => read_id \notin {userns[Cont], InitNs}

\* The namespace that ended the search, as long as its id stands for it.
Overlapping ==
    unique = "false" /\ recycled = {} =>
        \/ \E p \in stirred : LeastUPid(p)
        \/ \E n \in UserNs \ {userns[Cont], InitNs} : Shared(n)

UmTypeOK ==
    /\ unique \in {"start", "id", "owner", "map", "true", "false", "err"}
    /\ upids \subseteq UPid \ {Cont}
    /\ read_id \in UserNs
    /\ unique = "true" => upids = {}

UmInv == UmTypeOK /\ Compared /\ IdRead /\ Overlapping

LEMMA UmInvInit == UmInit => UmInv
BY UserNsAssumption DEF UmInit, UmInv, UmTypeOK, Compared, IdRead, Overlapping

LEMMA UmWorldStep ==
    ASSUME UnsInv, UmInv, UnsNext, UNCHANGED umVars
    PROVE  UmInv'
<1> USE DEF UmInv, umVars
<1>1. UnsInv' /\ Stays
  BY UnsStep
<1>2. userns[Cont] \in Live /\ userns[Cont] \in seen
  BY LiveIs, UserNsAssumption DEF UnsInv
<1>3. userns'[Cont] = userns[Cont] /\ uid_map'[userns[Cont]] = uid_map[userns[Cont]]
  BY <1>1, <1>2 DEF Stays, UnsInv
<1>4. Compared'
  <2> SUFFICES ASSUME unique # "start", NEW p \in UPid, Steady(p)', p \notin upids \cup {Cont}
               PROVE  Settled(userns[p])'
    BY DEF Compared
  <2>1. Steady(p) /\ userns'[p] = userns[p] /\ userns[p] \in Live
    BY <1>1, LiveIs DEF Stays, UnsInv, Steady
  <2>2. Settled(userns[p])
    BY <2>1 DEF Compared
  <2>3. PICK n \in Live : n = userns[p]
    BY <2>1
  <2>4. /\ ns_parent'[n] = ns_parent[n] /\ remapped \subseteq remapped'
        /\ uid_map'[n] = uid_map[n] \/ n \in remapped'
    BY <1>1 DEF Stays
  <2>5. Settled(n)'
    BY <1>3, <2>2, <2>3, <2>4 DEF Settled, Shared
  <2>6. QED
    BY <2>1, <2>3, <2>5 DEF Settled, Shared
<1>5. IdRead'
  BY <1>1, <1>3 DEF IdRead, Stays, LeastUPid
<1>6. Overlapping'
  <2> SUFFICES ASSUME unique = "false", recycled' = {}
               PROVE  \/ \E p \in stirred' : LeastUPid(p)
                      \/ \E n \in UserNs \ {userns[Cont], InitNs} : Shared(n)'
    BY <1>3 DEF Overlapping, LeastUPid
  <2>1. recycled = {} /\ stirred \subseteq stirred'
    BY <1>1 DEF Stays
  <2>2. ASSUME NEW n \in UserNs \ {userns[Cont], InitNs}, Shared(n) PROVE Shared(n)'
    <3>1. uid_map[n] # {}
      BY <2>2 DEF Shared, Ids
    <3>2. uid_map'[n] = uid_map[n]
      <4>1. n \in seen
        BY <3>1 DEF UnsInv
      <4>2. QED
        BY <1>1, <3>1, <4>1 DEF Stays
    <3>3. QED
      BY <1>3, <2>2, <3>2 DEF Shared
  <2>3. QED
    BY <2>1, <2>2 DEF Overlapping
<1>7. QED
  BY <1>4, <1>5, <1>6 DEF UmTypeOK

LEMMA UmNextStep ==
    ASSUME UnsInv, UmInv, UmNext, UNCHANGED unsVars
    PROVE  UmInv'
<1> USE DEF UmInv, unsVars
<1>1. \A p : (Steady(p)' <=> Steady(p)) /\ userns'[p] = userns[p] /\ (Runs(p)' <=> Runs(p))
  BY DEF Steady, Runs
<1>2. \A n : Settled(n)' <=> Settled(n)
  BY DEF Settled, Shared
<1>3. ASSUME NEW p \in UPid, NextUPid(p), LeastUPid(p), unique \in {"id", "owner", "map"}, UNCHANGED read_id,
             Steady(p) => Settled(userns[p])
      PROVE  UmInv'
  <2>1. Compared'
    BY <1>1, <1>2, <1>3 DEF Compared, NextUPid
  <2>2. QED
    BY <1>3, <2>1 DEF NextUPid, UmTypeOK, IdRead, Overlapping
<1>4. CASE ListUPids
  <2>1. Compared'
    BY <1>1, <1>4 DEF ListUPids, Compared, Steady
  <2>2. QED
    BY <1>4, <2>1 DEF ListUPids, UmTypeOK, IdRead, Overlapping
<1>5. CASE AllCompared
  <2>1. Compared'
    BY <1>1, <1>2, <1>5 DEF AllCompared, Compared
  <2>2. QED
    BY <1>5, <2>1 DEF AllCompared, UmTypeOK, IdRead, Overlapping
<1>6. ASSUME NEW p \in UPid, SkipUPid(p) PROVE UmInv'
  BY <1>3, <1>6 DEF SkipUPid, Steady
<1>7. ASSUME NEW p \in UPid, ReadId(p) PROVE UmInv'
  <2>1. Compared'
    BY <1>1, <1>2, <1>7 DEF ReadId, Compared
  <2>2. \A q \in UPid : LeastUPid(q) => q = p
    BY <1>7, UserNsAssumption DEF ReadId, LeastUPid, UmTypeOK
  <2>3. \A q : LeastUPid(q)' <=> LeastUPid(q)
    BY <1>7 DEF ReadId, LeastUPid
  <2>4. IdRead'
    BY <1>1, <1>7, <2>2, <2>3 DEF ReadId, IdRead
  <2>5. userns[p] \in UserNs
    BY <1>7, LiveIs DEF ReadId, UnsInv
  <2>6. QED
    BY <1>7, <2>1, <2>4, <2>5 DEF ReadId, UmTypeOK, Overlapping
<1>8. ASSUME NEW p \in UPid, ReadOwner(p) PROVE UmInv'
  <2>1. CASE read_id \notin {userns[Cont], InitNs} /\ ns_parent[userns[p]] = InitNs
    <3>1. unique' = "map" /\ UNCHANGED <<upids, read_id>>
      BY <1>8, <2>1 DEF ReadOwner
    <3>2. Compared'
      BY <1>1, <1>2, <1>8, <3>1 DEF ReadOwner, Compared
    <3>3. IdRead'
      BY <1>1, <1>8, <2>1, <3>1 DEF ReadOwner, IdRead, LeastUPid
    <3>4. QED
      BY <3>1, <3>2, <3>3, <1>8 DEF UmTypeOK, Overlapping
  <2>2. CASE ~(read_id \notin {userns[Cont], InitNs} /\ ns_parent[userns[p]] = InitNs)
    <3>1. Steady(p) => read_id = userns[p]
      BY <1>8 DEF ReadOwner, IdRead
    <3>2. Steady(p) => Settled(userns[p])
      BY <2>2, <3>1 DEF Settled
    <3>3. QED
      BY <1>3, <1>8, <2>2, <3>2 DEF ReadOwner
  <2>3. QED
    BY <2>1, <2>2
<1>9. ASSUME NEW p \in UPid, ReadMap(p) PROVE UmInv'
  <2>1. CASE ~Runs(p)
    <3>1. Compared'
      BY <1>1, <1>2, <1>9, <2>1 DEF ReadMap, Compared
    <3>2. QED
      BY <1>9, <2>1, <3>1 DEF ReadMap, UmTypeOK, IdRead, Overlapping
  <2>2. CASE Runs(p)
    <3>1. userns[p] \in UserNs /\ userns[Cont] \in UserNs
      BY <2>2, LiveIs, UserNsAssumption DEF UnsInv
    <3>2. Overlaps(uid_map[userns[p]]) <=> Shared(userns[p])
      <4>1. /\ uid_map[userns[p]] \in {InitMap, {}} \cup IdMaps
            /\ uid_map[userns[Cont]] \in {InitMap, {}} \cup IdMaps
        BY <3>1 DEF UnsInv, UnsTypeOK
      <4>2. QED
        BY <4>1, OverlapIsCommon DEF Overlaps, Shared
    <3>3. CASE Shared(userns[p])
      <4>1. unique' = "false" /\ UNCHANGED <<upids, read_id>>
        BY <1>9, <2>2, <3>2, <3>3 DEF ReadMap
      <4>2. Compared'
        BY <1>1, <1>2, <1>9, <4>1 DEF ReadMap, Compared
      <4>3. (\E q \in stirred : LeastUPid(q)) \/ \E n \in UserNs \ {userns[Cont], InitNs} : Shared(n)
        <5>1. LeastUPid(p) /\ unique = "map"
          BY <1>9 DEF ReadMap
        <5>2. p \in stirred \/ Steady(p)
          BY <2>2 DEF Steady
        <5>3. Steady(p) => userns[p] \notin {userns[Cont], InitNs}
          BY <5>1 DEF IdRead
        <5>4. QED
          BY <3>1, <3>3, <5>1, <5>2, <5>3
      <4>4. Overlapping'
        BY <4>1, <4>3 DEF Overlapping, Shared, LeastUPid
      <4>5. QED
        BY <4>1, <4>2, <4>4 DEF UmTypeOK, IdRead
    <3>4. CASE ~Shared(userns[p])
      <4>1. NextUPid(p) /\ UNCHANGED read_id
        BY <1>9, <2>2, <3>2, <3>4 DEF ReadMap
      <4>2. QED
        BY <1>3, <1>9, <3>4, <4>1 DEF ReadMap, Settled
    <3>5. QED
      BY <3>3, <3>4
  <2>3. QED
    BY <2>1, <2>2
<1>10. QED
  BY <1>4, <1>5, <1>6, <1>7, <1>8, <1>9 DEF UmNext

(***************************************************************************)
(* The hierarchy: paths through a tree of parents.                         *)
(***************************************************************************)
\* From the last number to the first.
LEMMA CountDown ==
    ASSUME NEW k \in Nat \ {0}, NEW S, k \in S, \A i \in 1 .. k - 1 : i + 1 \in S => i \in S
    PROVE  1 .. k \subseteq S
<1> DEFINE T == {j \in Nat : j < k /\ k - j \notin S}
<1>1. SUFFICES ASSUME T # {} PROVE FALSE
  <2>1. ASSUME NEW i \in 1 .. k, i \notin S PROVE k - i \in T
    <3>1. k - i \in Nat /\ k - i < k /\ k - (k - i) = i
      OBVIOUS
    <3>2. QED
      BY <2>1, <3>1
  <2>2. QED
    BY <2>1
<1>2. \E j \in T : \A m \in T : ~(<<m, j>> \in OpToRel(<, Nat))
  <2>1. IsWellFoundedOn(OpToRel(<, Nat), Nat)
    BY NatLessThanWellFounded
  <2>2. T \subseteq Nat
    OBVIOUS
  <2>3. QED
    BY <1>1, <2>1, <2>2, WFMin
<1>3. PICK j \in T : \A m \in T : ~(m < j)
  BY <1>2 DEF OpToRel
<1>4. j \in Nat /\ j < k /\ k - j \notin S
  OBVIOUS
<1>5. j # 0
  BY <1>4
<1>6. j - 1 \in T
  <2>1. k - j \in 1 .. k - 1 /\ k - j + 1 = k - (j - 1) /\ j - 1 \in Nat /\ j - 1 < k
    BY <1>4, <1>5
  <2>2. QED
    BY <1>4, <2>1
<1>7. QED
  BY <1>3, <1>4, <1>5, <1>6

\* A sequence of namespaces from a root down, each the parent of the next.
IsPath(parent, k, path) ==
    /\ k \in Nat \ {0} /\ path \in [1 .. k -> UserNs] /\ IsInjective(path)
    /\ parent[path[1]] = path[1]
    /\ \A i \in 1 .. k - 1 : parent[path[i + 1]] = path[i]

LEMMA PathIsLineage ==
    ASSUME NEW parent \in [UserNs -> UserNs], NEW k, NEW path, IsPath(parent, k, path)
    PROVE  ToSet(path) = Lineage(parent, {path[k]})
<1> DEFINE L == Lineage(parent, {path[k]})
<1>1. path[k] \in UserNs
  BY DEF IsPath
<1>2. /\ path[k] \in L /\ \A m \in L : parent[m] \in L
      /\ \A S : path[k] \in S /\ S \subseteq UserNs /\ (\A m \in S : parent[m] \in S) => L \subseteq S
  BY <1>1, AboveIs
<1> HIDE DEF L
<1>3. k \in Nat \ {0} /\ \A i \in 1 .. k : path[i] \in UserNs
  BY DEF IsPath
<1>4. ToSet(path) = {path[i] : i \in 1 .. k}
  BY DEF ToSet, IsPath
<1>5. L \subseteq ToSet(path)
  <2>1. ASSUME NEW i \in 1 .. k PROVE parent[path[i]] \in ToSet(path)
    <3>1. CASE i = 1
      BY <1>3, <1>4, <3>1 DEF IsPath
    <3>2. CASE i # 1
      <4>1. i - 1 \in 1 .. k - 1 /\ i - 1 \in 1 .. k /\ (i - 1) + 1 = i
        BY <1>3, <3>2
      <4>2. parent[path[i]] = path[i - 1]
        BY <4>1 DEF IsPath
      <4>3. QED
        BY <1>4, <4>1, <4>2
    <3>3. QED
      BY <3>1, <3>2
  <2>2. ToSet(path) \subseteq UserNs /\ path[k] \in ToSet(path)
    BY <1>3, <1>4
  <2>3. \A m \in ToSet(path) : parent[m] \in ToSet(path)
    BY <1>4, <2>1
  <2>4. QED
    BY <1>2, <2>2, <2>3
<1>6. ToSet(path) \subseteq L
  <2> DEFINE S == {i \in 1 .. k : path[i] \in L}
  <2>1. k \in S
    BY <1>2, <1>3
  <2>2. \A i \in 1 .. k - 1 : i + 1 \in S => i \in S
    BY <1>2, <1>3 DEF IsPath
  <2> HIDE DEF S
  <2>3. 1 .. k \subseteq S
    BY <1>3, <2>1, <2>2, CountDown
  <2>4. QED
    BY <1>4, <2>3 DEF S
<1>7. QED
  BY <1>5, <1>6 DEF L

\* There is one path to a namespace.
LEMMA PathIsUnique ==
    ASSUME NEW parent \in [UserNs -> UserNs],
           NEW k, NEW path, IsPath(parent, k, path),
           NEW l, NEW other, IsPath(parent, l, other), path[k] = other[l]
    PROVE  path = other
<1>1. ASSUME NEW j, NEW p, IsPath(parent, j, p)
      PROVE  j \in Nat /\ Cardinality(ToSet(p)) = j
  <2>1. p \in Bijection(1 .. j, ToSet(p))
    BY <1>1 DEF IsPath, Bijection, Injection, Surjection, ToSet
  <2>2. IsFiniteSet(1 .. j) /\ Cardinality(1 .. j) = j /\ j \in Nat
    BY <1>1, FS_Interval DEF IsPath
  <2>3. QED
    BY <2>1, <2>2, FS_Bijection DEF ExistsBijection
<1>2. k = l
  <2>1. Cardinality(ToSet(path)) = k /\ Cardinality(ToSet(other)) = l
    BY <1>1
  <2>2. ToSet(path) = ToSet(other)
    <3>1. ToSet(path) = Lineage(parent, {path[k]})
      BY PathIsLineage
    <3>2. ToSet(other) = Lineage(parent, {other[l]})
      BY PathIsLineage
    <3>3. QED
      BY <3>1, <3>2
  <2>3. QED
    BY <2>1, <2>2
<1> DEFINE S == {i \in 1 .. k : path[i] = other[i]}
<1>3. k \in S
  BY <1>2 DEF IsPath
<1>4. \A i \in 1 .. k - 1 : i + 1 \in S => i \in S
  BY <1>2 DEF IsPath
<1>5. 1 .. k \subseteq S
  BY <1>3, <1>4, CountDown DEF IsPath
<1>6. QED
  BY <1>2, <1>5 DEF IsPath

\* A path leads to every namespace that has the initial one above it.
LEMMA PathExists ==
    ASSUME NEW parent \in [UserNs -> UserNs], parent[InitNs] = InitNs, NEW n \in UserNs,
           \A m \in Lineage(parent, {n}) : InitNs \in Lineage(parent, {m})
    PROVE  \A m \in Lineage(parent, {n}) : \E k, path : IsPath(parent, k, path) /\ path[k] = m
<1> DEFINE L == Lineage(parent, {n})
           Reached == {m \in L : \E k, path : IsPath(parent, k, path) /\ path[k] = m}
<1>1. L \subseteq UserNs /\ InitNs \in L /\ \A m \in L : parent[m] \in L
  BY AboveIs
<1>2. InitNs \in Reached
  <2> DEFINE root == [i \in 1 .. 1 |-> InitNs]
  <2>1. IsPath(parent, 1, root) /\ root[1] = InitNs
    BY <1>1 DEF IsPath, IsInjective
  <2>2. QED
    BY <1>1, <2>1
<1>3. ASSUME NEW m \in L, parent[m] \in Reached PROVE m \in Reached
  <2>1. PICK k, path : IsPath(parent, k, path) /\ path[k] = parent[m]
    BY <1>3
  <2>2. ASSUME NEW i \in 1 .. k, path[i] = m PROVE m \in Reached
    <3> DEFINE start == [j \in 1 .. i |-> path[j]]
    <3>1. IsPath(parent, i, start) /\ start[i] = m
      BY <2>1, <2>2 DEF IsPath, IsInjective
    <3>2. QED
      BY <3>1
  <2>3. ASSUME \A i \in 1 .. k : path[i] # m PROVE m \in Reached
    <3> DEFINE on == [j \in 1 .. k + 1 |-> IF j = k + 1 THEN m ELSE path[j]]
    <3>1. k \in Nat \ {0}
      BY <2>1 DEF IsPath
    <3>2. k + 1 \in Nat \ {0} /\ m \in UserNs /\ on[k + 1] = m
      <4>1. m \in UserNs
        BY <1>1
      <4>2. k + 1 \in 1 .. k + 1 /\ k + 1 \in Nat \ {0}
        BY <3>1
      <4>3. QED
        BY <4>1, <4>2
    <3>3. on \in [1 .. k + 1 -> UserNs]
      BY <2>1, <3>2 DEF IsPath
    <3>4. IsInjective(on)
      BY <2>1, <2>3 DEF IsPath, IsInjective
    <3>5. parent[on[1]] = on[1] /\ \A i \in 1 .. (k + 1) - 1 : parent[on[i + 1]] = on[i]
      BY <2>1 DEF IsPath
    <3> HIDE DEF on
    <3>6. IsPath(parent, k + 1, on)
      BY <3>2, <3>3, <3>4, <3>5 DEF IsPath
    <3>7. QED
      BY <3>2, <3>6
  <2>4. QED
    BY <2>2, <2>3
<1>4. ASSUME NEW m \in L \ Reached PROVE FALSE
  <2> HIDE DEF L, Reached
  <2>1. \A l \in L \ Reached : parent[l] \in L \ Reached
    BY <1>1, <1>3
  <2>2. Lineage(parent, {m}) \subseteq L \ Reached
    BY <1>1, <2>1, AboveIs
  <2>3. InitNs \in Lineage(parent, {m})
    BY DEF L
  <2>4. QED
    BY <1>2, <2>2, <2>3
<1>5. QED
  BY <1>4

\* The paths that populate() makes of edges from parents to their children.
LEMMA PopulatedIs ==
    ASSUME NEW parent \in [UserNs -> UserNs], NEW edges,
           \A a, b \in UserNs : <<a, b>> \in edges => a = parent[b]
    PROVE  /\ \A path \in Populated(edges) : IsPath(parent, Len(path), path)
           /\ \A k, path : IsPath(parent, k, path) /\ (\A m \in ToSet(path) : <<parent[m], m>> \in edges)
                  => path \in Populated(edges) /\ Len(path) = k
<1>1. Cardinality(UserNs) \in Nat
  BY UserNsAssumption, FS_CardinalityType
<1>2. ASSUME NEW path \in Populated(edges) PROVE IsPath(parent, Len(path), path)
  <2>1. PICK k \in 0 .. Cardinality(UserNs) : path \in [1 .. k -> UserNs]
    BY DEF Populated, BoundedSeq, SeqOf
  <2>2. Len(path) = k
    BY <1>1, <2>1
  <2>3. k # 0
    BY <2>1, <2>2 DEF Populated
  <2>4. IsInjective(path) /\ <<path[1], path[1]>> \in edges
    BY DEF Populated
  <2>5. \A i \in 1 .. k - 1 : <<path[i], path[i + 1]>> \in edges
    BY <2>2 DEF Populated
  <2>6. k \in Nat \ {0} /\ \A i \in 1 .. k : path[i] \in UserNs
    BY <1>1, <2>1, <2>3
  <2>7. parent[path[1]] = path[1]
    BY <2>4, <2>6
  <2>8. \A i \in 1 .. k - 1 : parent[path[i + 1]] = path[i]
    <3> TAKE i \in 1 .. k - 1
    <3>1. i \in 1 .. k /\ i + 1 \in 1 .. k
      BY <2>6
    <3>2. <<path[i], path[i + 1]>> \in edges
      BY <2>5
    <3>3. QED
      BY <2>6, <3>1, <3>2
  <2>9. QED
    BY <2>1, <2>2, <2>4, <2>6, <2>7, <2>8 DEF IsPath
<1>3. ASSUME NEW k, NEW path, IsPath(parent, k, path), \A m \in ToSet(path) : <<parent[m], m>> \in edges
      PROVE  path \in Populated(edges) /\ Len(path) = k
  <2>1. k \in Nat \ {0} /\ path \in [1 .. k -> UserNs] /\ Len(path) = k
    BY <1>3 DEF IsPath
  <2>2. k <= Cardinality(UserNs)
    <3>1. path \in Injection(1 .. k, UserNs)
      BY <1>3 DEF IsPath, Injection
    <3>2. Cardinality(1 .. k) = k
      BY <2>1, FS_Interval
    <3>3. QED
      BY <3>1, <3>2, FS_Injection, UserNsAssumption
  <2>3. path \in BoundedSeq(UserNs, Cardinality(UserNs))
    BY <1>1, <2>1, <2>2 DEF BoundedSeq, SeqOf
  <2>4. path # <<>>
    BY <2>1
  <2>5. \A i \in 1 .. k : <<parent[path[i]], path[i]>> \in edges
    BY <1>3, <2>1 DEF ToSet
  <2>6. <<path[1], path[1]>> \in edges
    BY <1>3, <2>1, <2>5 DEF IsPath
  <2>7. \A i \in 1 .. Len(path) - 1 : <<path[i], path[i + 1]>> \in edges
    BY <1>3, <2>1, <2>5 DEF IsPath
  <2>8. QED
    BY <1>3, <2>1, <2>3, <2>4, <2>6, <2>7 DEF Populated, IsPath
<1>4. QED
  BY <1>2, <1>3

\* In that tree, a namespace all of whose edges are known is once, and its
\* path goes through what is above it.
LEMMA OncePopulated ==
    ASSUME NEW parent \in [UserNs -> UserNs], parent[InitNs] = InitNs, NEW n \in UserNs,
           \A m \in Lineage(parent, {n}) : InitNs \in Lineage(parent, {m}),
           NEW edges, \A a, b \in UserNs : <<a, b>> \in edges => a = parent[b],
           \A m \in Lineage(parent, {n}) : <<parent[m], m>> \in edges
    PROVE  \A m \in Lineage(parent, {n}) :
               /\ Cardinality({path \in Populated(edges) : Last(path) = m}) = 1
               /\ \A path \in Populated(edges) : Last(path) = m => ToSet(path) = Lineage(parent, {m})
<1> DEFINE L == Lineage(parent, {n})
<1> SUFFICES ASSUME NEW m \in L
             PROVE  /\ Cardinality({path \in Populated(edges) : Last(path) = m}) = 1
                    /\ \A path \in Populated(edges) : Last(path) = m => ToSet(path) = Lineage(parent, {m})
  OBVIOUS
<1>1. \A path \in Populated(edges) : IsPath(parent, Len(path), path) /\ Last(path) = path[Len(path)]
  BY PopulatedIs DEF Last
<1>2. PICK k, path : IsPath(parent, k, path) /\ path[k] = m
  BY PathExists
<1>3. m \in UserNs /\ Lineage(parent, {m}) \subseteq L
  BY AboveIs
<1>4. path \in Populated(edges) /\ Last(path) = m
  <2>1. ToSet(path) = Lineage(parent, {m})
    BY <1>2, PathIsLineage
  <2>2. \A l \in ToSet(path) : <<parent[l], l>> \in edges
    BY <1>3, <2>1
  <2>3. path \in Populated(edges) /\ Len(path) = k
    BY <1>2, <2>2, PopulatedIs
  <2>4. QED
    BY <1>2, <2>3 DEF Last
<1>5. \A other \in Populated(edges) : Last(other) = m => other = path
  BY <1>1, <1>2, PathIsUnique
<1>6. {q \in Populated(edges) : Last(q) = m} = {path}
  BY <1>4, <1>5
<1>7. ToSet(path) = Lineage(parent, {m})
  BY <1>2, PathIsLineage
<1>8. QED
  BY <1>5, <1>6, <1>7, FS_Singleton

(***************************************************************************)
(* The hierarchy, as it is collected.                                      *)
(***************************************************************************)
NhTypeOK ==
    /\ hierarchy \in {"list", "read", "built"}
    /\ hpids \subseteq UPid
    /\ id_map \subseteq UserNs \X UserNs
    /\ tree \subseteq Populated(UserNs \X UserNs)

\* An edge leads to the parent that its namespace has still.
EdgesAreParents ==
    recycled = {} => \A a, b \in UserNs : <<a, b>> \in id_map => b \in seen /\ a = ns_parent[b]

\* The edges above a process that was there all along are known once it was read.
Collected ==
    hierarchy = "read" =>
        \A p \in UPid : Steady(p) /\ p \notin hpids =>
            \A n \in Above(userns[p]) : <<ns_parent[n], n>> \in id_map

NhInv == NhTypeOK /\ EdgesAreParents /\ Collected /\ HierarchyIsFaithful

LEMMA NhInvInit == NhInit => NhInv
BY DEF NhInit, NhInv, NhTypeOK, EdgesAreParents, Collected, HierarchyIsFaithful

LEMMA NhWorldStep ==
    ASSUME UnsInv, NhInv, UnsNext, UNCHANGED nhVars
    PROVE  NhInv'
<1> USE DEF NhInv, nhVars
<1>1. UnsInv' /\ Stays
  BY UnsStep
<1>2. UnsTypeOK /\ UnsTypeOK' /\ \A m \in Live : ns_parent'[m] = ns_parent[m]
  BY <1>1 DEF UnsInv, Stays
<1>3. EdgesAreParents'
  BY <1>1 DEF EdgesAreParents, Stays
<1>4. ASSUME NEW p \in UPid, Steady(p)'
      PROVE  /\ Steady(p) /\ userns[p] \in Live /\ userns'[p] = userns[p]
             /\ Above(userns[p]) \subseteq Live /\ Above(userns[p])' = Above(userns[p])
  <2>1. Steady(p) /\ userns'[p] = userns[p]
    BY <1>1, <1>4 DEF Stays
  <2>2. userns[p] \in Live
    BY <1>2, <2>1, LiveIs DEF Steady
  <2>3. PICK n \in Live : n = userns[p]
    BY <2>2
  <2>4. Above(n) \subseteq Live /\ Above(n)' = Above(n)
    BY <1>2, AboveIsLive, SameAbove
  <2>5. QED
    BY <2>1, <2>2, <2>3, <2>4 DEF Above
<1>5. Collected'
  BY <1>2, <1>4 DEF Collected
<1>6. HierarchyIsFaithful'
  <2> SUFFICES ASSUME hierarchy = "built", recycled' = {}, NEW p \in UPid, Steady(p)',
                      NEW n \in Above(userns[p])'
               PROVE  /\ Cardinality({path \in tree : Last(path) = n}) = 1
                      /\ \A path \in tree : Last(path) = n => ToSet(path) = Above(n)'
    BY DEF HierarchyIsFaithful
  <2>1. recycled = {}
    BY <1>1 DEF Stays
  <2>2. Steady(p) /\ n \in Above(userns[p]) /\ n \in Live
    BY <1>4
  <2>3. Above(n)' = Above(n)
    BY <1>2, <2>2, SameAbove
  <2>4. QED
    BY <2>1, <2>2, <2>3 DEF HierarchyIsFaithful
<1>7. QED
  BY <1>3, <1>5, <1>6 DEF NhTypeOK

LEMMA NhNextStep ==
    ASSUME UnsInv, NhInv, NhNext, UNCHANGED unsVars
    PROVE  NhInv'
<1> USE DEF NhInv, unsVars
<1>1. \A p : Steady(p)' <=> Steady(p)
  BY DEF Steady, Runs
<1>2. \A n : Above(n)' = Above(n)
  BY DEF Above
<1>3. UnsTypeOK /\ ns_parent \in [UserNs -> UserNs]
  BY DEF UnsInv, UnsTypeOK
<1>4. ASSUME NEW p \in UPid, Runs(p)
      PROVE  userns[p] \in UserNs /\ Above(userns[p]) \subseteq Live
  BY <1>3, <1>4, LiveIs, AboveIsLive
<1>5. CASE ListAll
  <2>1. Collected'
    BY <1>1, <1>5 DEF ListAll, Collected, Steady
  <2>2. HierarchyIsFaithful'
    BY <1>5 DEF ListAll, HierarchyIsFaithful
  <2>3. QED
    BY <1>5, <2>1, <2>2 DEF ListAll, NhTypeOK, EdgesAreParents
<1>6. ASSUME NEW p \in UPid, ReadParents(p) PROVE NhInv'
  <2>1. \A e : e \in id_map' <=> e \in id_map \/ (Runs(p) /\ e \in ns_get_parent_ns(p))
    BY <1>6 DEF ReadParents
  <2>2. \A e : e \in ns_get_parent_ns(p) <=> \E n \in Above(userns[p]) : e = <<ns_parent[n], n>>
    BY DEF ns_get_parent_ns
  <2>3. Live \subseteq UserNs /\ Live \subseteq seen
    BY <1>3, LiveIs DEF UnsInv
  <2>4. id_map' \subseteq UserNs \X UserNs
    BY <1>3, <1>4, <2>1, <2>2, <2>3 DEF NhTypeOK
  <2>5. EdgesAreParents'
    <3> SUFFICES ASSUME recycled = {}, NEW a \in UserNs, NEW b \in UserNs, <<a, b>> \in id_map'
                 PROVE  b \in seen /\ a = ns_parent[b]
      BY DEF EdgesAreParents
    <3>1. CASE <<a, b>> \in id_map
      BY <3>1 DEF EdgesAreParents
    <3>2. CASE Runs(p) /\ <<a, b>> \in ns_get_parent_ns(p)
      BY <1>4, <2>2, <2>3, <3>2
    <3>3. QED
      BY <2>1, <3>1, <3>2
  <2>6. Collected'
    <3> SUFFICES ASSUME NEW q \in UPid, Steady(q), q \notin hpids', NEW n \in Above(userns[q])
                 PROVE  <<ns_parent[n], n>> \in id_map'
      BY <1>1, <1>2 DEF Collected
    <3>1. CASE q = p
      BY <2>1, <2>2, <3>1 DEF Steady
    <3>2. CASE q # p
      BY <1>6, <2>1, <3>2 DEF ReadParents, Collected
    <3>3. QED
      BY <3>1, <3>2
  <2>7. HierarchyIsFaithful'
    BY <1>6 DEF ReadParents, HierarchyIsFaithful
  <2>8. QED
    BY <1>6, <2>4, <2>5, <2>6, <2>7 DEF ReadParents, NhTypeOK
<1>7. CASE Populate
  <2>1. tree' \subseteq Populated(UserNs \X UserNs)
    <3>1. id_map \subseteq UserNs \X UserNs
      BY DEF NhTypeOK
    <3>2. QED
      BY <1>7, <3>1 DEF Populate, Populated
  <2>2. HierarchyIsFaithful'
    <3> SUFFICES ASSUME recycled = {}, NEW p \in UPid, Steady(p), NEW n \in Above(userns[p])
                 PROVE  /\ Cardinality({path \in tree' : Last(path) = n}) = 1
                        /\ \A path \in tree' : Last(path) = n => ToSet(path) = Above(n)
      BY <1>1, <1>2 DEF HierarchyIsFaithful
    <3>1. userns[p] \in UserNs /\ Above(userns[p]) \subseteq Live
      BY <1>4 DEF Steady
    <3>2. \A a, b \in UserNs : <<a, b>> \in id_map => a = ns_parent[b]
      BY DEF EdgesAreParents
    <3>3. \A m \in Above(userns[p]) : <<ns_parent[m], m>> \in id_map
      BY <1>7 DEF Populate, Collected
    <3>4. \A m \in Above(userns[p]) : InitNs \in Above(m)
      BY <3>1 DEF UnsInv
    <3>5. ns_parent[InitNs] = InitNs
      BY DEF UnsInv
    <3>6. tree' = Populated(id_map)
      BY <1>7 DEF Populate
    <3>7. PICK s \in UserNs : s = userns[p]
      BY <3>1
    <3>8. \A m \in Lineage(ns_parent, {s}) :
              /\ InitNs \in Lineage(ns_parent, {m})
              /\ <<ns_parent[m], m>> \in id_map
      BY <3>3, <3>4, <3>7 DEF Above
    <3>9. \A m \in Lineage(ns_parent, {s}) :
              /\ Cardinality({path \in Populated(id_map) : Last(path) = m}) = 1
              /\ \A path \in Populated(id_map) : Last(path) = m => ToSet(path) = Lineage(ns_parent, {m})
      BY <1>3, <3>2, <3>5, <3>8, OncePopulated
    <3>10. n \in Lineage(ns_parent, {s})
      BY <3>7 DEF Above
    <3>11. QED
      BY <3>6, <3>9, <3>10 DEF Above
  <2>3. QED
    BY <1>7, <2>1, <2>2 DEF Populate, NhTypeOK, EdgesAreParents, Collected
<1>8. QED
  BY <1>5, <1>6, <1>7 DEF NhNext

(***************************************************************************)
(* The collectors one after the other.                                     *)
(***************************************************************************)
InOrder ==
    /\ unique # "start" => cg = "done"
    /\ cg # "cgroup" => hierarchy = "built"

CoInv == UnsInv /\ NhInv /\ UmInv /\ CgInv /\ InOrder

LEMMA CoInvInit == CoInit => CoInv
BY UnsInvInit, NhInvInit, UmInvInit, CgInvInit
DEF CoInit, CoInv, InOrder, UmInit, CgInit

\* Each part sees the steps of its own collector, those of the world it reads,
\* and otherwise nothing.
LEMMA CoInvNext == CoInv /\ [CoNext]_coVars => CoInv'
<1> SUFFICES ASSUME CoInv, [CoNext]_coVars PROVE CoInv'
  OBVIOUS
<1> USE DEF CoInv
<1>1. UNCHANGED unsVars => UnsInv'
  BY DEF unsVars, UnsInv, UnsTypeOK, Live, Runs, Above
<1>2. UNCHANGED <<unsVars, nhVars>> => NhInv'
  BY DEF unsVars, nhVars, NhInv, NhTypeOK, EdgesAreParents, Collected, HierarchyIsFaithful,
         Steady, Runs, Above
<1>3. UNCHANGED <<unsVars, umVars>> => UmInv'
  BY DEF unsVars, umVars, UmInv, UmTypeOK, Compared, IdRead, Overlapping, Settled, Shared,
         LeastUPid, Steady, Runs
<1>4. UNCHANGED <<cgWorldVars, cgVars>> => CgInv'
  <2> SUFFICES ASSUME UNCHANGED <<cgWorldVars, cgVars>> PROVE CgInv'
    OBVIOUS
  <2> USE DEF cgWorldVars, cgVars, CgInv
  <2>1. Chain' = Chain
    BY DEF Chain
  <2>2. CgTypeOK' /\ CgOrder'
    BY DEF CgTypeOK, CgOrder
  <2>3. Climb'
    BY <2>1 DEF Climb, PassedBy
  <2>4. \A r \in Resource : AnswerFor(r)'
    BY <2>1 DEF AnswerFor, Limited
  <2>5. QED
    BY <2>2, <2>3, <2>4
<1>5. CASE UNCHANGED coVars
  BY <1>1, <1>2, <1>3, <1>4, <1>5 DEF coVars, InOrder, umVars, cgVars, nhVars
<1>6. CASE CallHierarchy /\ UNCHANGED <<unsVars, cgWorldVars>>
  <2>1. NhInv'
    BY <1>6, NhNextStep DEF CallHierarchy
  <2>2. InOrder'
    BY <1>6 DEF CallHierarchy, NhNext, ListAll, ReadParents, Populate, InOrder, umVars, cgVars
  <2>3. QED
    BY <1>1, <1>3, <1>4, <1>6, <2>1, <2>2 DEF CallHierarchy
<1>7. CASE CallCgroup /\ UNCHANGED <<unsVars, cgWorldVars>>
  <2>1. CgInv'
    BY <1>7, CgNextStep DEF CallCgroup
  <2>2. InOrder'
    BY <1>7 DEF CallCgroup, CgNext, GetCgroup, GetControllers, ClimbStep, ReadFails, Found, Resource,
                InOrder, umVars, nhVars
  <2>3. QED
    BY <1>1, <1>2, <1>3, <1>7, <2>1, <2>2 DEF CallCgroup
<1>8. CASE CallMapping /\ UNCHANGED <<unsVars, cgWorldVars>>
  <2>1. UmInv'
    BY <1>8, UmNextStep DEF CallMapping
  <2>2. InOrder'
    BY <1>8 DEF CallMapping, InOrder, nhVars, cgVars
  <2>3. QED
    BY <1>1, <1>2, <1>4, <1>8, <2>1, <2>2 DEF CallMapping
<1>9. CASE UnsNext /\ UNCHANGED <<cgWorldVars, nhVars, umVars, cgVars>>
  <2>1. UnsInv' /\ NhInv' /\ UmInv'
    BY <1>9, UnsStep, NhWorldStep, UmWorldStep
  <2>2. InOrder'
    BY <1>9 DEF InOrder, nhVars, umVars, cgVars
  <2>3. QED
    BY <1>4, <1>9, <2>1, <2>2
<1>10. CASE CgWorldNext /\ UNCHANGED <<unsVars, nhVars, umVars, cgVars>>
  <2>1. CgInv'
    BY <1>10, CgWorldStep
  <2>2. InOrder'
    BY <1>10 DEF InOrder, nhVars, umVars, cgVars
  <2>3. QED
    BY <1>1, <1>2, <1>3, <1>10, <2>1, <2>2
<1>11. QED
  BY <1>5, <1>6, <1>7, <1>8, <1>9, <1>10 DEF CoNext, Checkc, World

\* What the three collectors know of a system that changes under their hands is
\* preserved by each step of theirs and of the system.
THEOREM CollectorsInvariant == CoSpec => []CoInv
BY CoInvInit, CoInvNext, PTL DEF CoSpec

\* The variables of the collectors keep their types, and main() calls them in
\* order.
THEOREM CollectorsTyped == CoSpec => []CoTypeOK
<1>1. CoInv => CoTypeOK
  BY DEF CoInv, CoTypeOK, UnsInv, NhInv, NhTypeOK, UmInv, UmTypeOK, CgInv, CgOrder, InOrder
<1>2. QED
  BY <1>1, CollectorsInvariant, PTL

\* create_hierarchy() puts a namespace that a process was in all along into the
\* tree once, below its ancestors.
THEOREM HierarchyIsThatOfTheSystem == CoSpec => []HierarchyIsFaithful
<1>1. CoInv => HierarchyIsFaithful
  BY DEF CoInv, NhInv
<1>2. QED
  BY <1>1, CollectorsInvariant, PTL

\* unique_mapping() answers for the identifiers: none is shared if it says true,
\* one is if it says false.
THEOREM UniqueIsDisjoint == CoSpec => []UniqueMeansDisjoint
<1>1. CoInv => UniqueMeansDisjoint
  <2> SUFFICES ASSUME CoInv PROVE UniqueMeansDisjoint
    OBVIOUS
  <2>1. ASSUME unique = "true", NEW p \in UPid, Steady(p),
               userns[p] \notin remapped \cup {userns[Cont], InitNs}, ns_parent[userns[p]] = InitNs
        PROVE  ~Shared(userns[p])
    <3>1. upids = {} /\ p # Cont
      BY <2>1 DEF CoInv, UmInv, UmTypeOK
    <3>2. Settled(userns[p])
      BY <2>1, <3>1 DEF CoInv, UmInv, Compared
    <3>3. QED
      BY <2>1, <3>2 DEF Settled
  <2>2. Overlapping
    BY DEF CoInv, UmInv
  <2>3. QED
    BY <2>1, <2>2 DEF UniqueMeansDisjoint, Overlapping, Shared
<1>2. QED
  BY <1>1, CollectorsInvariant, PTL

\* cgroup_config() reports a limit only where there is one, and misses none in
\* the cgroups it has reason to look at.
THEOREM LimitsAreThoseInForce == CoSpec => []LimitsAreEffective
<1>1. CoInv => LimitsAreEffective
  <2> SUFFICES ASSUME CgInv, cg = "done", ~cg_moved,  NEW r \in Resource
               PROVE  /\ interface_files[r] = "limit" =>
                             Limited(r) # {} \/ \E g \in Chain : <<r, g>> \in relimited
                      /\ \A g \in Limited(r) :
                             /\ <<r, g>> \notin relimited
                             /\ r = "cpu" => \A h \in Chain \ Lineage(CgroupParent, {g}) :
                                                 limit["cpu"][h] = "absent"
                             => interface_files[r] = "limit"
    BY DEF CoInv, LimitsAreEffective
  <2>1. AnswerFor(r) /\ interface_files[r] # "unread"
    BY DEF CgInv, CgOrder
  <2>2. \A g \in Limited(r) : Lineage(CgroupParent, {g}) = Upper(g)
    BY ChainIs, UpperIs DEF CgInv, CgTypeOK, Limited
  <2>3. QED
    BY <2>1, <2>2 DEF AnswerFor
<1>2. QED
  BY <1>1, CollectorsInvariant, PTL
=============================================================================
