----------------------------- MODULE NsHierarchy -----------------------------
(***************************************************************************)
(* Hierarchy::create_hierarchy() of src/c_config/ns.rs: from every process *)
(* that is left of those that /proc listed, climb from its namespace to    *)
(* the initial one, collect the edges, and build a tree from their list.   *)
(* The descriptors of one climb keep its namespaces alive, so a climb is   *)
(* one step; between two climbs anything may happen.                       *)
(***************************************************************************)
EXTENDS UserNamespaces, SequencesExt

VARIABLES
    hierarchy,      \* where create_hierarchy is
    hpids,          \* the processes it has yet to read
    id_map,         \* the edges: parent and child
    tree            \* the tree: for each node, the path to it from the root

nhVars == <<hierarchy, hpids, id_map, tree>>

NhInit ==
    /\ hierarchy = "list"
    /\ hpids = {}
    /\ id_map = {}
    /\ tree = {}

LeastPid(S, p) == p \in S /\ \A q \in S : p <= q

\* A process that exits while readdir() goes on is like one that exits after.
ListAll ==
    /\ hierarchy = "list"
    /\ hpids' = {p \in UPid : Runs(p)}
    /\ hierarchy' = "read"
    /\ UNCHANGED <<id_map, tree>>

\* Mutant of ns_get_parent_ns: only the parent, not the parents above it.
ns_get_parent_ns_One(p) == {<<ns_parent[n], n>> : n \in {userns[p], InitNs}}

\* NS_GET_PARENT until EPERM, which stands for the identity of the initial one.
ns_get_parent_ns(p) == {<<ns_parent[n], n>> : n \in Above(userns[p])}

\* A process that has exited is left out.
ReadParents(p) ==
    /\ hierarchy = "read"
    /\ LeastPid(hpids, p)
    /\ hpids' = hpids \ {p}
    /\ id_map' = IF Runs(p) THEN id_map \cup ns_get_parent_ns(p) ELSE id_map
    /\ UNCHANGED <<hierarchy, tree>>

\* populate() gives a node the children that the edges give it, but for those
\* that are the node itself or one above it.  The root is an identity.
Populated(edges) ==
    {path \in BoundedSeq(UserNs, Cardinality(UserNs)) :
        /\ path # <<>> /\ <<path[1], path[1]>> \in edges
        /\ IsInjective(path)
        /\ \A i \in 1 .. Len(path) - 1 : <<path[i], path[i + 1]>> \in edges}

Populate ==
    /\ hierarchy = "read"
    /\ hpids = {}
    /\ tree' = Populated(id_map)
    /\ id_map' = {}
    /\ hierarchy' = "built"
    /\ UNCHANGED hpids

NhNext == ListAll \/ Populate \/ \E p \in UPid : ReadParents(p)

\* The tree is that of the system, although it was collected process by
\* process while namespaces came and went: a namespace that a process was in
\* all along, and each above it, also one without a process of its own, is in
\* the tree once, below its ancestors, unless an id was given away twice.
HierarchyIsFaithful ==
    hierarchy = "built" /\ recycled = {} =>
        \A p \in UPid : Steady(p) =>
            \A n \in Above(userns[p]) :
                /\ Cardinality({path \in tree : Last(path) = n}) = 1
                /\ \A path \in tree : Last(path) = n => ToSet(path) = Above(n)
=============================================================================
