----------------------------- MODULE MCCollectors -----------------------------
(* Values of the constants of Collectors for TLC: four PIDs in up to three   *)
(* user namespaces, identifiers of three bits, and a container two levels    *)
(* below the root of the cgroups.                                            *)
EXTENDS Collectors, TLC

CONSTANTS n1, n2

MCUserNs == {"init", n1, n2}
MCSymmetry == Permutations({n1, n2})
MCInitMap == {[parent |-> 0, range |-> 7]}

\* Two ranges that touch, and one that reaches into both.
MCIdMaps == {{[parent |-> 1, range |-> 2]}, {[parent |-> 3, range |-> 4]},
             {[parent |-> 2, range |-> 2]}}

MCCgroup == {"slice", "scope", "scope2"}
MCCgroupParent == "slice" :> "root" @@ "scope" :> "slice" @@ "scope2" :> "slice"

\* What the files of the slice and of the scopes say; absent where the
\* controller is not enabled.
Files(slice, scope) == "slice" :> slice @@ "scope" :> scope @@ "scope2" :> scope
MCLimits ==
    {"cpu" :> Files("limit", "absent") @@ "memory" :> Files("limit", "max"),
     "cpu" :> Files("limit", "max") @@ "memory" :> Files("max", "absent")}
=============================================================================
