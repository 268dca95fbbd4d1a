SPECIFICATION CoSpec
CONSTANTS
    UPid = {1, 2, 3, 4}
    Cont = 2
    n1 = n1
    n2 = n2
    UserNs <- MCUserNs
    InitNs = "init"
    InitMap <- MCInitMap
    IdMaps <- MCIdMaps
    MaxUEvents = 2
    W = 3
    Cgroup <- MCCgroup
    RootCgroup = "root"
    CgroupParent <- MCCgroupParent
    Limits <- MCLimits
    MaxCgEvents = 1
INVARIANTS
    CoTypeOK
    HierarchyIsFaithful
    UniqueMeansDisjoint
    LimitsAreEffective
SYMMETRY MCSymmetry
CHECK_DEADLOCK FALSE
