SPECIFICATION LtSpec
CONSTANTS
    Ns <- MCNs
    ContainerNs = {"own", "side"}
    Own = "own"
    Path <- MCPath
    Dir <- MCDir
    Unlisted = {"kernel"}
    Tables <- MCTables
    MaxRemounts = 1
    HostView = {"host"}
    RefView = {"ref"}
    RootPaths = {"/b"}
    StaleDirs = {"hroot"}
INVARIANTS
    LtTypeOK
    FlagsAccounted
    LeakIsReported
    LeakIsReal
CHECK_DEADLOCK FALSE
