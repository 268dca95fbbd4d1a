SPECIFICATION HostSpec
CONSTANTS
    Pid <- MCPid
    Kthread <- MCKthread
    Garbled = {4}
    Self = 1
    Ns <- MCNs
    HostNs = "host"
    Churn = {"fork", "exit", "reap", "move", "reuse"}
    MaxEvents = 3
    PidCfgs <- MCPidCfgs
    HostProcfs <- MCHostProcfs
    SetnsFails = {"rejoin", "join", "restore"}
INVARIANTS
    HostTypeOK
    ProcReadAtHome
    LeavesNoTrace
    SearchesItsNamespace
    EveryNamespaceSearched
PROPERTIES
    ViewIsCensus
CHECK_DEADLOCK FALSE
