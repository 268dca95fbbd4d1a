SPECIFICATION MCSpec
CONSTANTS
    Pid <- MCPid
    Kthread = {}
    Garbled = {4}
    Self = 2
    Ns <- MCNs
    HostNs = "host"
    Churn = {"fork", "exit", "reap", "reuse"}
    MaxEvents = 6
    CInit = 3
INVARIANTS
    CpTypeOK
    OnlyContainerPids
    AllContainerPids
    NoPidTwice
PROPERTIES
    CountsContainer
CHECK_DEADLOCK FALSE
