SPECIFICATION Spec
CONSTANTS
    Pid <- MCPid
    Kthread <- MCKthread
    Garbled = {}
    Self = 1
    Ns <- MCNs
    HostNs = "host"
    Churn = {"move"}
    MaxEvents = 1
    PidCfgs <- MCPidCfgs
INVARIANT UniqueIds
CHECK_DEADLOCK FALSE
