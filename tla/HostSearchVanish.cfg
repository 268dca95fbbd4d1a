SPECIFICATION HostSpec
CONSTANTS
    Pid <- MCPid
    Kthread <- MCKthread
    Garbled = {}
    Self = 1
    Ns <- MCNs
    HostNs = "host"
    Churn = {"exit", "reap"}
    MaxEvents = 2
    PidCfgs <- MCPidCfgs
    HostProcfs <- MCHostProcfs
    SetnsFails = {}
INVARIANT VanishingIsSkipped
CHECK_DEADLOCK FALSE
