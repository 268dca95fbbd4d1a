SPECIFICATION Spec
CONSTANTS
    Pid <- MCPid
    Kthread <- MCKthread
    Garbled = {}
    Self = 1
    Ns <- MCNs
    HostNs = "host"
    Churn = {"fork", "exit", "reap", "move", "reuse"}
    MaxEvents = 3
    PidCfgs <- MCPidCfgs
INVARIANTS
    TypeOK
    OnePlace
    DuplicateOnlyByMove
    EntryIsOneNamespace
    Complete
CHECK_DEADLOCK FALSE
