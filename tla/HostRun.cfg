SPECIFICATION HrSpec
CONSTANTS
    Pid <- MCPid
    TestInit = 2
    RefInit = 3
    MaxEvents = 2
INVARIANTS
    HrTypeOK
    FalseLeakOnlyByRace
    OneViewEach
    ReportListsScanned
CHECK_DEADLOCK FALSE
