SPECIFICATION PlSpec
CONSTANTS
    MaxRounds <- MCRounds
    MaxContainers = 2
INVARIANTS
    PlTypeOK
    ReportsMatch
    VerdictIsOfThisRun
PROPERTY ScriptEnds
CHECK_DEADLOCK FALSE
