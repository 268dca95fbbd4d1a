SPECIFICATION PlSpec
CONSTANTS
    MaxRounds <- MCRounds
    MaxContainers = 2
INVARIANT ReturnCodeReported
CHECK_DEADLOCK FALSE
