SPECIFICATION DpSpec
CONSTANTS
    Path = {"tty", "console", "other"}
    Node = {"tty", "other"}
    Target <- MCTarget
    NodeType <- MCNodeType
    Attributes <- MCAttributes
    CapSets <- MCCapSets
    RuleSet = {"none", "use", "default", "fuse", "block"}
    Rules <- MCRules
    Majors <- MCMajors
    Minors <- MCMinors
    MaxMeddling = 1
INVARIANTS
    DpTypeOK
    AccessObtainable
    MknodVerdict
CHECK_DEADLOCK FALSE
