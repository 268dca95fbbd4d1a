SPECIFICATION Spec
CONSTANTS
    Configs <- MCConfigs
    NoReport = NoReport
INVARIANTS
    JudgementTypeOK
    EveryCapabilityJudged
    S1MeansIsolated
    S3MeansNoLeak
    HardeningNeverHurts
CHECK_DEADLOCK FALSE
