SPECIFICATION Spec
CONSTANTS
    Config <- MCConfig
    MaxRuns = 2
INVARIANTS
    TypeOK
    OnlySessionLeftOpen
    LogClosedFirst
    LeftoversExplained
PROPERTY UserFilesSurvive
