SPECIFICATION Spec
CONSTANTS
    Config <- MCDefaults
    MaxRuns = 1
INVARIANT TemporaryLogRemoved
