SPECIFICATION Spec
CONSTANTS
    MaxPrompts = 3
    MaxBlocks = 2
    MaxTime = 1
    MaxUnsaved = 1
INVARIANTS
    TypeOK
    FailedPromptsForgotten
    OneConversation
    FinalTurnsChain
    ContinuesFromRecord
PROPERTY SnapshotsOnlyExtended
