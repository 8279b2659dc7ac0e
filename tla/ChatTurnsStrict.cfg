SPECIFICATION Spec
CONSTANTS
    MaxPrompts = 1
    MaxBlocks = 3
    MaxTime = 0
    MaxUnsaved = 1
INVARIANT StrictSnapshots
