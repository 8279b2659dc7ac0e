SPECIFICATION InspectedSpec
CONSTANTS
    a = a
    b = b
    c1 = c1
    c2 = c2
    Call = {c1, c2}
    Code <- MCForms
    Source <- MCSource
    Blank = ""
    Undefined = "undefined"
    TrimSpace <- MCTrimSpace
    Input <- MCInput
    EmptyInput = b
    NilInput = NilInput
    Value <- MCValue
    Null = Null
    Preview = Preview
    Kept = Kept
    Env <- MCEnv
    InitEnv = NilInput
    Exec <- MCExec
    Strict = TRUE
    MaxParallel = 2
    Limits = {1}
INVARIANTS
    TypeOK
    RowPointsToItsCell
    CellCorrelatedOnce
    AnswerAgreesWithRecord
    StrictReporting
    RecordInv
    InputFromOverlap
    InspectTypeOK
    ListedCellsFound
PROPERTIES
    EveryCallAnswered
    ServesAtomically
