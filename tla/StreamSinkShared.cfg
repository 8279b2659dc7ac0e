SPECIFICATION FairSpec
CONSTANTS
    p1 = p1
    p2 = p2
    Publisher = {p1, p2}
    ShowToolArgs = TRUE
    ShowToolResults = TRUE
    Unreliable = TRUE
    MaxEvents = 3
INVARIANTS
    TypeOK
    EventsWhole
    TextAfterItsLabel
    LabelsOnce
    NoticesStartLines
PROPERTIES
    PublishReturns
    PrintsWholeEvents
