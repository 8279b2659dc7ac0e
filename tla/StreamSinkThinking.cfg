SPECIFICATION Spec
CONSTANTS
    p1 = p1
    p2 = p2
    Publisher = {p1}
    ShowToolArgs = FALSE
    ShowToolResults = FALSE
    Unreliable = FALSE
    MaxEvents = 3
INVARIANT ThinkingUnderItsLabel
