SPECIFICATION Spec
CONSTANTS
    Character = {"a", "e-acute", "kanji", " ", "newline"}
    Width <- MCWidth
    Space = {" ", "newline"}
    Blank = " "
    LineEnd = "newline"
    Limit <- MCLimit
    DefaultLimit = 2
    MaxLength = 5
INVARIANTS
    WithinLimit
    ExactOnBytes
    OneLine
    DetailsEndLines
CHECK_DEADLOCK FALSE
