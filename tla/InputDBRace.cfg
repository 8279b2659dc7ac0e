SPECIFICATION Spec
CONSTANTS
    p1 = p1
    p2 = p2
    topic = topic
    Process = {p1, p2}
    Slug <- MCSlug
    Text = {p1, p2}
    Docs <- MCDocs
SYMMETRY MCSymmetry
INVARIANT AnswersComplete
