SPECIFICATION JournalSpec
CONSTANTS
    None = None
    Receipts = {rc1, rc2}
    Reasons = {why}
    Commands = {c1, c2}
    Requests = {q1, q2}
    Callers = {p1, p2}
    MAXIMUM_COMMANDS = 2
    MaxCrashes = 1
SYMMETRY Symmetry
INVARIANTS
    AdmittedRequestIsPublished
    OutcomeIsExplained
PROPERTY
    PublishedIsStable
