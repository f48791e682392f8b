SPECIFICATION FairSpec
CONSTANTS
    None = None
    Receipts = {rc}
    Reasons = {why, unreconciled}
    Unreconciled = unreconciled
    MonitorErrors = FALSE
    Commands = {c1, c2}
    Overlap = FALSE
    MaxCrashes = 3
    MaxVersions = 2
INVARIANTS
    TypeOK
    CompletedIsOwn
    ExactBase
PROPERTY
    CommandSettles
CHECK_DEADLOCK FALSE
