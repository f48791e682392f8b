SPECIFICATION FairSpec
CONSTANTS
    None = None
    Receipts = {rc}
    Reasons = {why, unreconciled}
    Unreconciled = unreconciled
    MonitorErrors = FALSE
    Commands = {c1}
    Overlap = FALSE
    MaxCrashes = 1
    MaxVersions = 1
PROPERTY
    EveryCommandSettles
CHECK_DEADLOCK FALSE
