SPECIFICATION Spec
CONSTANTS
    None = None
    Receipts = {rc}
    Reasons = {why, unreconciled}
    Unreconciled = unreconciled
    MonitorErrors = TRUE
    Commands = {c1, c2}
    Overlap = TRUE
    MaxCrashes = 2
    MaxVersions = 2
SYMMETRY Symmetry
INVARIANTS
    OutcomesAgree
    LandsOnce
CHECK_DEADLOCK FALSE
