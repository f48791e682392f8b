SPECIFICATION Spec
CONSTANTS
    None = None
    Runners = {r1, r2}
    Supervisors = {s1}
    Cancellers = {k1}
    Manual = TRUE
    Faults = {"io", "ledger", "verify"}
    MaxFaults = 1
    MaxWaits = 0
    MaxRuns = 1
    MaxOthers = 0
SYMMETRY Symmetry
VIEW View
INVARIANTS
    OneProcessTree
    CompletedMeansAccepted
CHECK_DEADLOCK FALSE
