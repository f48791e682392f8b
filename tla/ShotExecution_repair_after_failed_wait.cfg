SPECIFICATION Spec
CONSTANTS
    None = None
    Runners = {r1}
    Supervisors = {s1}
    Cancellers = {}
    Manual = FALSE
    Faults = {"device"}
    MaxFaults = 1
    MaxWaits = 1
    MaxRuns = 2
    MaxOthers = 1
INVARIANTS
    LeaseBeforeExpensiveWork
CHECK_DEADLOCK FALSE
