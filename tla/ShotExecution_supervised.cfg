SPECIFICATION FairSpec
CONSTANTS
    None = None
    Runners = {r1, r2}
    Supervisors = {s1, s2}
    Cancellers = {}
    Manual = FALSE
    Faults = {"runner", "service", "mac", "device"}
    MaxFaults = 2
    MaxWaits = 1
    MaxRuns = 3
    MaxOthers = 1
INVARIANTS
    TypeOK
    LeaseCoversExpensiveWork
    RecordsAgree
    FinalMeansQuiet
PROPERTIES
    FulfilsPromise
CHECK_DEADLOCK FALSE
