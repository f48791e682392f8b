SPECIFICATION FairSpec
CONSTANTS
    None = None
    Runners = {r1}
    Supervisors = {s1}
    Cancellers = {}
    Manual = FALSE
    Faults = {"runner"}
    MaxFaults = 1
    MaxWaits = 0
    MaxRuns = 2
    MaxOthers = 0
PROPERTIES
    FinalEventArrives
CHECK_DEADLOCK FALSE
