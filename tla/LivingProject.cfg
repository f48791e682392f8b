SPECIFICATION FairSpec
CONSTANTS
    None = None
    Evolutions = {e1}
    Tasks = {t1, t2}
    MaxSubmits = 0
    MaxTries = 1
    MaxPasses = 1
    MaxAdoptions = 1
    MaxCrashes = 1
INVARIANTS
    HarnessRunsOnce
    StatusIsEarned
PROPERTIES
    LeavesQueue
CHECK_DEADLOCK FALSE
