SPECIFICATION FairSpec
CONSTANTS
    None = None
    MaxJobs = 2
    Artifacts = 2
    Capacity = 2
    MaxEntries = 1
    MaxDeadlines = 1
    MaxFaults = 1
PROPERTY
    JobsSettle
CHECK_DEADLOCK FALSE
