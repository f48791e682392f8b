SPECIFICATION FairSpec
CONSTANTS
    None = None
    MaxJobs = 2
    Artifacts = 2
    Capacity = 2
    MaxEntries = 2
    MaxDeadlines = 1
    MaxFaults = 1
INVARIANTS
    BytesBeforeChain
    PublicIsBacked
    OneSponsoredUpload
PROPERTY
    JobsSettle
CHECK_DEADLOCK FALSE
