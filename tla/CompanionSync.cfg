SPECIFICATION FairSpec
CHECK_DEADLOCK FALSE
CONSTANTS
    None = None
    Commands = {c1}
    References = {c1}
    Evolves = {c1}
    Changes = {x1}
    Sessions = {s1}
    Pollers = {"loop", "studio"}
    Window = 1
    MaxSends = 2
    MaxBoxes = 2
    MaxRevokes = 1
    MaxFaults = 1
INVARIANTS
    AckedIsAnswered
    ReceiptsAreTrue
    ReferencesOutliveUse
    OneGrantPerSession
PROPERTIES
    CommandsAreAnswered
    ChangesReachPhone
