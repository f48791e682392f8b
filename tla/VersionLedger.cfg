SPECIFICATION FairSpec
CONSTANTS
    None = None
    Recorders = {r1, r2}
    Outsiders = {o1}
    Contents = {x, y}
    MaxVersions = 2
    MaxCrashes = 1
INVARIANTS
    SealedIsSigned
    CompleteStays
PROPERTIES
    HeadCatchesUp
