SPECIFICATION Spec
CONSTANTS
    None = None
    Recorders = {r1}
    Outsiders = {}
    Contents = {x, y}
    MaxVersions = 2
    MaxCrashes = 1
INVARIANTS
    AttemptConsumesNothing
