SPECIFICATION Spec
CHECK_DEADLOCK FALSE
CONSTANTS
    None = None
    b1 = b1
    b2 = b2
    k1 = k1
    k2 = k2
    Accounts = {b1, b2}
    Keys = {k1, k2}
    Wallets = {w1}
    InitialKey <- MCInitialKey
    RecoveryDelay = 1
    MaxTime = 2
    MaxNonce <- MCMaxNonce
    Shots = {s1}
    Heads = {h1, h2}
    Deadlines = {2}
    Policies <- MCPolicies
    MinCommitAge = 1
    MaxCommitAge = 1
    MaxCheckpoints = 2
SYMMETRY Symmetry
INVARIANTS
    AlwaysGovernable
    PendingIsCurrent
    ClaimsAgree
PROPERTIES
    SignedOnce
