SPECIFICATION FairSpec
CONSTANTS
    None = None
    a1 = a1
    a2 = a2
    a3 = a3
    b2 = b2
    c3 = c3
    n1 = n1
    n2 = n2
    Nodes = {n1, n2}
    Peers <- MCPeers
    Actions = {a1, a2, a3, c3, b2}
    Parent <- MCParent
    Ancestors <- MCAncestors
    ShotOf <- MCShotOf
    Sequence <- MCSequence
    Rank <- MCRank
    Unordered = {}
    Unauthorized = {a3}
    Public = {a1, a2, a3, c3, b2}
    ShotLimit = 3
    MaxFaults = 1
INVARIANTS
    ClassifiedAsRebuilt
    AcknowledgedStays
PROPERTIES
    VerdictsAreFinal
    PeersCatchUp
