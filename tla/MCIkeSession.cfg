SPECIFICATION Spec
CONSTANTS
    Families = 1
    AutoModes = {TRUE}
    Retransmits = 2
    ProbeLimit = 1
    CacheLimit = 2
    MaxGen = 3
    MaxProposals = 3
    MaxIds = 1
    MaxAsks = 1
INVARIANTS
    SessionTypeOK
    DataplaneAgrees
    SameIdSameBytes
PROPERTIES
    RekeyEnds
    KeepsKeys
