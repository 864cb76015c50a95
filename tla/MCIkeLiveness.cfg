SPECIFICATION Spec
CONSTANTS
    Families = 2
    AutoModes = {TRUE, FALSE}
    Retransmits = 2
    ProbeLimit = 2
    CacheLimit = 2
    MaxGen = 1
    MaxProposals = 1
    MaxIds = 1
    MaxAsks = 2
INVARIANTS
    HandledOnce
    UnshadowedUnlessCrossed
PROPERTIES
    DeadPeerNoticed
    AttachSettles
    FamilyChangesAfterSimAuth
