SPECIFICATION SelectorSpec
CONSTANTS
    Nodes = {n1, n2}
    NoNode = NoNode
    NoLine = NoLine
    Lines = {l1}
    MaxAttempts = 2
    MaxRequests = 1
    MaxDisturbances = 3
INVARIANTS
    SelectorTypeOK
PROPERTIES
    RelaunchKeepsTheExit
    FailedNodeAvoided
    LockHolds
    RequestSettles
