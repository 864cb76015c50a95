SPECIFICATION Spec
CONSTANTS
    Nodes = {n1, n2}
    NoNode = NoNode
    NoLine = NoLine
    Lines = {l1, l2}
    Carrying = {n1}
    MaxAttempts = 1
    MaxRequests = 2
    MaxDisturbances = 0
    StrikesPerNode = 1
    FailuresBeforeReport = 2
    MaxFailures = 2
SYMMETRY LineSymmetry
INVARIANTS
    TypeOK
PROPERTIES
    LaterRequestsSpareShownLines
