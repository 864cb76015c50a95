SPECIFICATION Spec
CONSTANTS
    Nodes = {n1, n2}
    NoNode = NoNode
    StrikesPerNode = 2
    FailuresBeforeReport = 3
    MaxFailures = 5
SYMMETRY NodeSymmetry
INVARIANTS
    TypeOK
    ReportedOnce
    GivenUpOncePerPin
    BackedOffOncePerOutage
    StruckOut
    StoppedOrSlow
