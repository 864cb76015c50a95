SPECIFICATION FairSpec
CONSTANTS
    Slots = {1, 2}
    Gens = {1, 2, 3, 4}
    MaxEvents = 1
INVARIANTS
    TypeOK
    RetryingHasAWorker
PROPERTIES
    CaptureSparesReplacement
    FaultIsRetried
    DisabledLineEndsStopped
