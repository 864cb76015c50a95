SPECIFICATION Spec
CONSTANTS
    Requests = {r1, r2}
    Outgoing = {x1}
    Incoming = {}
    SameText = {r1, r2, x1}
    MaxEpoch = 1
    MaxFaults = 1
    MaxLog = 2
INVARIANTS MessagingTypeOK AiredAtMostOnce OwnNotImported MarksNameTheirOwn FailedNeverAired PendingHasSender
PROPERTIES VerdictsStand
CHECK_DEADLOCK FALSE
SYMMETRY SameSends
