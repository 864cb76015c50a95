SPECIFICATION FairSpec
CONSTANTS
    r1 = r1
    r2 = r2
    s1 = s1
    s2 = s2
    Readers = {r1, r2}
    Sims = {s1, s2}
    NoReader = NoReader
    NoSim = NoSim
    Listings <- TwoListings
    Seatings <- TwoSeatings
    SavedPins = {"right"}
    MaxEvents = 2
INVARIANTS
    TryLeft
PROPERTIES
    VerifiedCardSpared
    RunningLineUnlocks
CHECK_DEADLOCK FALSE
