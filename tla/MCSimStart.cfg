SPECIFICATION Spec
CONSTANTS
    r1 = r1
    r2 = r2
    s1 = s1
    s2 = s2
    Readers = {r1, r2}
    Sims = {s1, s2}
    NoReader = NoReader
    NoSim = NoSim
    Listings <- TwoListings
    Seatings <- TwoSeatings
    SavedPins = {"right", "wrong"}
    MaxEvents = 2
PROPERTIES
    NeverStartedOnAnother
CHECK_DEADLOCK FALSE
