SPECIFICATION Spec
CONSTANTS
    m1 = m1
    m2 = m2
    Ids = {1, 2}
    Modems = {m1, m2}
    Wishes <- Asked
    NoModem = NoModem
    NoWish = NoWish
    Seatings <- Seated
    SavedWishes <- Files
    SavedPapers <- Papers
    MaxEvents = 2
INVARIANTS
    PortsApart
PROPERTIES
    WishesCarriedOut
