CONSTANTS
    None = None
    d1 = d1
    i1 = i1
    i2 = i2
    Deals = {d1}
    Insurers = {i1, i2}
    Calls = {1, 2, 3, 4}
    MaxInFlight = 2
    MaxCrashes = 1
    Loads <- PairsAndSerial
SPECIFICATION MCSpec
CHECK_DEADLOCK FALSE
INVARIANTS
    OneFirmOrder
    DealShowsItsRequest
    SerialMadeOnce
    SerialOrderIsFollowed
PROPERTIES
    SerialAcceptanceKept
