CONSTANTS
    None = None
    o1 = o1
    u1 = u1
    u2 = u2
    Users = {o1, u1, u2}
    Owner = o1
    Staff = {o1, u1}
    Seats = 2
    Calls = {1, 2, 3}
    MaxInFlight = 2
    MaxCrashes = 1
    Loads <- PairsAndSerial
SPECIFICATION MCFairSpec
CHECK_DEADLOCK FALSE
INVARIANTS
    PaidIsCaptured
    SerialSeatsArePaid
    SerialSessionsEnd
PROPERTIES
    SerialSuspensionHolds
    AccessSettles
