CONSTANTS
    None = None
    Calls = {1, 2, 3, 4, 5, 6}
    Users = {u1, u2}
    Steps = {"s1", "s2"}
    Configs <- AnyConfigs
    MaxInFlight = 2
    MaxCrashes = 1
    Loads <- PairsAndSerial
SPECIFICATION MCSpec
SYMMETRY Interchangeable
CHECK_DEADLOCK FALSE
INVARIANTS
    NoGateSkipped
    IssuedWasPosted
    SerialPostedOnce
    SerialReapprovedAfterRevert
    SerialSegregationOfDuties
