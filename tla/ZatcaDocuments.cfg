CONSTANTS
    None = None
    Approvals = {1, 2, 3}
    Kinds <- PolicyKinds
    Workers = {w1, w2}
    DrainLimit = 1
    Answers = {"accepted", "refused"}
    MaxInFlight = 2
    MaxFaults = 1
    Loads <- PairsAndSerial
SPECIFICATION MCFairSpec
INVARIANTS
    NumbersAreGapless
    PreviousIsOlder
    AcceptedOnce
    SerialChainIsUnbroken
PROPERTIES
    AllTransmitted
