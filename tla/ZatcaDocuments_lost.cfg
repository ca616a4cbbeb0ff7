CONSTANTS
    None = None
    Approvals = {1}
    Kinds <- RetailKinds
    Workers = {w1}
    DrainLimit = 2
    Answers = {"accepted"}
    MaxInFlight = 1
    MaxFaults = 1
    Loads <- Alone
SPECIFICATION MCFairSpec
PROPERTIES
    QueuedIsReported
