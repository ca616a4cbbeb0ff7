CONSTANTS
    None = None
    p1 = p1
    p2 = p2
    Policies = {p1, p2}
    Terms <- TwoTerms
    Calls = {1, 2, 3, 4}
    Amounts = {1, 2}
    Deltas <- OneEachWay
    MaxInFlight = 2
    MaxCrashes = 1
    Loads <- Alone
SPECIFICATION MCSpec
CHECK_DEADLOCK FALSE
INVARIANTS
    DirectHoldsNoTrust
