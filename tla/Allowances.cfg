CONSTANTS
    None = None
    Calls = {1, 2, 3, 4, 5}
    Sizes = {1, 2}
    Quotas = {1, 4}
    Operations = 2
    MaxInFlight = 3
    MaxDeaths = 1
    Loads <- AllLoads
SPECIFICATION MCSpec
CHECK_DEADLOCK FALSE
INVARIANTS
    WalletIsSound
    OverdraftIsBounded
    QuotaIsSound
