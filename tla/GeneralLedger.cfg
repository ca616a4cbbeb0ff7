CONSTANTS
    None = None
    Clients = {x, y}
    BankAccounts = {b1}
    Calls = {1, 2, 3, 4, 5, 6}
    Kinds = {"JRV", "RCV"}
    Lines <- SomeLines
    Periods = {2026}
    Nets <- PlusOrMinus
    MaxInFlight = 2
    MaxCrashes = 1
    Loads <- PairsAndSerial
SPECIFICATION MCSpec
CHECK_DEADLOCK FALSE
INVARIANTS
    StatementsAgree
    PayrollIsVouched
    NumbersAreSound
    VouchersMatch
