CONSTANTS
    None = None
    Notes = {n1}
    Gross <- OneNote
    Payments = {p1}
    Requests = {1, 2, 3, 4, 5}
    Amounts = {1, 3}
    Dtos <- PlanDtos
    MaxInFlight = 2
    MaxCrashes = 2
    Loads <- PairsAndSerial
SPECIFICATION MCFairSpec
CHECK_DEADLOCK FALSE
INVARIANTS
    SettledIsSound
    PaidHasReceipt
    PlanIsSound
    CapturedIsReceiptedOnce
PROPERTIES
    SerialImplementsReceivable
    AllAnswered
