CONSTANTS
    None = None
    Notes = {n1}
    Gross <- OneNote
    Payments = {p1}
    Requests = {1, 2, 3, 4}
    Amounts = {1, 3}
    Dtos <- NoDtos
    MaxInFlight = 2
    MaxCrashes = 0
    Loads <- Pairs
SPECIFICATION MCSpec
CHECK_DEADLOCK FALSE
INVARIANTS
    NoOverCollection
