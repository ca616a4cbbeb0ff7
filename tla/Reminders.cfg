CONSTANTS
    Nothing = Nothing
    t1 = t1
    p1 = p1
    i1 = i1
    n1 = n1
    s1 = s1
    w1 = w1
    w2 = w2
    Tasks = {t1}
    Policies = {p1}
    Schedules = {s1}
    Installments = {i1}
    NextPlan = {n1}
    Sweepers = {w1, w2}
    MaxFaults = 2
    Loads <- OverlapAndSerial
SPECIFICATION MCFairSpec
INVARIANTS
    NoticesAreSound
PROPERTIES
    DueIsReminded
