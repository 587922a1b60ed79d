SPECIFICATION FairSpec
CONSTANTS
    o1 = o1
    o2 = o2
    c1 = c1
    c2 = c2
    ship = ship
    scale = scale
    NoOrder = NoOrder
    Free = Free
    PaidPlans = {ship, scale}
    Calendar <- ShortMonths
    LastMonth = 5
    MaxDay = 2
    Orders = {o1, o2}
    Calls = {c1, c2}
    Overlap = FALSE
    RefundsLast = TRUE
    FaultKinds = {"reject", "late", "crash"}
    MaxFaults = 1
CHECK_DEADLOCK FALSE
INVARIANTS
    TimeWasPaid
    
    
PROPERTIES
    CreditsEachOnce
    PaidIsCredited
