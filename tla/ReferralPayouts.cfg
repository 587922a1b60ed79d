SPECIFICATION Spec
CONSTANTS
    c1 = c1
    c2 = c2
    p1 = p1
    p2 = p2
    r1 = r1
    r2 = r2
    o1 = o1
    NoPayout = NoPayout
    Commissions = {c1, c2}
    Payouts = {p1, p2}
    Requests = {r1, r2}
    Operators = {o1}
    Minimum = 1
    RetryFailed = FALSE
    FaultKinds = {"crash", "lost", "write"}
    MaxFaults = 1
SYMMETRY Symmetry
CHECK_DEADLOCK FALSE
INVARIANTS
    EarningsInOnePayout
    PaidIsTransferredOnce
    NoStrandedClaim
