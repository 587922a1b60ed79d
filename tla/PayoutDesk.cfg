SPECIFICATION DeskSpec
CONSTANTS
    c1 = c1
    p1 = p1
    r1 = r1
    o1 = o1
    a1 = a1
    a2 = a2
    NoPayout = NoPayout
    NoDetails = NoDetails
    Unread = Unread
    Loading = Loading
    Commissions = {c1}
    Payouts = {p1}
    Requests = {r1}
    Operators = {o1}
    Details = {a1, a2}
    Minimum = 1
    RetryFailed = FALSE
    FaultKinds = {}
    MaxFaults = 0
SYMMETRY Symmetric
CHECK_DEADLOCK FALSE
INVARIANTS
    RecordsAreTrue
    PageCatchesUp
