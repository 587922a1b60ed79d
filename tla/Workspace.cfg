SPECIFICATION Spec
CONSTANTS
    c1 = c1
    c2 = c2
    n1 = n1
    NoName = NoName
    Loading = Loading
    Pages = {"domain"}
    Calls = {c1, c2}
    Names = {n1}
    MaxIds = 3
    Limit = 1
SYMMETRY Symmetric
CHECK_DEADLOCK FALSE
INVARIANTS
    LimitHolds
    
PROPERTIES
    VerifiedStays
