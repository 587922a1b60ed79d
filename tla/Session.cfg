SPECIFICATION Spec
CONSTANTS
    t1 = t1
    t2 = t2
    r1 = r1
    r2 = r2
    NoTab = NoTab
    NoToken = NoToken
    NoCookie = NoCookie
    Tabs = {t1, t2}
    Requests = {r1, r2}
    MaxTime = 1
    MaxResets = 1
    MaxFaults = 1
SYMMETRY Symmetric
CHECK_DEADLOCK FALSE
INVARIANTS
    DoneAtMostOnce
    ResetReachesAll
    SignedOutStays
    NoTabStuck
