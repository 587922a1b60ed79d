SPECIFICATION Spec
CONSTANTS
    a1 = a1
    a2 = a2
    n1 = n1
    k1 = k1
    k2 = k2
    v1 = v1
    v2 = v2
    t1 = t1
    t2 = t2
    NoOrg = NoOrg
    NoCode = NoCode
    Mistyped = Mistyped
    Members = {a1, a2}
    Newcomers = {n1}
    Codes = {k1, k2}
    Views = {v1, v2}
    Tabs = {t1, t2}
    Tries = 2
    MaxFaults = 1
SYMMETRY Symmetric
CHECK_DEADLOCK FALSE
INVARIANTS
    MintingIsSound
    AttributedToLink
