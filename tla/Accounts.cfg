SPECIFICATION Spec
CONSTANTS
    c1 = c1
    c2 = c2
    p1 = p1
    p2 = p2
    g1 = g1
    NoPassword = NoPassword
    NoSub = NoSub
    NoUser = NoUser
    NoCall = NoCall
    Calls = {c1, c2}
    Passwords = {p1, p2}
    Subs = {g1}
    MaxLinks = 2
    MaxResets = 1
    MaxFaults = 1
SYMMETRY Symmetric
CHECK_DEADLOCK FALSE
INVARIANTS
    AccountWhole
    SessionsFollowPassword
    
