SPECIFICATION Spec
CONSTANTS
    w1 = w1
    w2 = w2
    m1 = m1
    m2 = m2
    a1 = a1
    a2 = a2
    b1 = b1
    dA = dA
    dB = dB
    own = own
    other = other
    NoWorker = NoWorker
    NoMessage = NoMessage
    NoAddress = NoAddress
    Messages <- TwoMessages
    Addresses <- OneAddress
    To <- ToOne
    DomainOf <- DomainOfAddress
    SendingDomains = {own}
    FromDomain <- FromOwn
    EnvelopeDomain <- FromOwn
    Workers = {w1, w2}
    MaxAttempts = 2
    MaxStalled = 1
    MaxTargets = 2
    FaultKinds = {"crash", "error", "stall", "lost"}
    MaxFaults <- OneStall
    MaxAge = 0
    InTime = TRUE
    MaxAborts = 0
    MaxDomainChanges = 0
CHECK_DEADLOCK FALSE
SYMMETRY WorkerSymmetry
INVARIANTS
    SuppressedNotContacted
