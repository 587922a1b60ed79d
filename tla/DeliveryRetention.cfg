SPECIFICATION FairSpec
CONSTANTS
    w1 = w1
    w2 = w2
    m1 = m1
    m2 = m2
    a1 = a1
    a2 = a2
    b1 = b1
    dA = dA
    dB = dB
    own = own
    other = other
    NoWorker = NoWorker
    NoMessage = NoMessage
    NoAddress = NoAddress
    Messages <- OneMessage
    Addresses <- SameDomain
    To <- ToSame
    DomainOf <- DomainOfAddress
    SendingDomains = {own}
    FromDomain <- FromOwn
    EnvelopeDomain <- FromOwn
    Workers = {w1}
    MaxAttempts = 2
    MaxStalled = 1
    MaxTargets = 2
    FaultKinds = {"crash", "error", "stall", "lost"}
    MaxFaults <- CrashAndError
    MaxAge = 2
    InTime = TRUE
    MaxAborts = 1
    MaxDomainChanges = 0
CHECK_DEADLOCK FALSE
INVARIANTS
    TypeOK
    NoOrphanedContent
    
PROPERTIES
    OutcomesAreFinal
    EventuallyClosed
