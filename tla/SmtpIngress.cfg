SPECIFICATION FairSpec
CONSTANTS
    s1 = s1
    s2 = s2
    i1 = i1
    free = free
    paid = paid
    m1 = m1
    m2 = m2
    NoIp = NoIp
    NoPlan = NoPlan
    NoSubmission = NoSubmission
    Sessions = {s1, s2}
    Clients = {s1, s2}
    Ips = {i1}
    MaxFailures = 1
    MaxConcurrent = 1
    FaultKinds = {"crash", "reject"}
    MaxFaults = 1
    Submissions = {m1, m2}
    Plans = {free, paid}
    Quota <- SmallQuotas
    MaxRecipients <- SmallMessages
    MaxSize = 2
CHECK_DEADLOCK FALSE
INVARIANTS
    GuardHolds
    NothingHalfStored
PROPERTIES
    QuotaExact
    KeepsPromise
    EveryoneAnswered
