\* Two workers, every fault, one abandoned request kept by the network.
SPECIFICATION Spec
CONSTANTS
    RateLimit = 2
    MaxAttempts = 2
    Faults = {"reset", "timeout", "status"}
    l1 = l1
    LateSlots = {l1}
    MaxPolls = 2
    MaxSamples = 0
    MaxReports = 3
INVARIANTS
    TypeOK
    NoPollLost
    CreditedLedger
    OutgoingWithinLimit
    FinalReportClears
