\* One worker under fairness, every fault, a queue that fills up, no abandoned
\* request kept.
SPECIFICATION FairSpec
CONSTANTS
    RateLimit = 1
    MaxAttempts = 2
    Faults = {"reset", "timeout", "status"}
    l1 = l1
    LateSlots = {}
    MaxPolls = 2
    MaxSamples = 1
    MaxReports = 4
INVARIANTS
    FinalReportShown
PROPERTIES
    GaugesNeverRegress
    ShutdownCompletes
