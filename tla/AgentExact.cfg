\* One worker and a network without faults.
SPECIFICATION Spec
CONSTANTS
    RateLimit = 1
    MaxAttempts = 4
    Faults = {}
    l1 = l1
    LateSlots = {}
    MaxPolls = 2
    MaxSamples = 0
    MaxReports = 2
INVARIANTS
    PollCountIsExact
