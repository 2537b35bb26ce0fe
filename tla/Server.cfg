\* A store interval of 0: every handler saves, at the same time as others; one
\* observer with a queue of one event.
SPECIFICATION FairServerSpec
CONSTANTS
    u1 = u1
    u2 = u2
    u3 = u3
    ticker0 = ticker0
    main0 = main0
    Requests = {u1, u2}
    Ticker = ticker0
    Main = main0
    SyncWrites = TRUE
    Restore = TRUE
    MaxStarts = 1
    NumObservers = 1
    FileObservers = {1}
    QueueSize = 1
    MaxAttempts = 1
INVARIANTS
    ServerTypeOK
    SerialSavesAreDurable
    CleanExitAudits
    CloseComesLast
    AuditedIsDurable
PROPERTIES
    ImplementsDurableLog
    ServerStops
