\* A store interval of 0: every handler saves, at the same time as others.
SPECIFICATION Spec
CONSTANTS
    u1 = u1
    u2 = u2
    u3 = u3
    ticker0 = ticker0
    main0 = main0
    Requests = {u1, u2}
    Ticker = ticker0
    Main = main0
    SyncWrites = TRUE
    Restore = TRUE
    MaxStarts = 1
INVARIANTS
    AckedUpdateIsDurable
