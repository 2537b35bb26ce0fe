\* A store interval: handlers only touch memory, the ticker saves.
SPECIFICATION FairSpec
CONSTANTS
    u1 = u1
    u2 = u2
    u3 = u3
    ticker0 = ticker0
    main0 = main0
    Requests = {u1, u2, u3}
    Ticker = ticker0
    Main = main0
    SyncWrites = FALSE
    Restore = TRUE
    MaxStarts = 2
INVARIANTS
    TypeOK
    CleanExitIsComplete
PROPERTIES
    ImplementsDurableLog
    ShutdownTerminates
