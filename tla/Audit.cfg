\* Three handlers, a file and a URL as observers that may hang, queues of two.
SPECIFICATION FairSpec
CONSTANTS
    e1 = e1
    e2 = e2
    e3 = e3
    Events = {e1, e2, e3}
    NumObservers = 2
    FileObservers = {1}
    QueueSize = 2
    MaxAttempts = 2
INVARIANTS
    TypeOK
    NoSendOnClosed
    AcceptedInOrder
    CloseDrains
    NothingRefused
PROPERTIES
    PublishNeverBlocks
    CloseReturns
