\* Two batches in opposite orders, one of which names a metric twice, two attempts each.
SPECIFICATION FairSpec
CONSTANTS
    r1 = r1
    r2 = r2
    a = a
    b = b
    Requests = {r1, r2}
    Rows = {a, b}
    Batch <- CrossedBatches
    MaxAttempts = 2
INVARIANTS
    TypeOK
    AnswerIsExact
PROPERTIES
    ImplementsRepository
    EveryCallReturns
