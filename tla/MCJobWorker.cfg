CONSTANTS
    t1 = t1
    t2 = t2
    q1 = q1
    w1 = w1
    w2 = w2
    NoKey = NoKey
    NoLease = NoLease
    NoWorker = NoWorker
    JobIds = {1}
    Queues = {q1}
    Keys = {}
    Tokens = {t1, t2}
    Limits = {2}
    LeaseTimes = {1}
    MaxTime = 1
    QueueDepth = 2
    ReclaimBatch = 2
    Workers = {w1, w2}
    Concurrency = 1
SPECIFICATION WorkerSpec
SYMMETRY MCSymmetry
INVARIANTS
    RunningHoldsLease
    NoHandlerEscapes
    ReportAddsUp
CHECK_DEADLOCK FALSE
