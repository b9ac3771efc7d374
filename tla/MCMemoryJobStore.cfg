CONSTANTS
    t1 = t1
    t2 = t2
    q1 = q1
    q2 = q2
    k1 = k1
    NoKey = NoKey
    NoLease = NoLease
    JobIds = {1, 2, 3}
    Queues = {q1, q2}
    Keys = {k1}
    Tokens = {t1, t2}
    Limits = {2}
    LeaseTimes = {1}
    MaxTime = 1
    QueueDepth = 2
    ReclaimBatch = 1
SPECIFICATION Spec
SYMMETRY MCSymmetry
INVARIANTS
    IndexesExact
PROPERTIES
    ImplementsContract
