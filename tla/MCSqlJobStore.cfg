CONSTANTS
    t1 = t1
    t2 = t2
    t3 = t3
    q1 = q1
    k1 = k1
    s1 = s1
    s2 = s2
    NoKey = NoKey
    NoLease = NoLease
    JobIds = {1, 2}
    Queues = {q1}
    Keys = {k1}
    Tokens = {t1, t2, t3}
    Limits = {2}
    LeaseTimes = {1}
    MaxTime = 2
    QueueDepth = 1
    ReclaimBatch = 2
    Sessions = {s1, s2}
    Engines = {"mysql", "postgres"}
SPECIFICATION Spec
SYMMETRY MCSymmetry
INVARIANTS
    DepthBound
    ReadsHold
    LeasesConsistent
PROPERTIES
    ImplementsContract
