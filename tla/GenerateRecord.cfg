CONSTANTS
    s1 = s1
    s2 = s2
    s3 = s3
    t1 = t1
    t2 = t2
    p1 = p1
    p2 = p2
    q1 = q1
    k1 = k1
    owned = owned
    other = other
    marked = marked
    Spans = {s1, s2, s3}
    QueueSize = 2
    BatchSize = 2
    Callers = {t1, t2}
    Concurrent = 2
    Idle = 1
    Absolute = 1
    MaxSessions = 3
    LastInstant = 1
    Attempts = {s1, s2, s3}
    FlowLimits <- MCLimits
    Window = 2
    LastMoment = 5
    Policies <- MCPolicies
    NoDeadline = 0
    Probes = {p1, p2}
    Contributors = 2
    Ceiling = 2
    Requests = {s1, s2, s3}
    MaxConcurrent = 2
    Starters = {s1, s2, s3}
    Versions = 2
    NoTransaction = {2}
    NoSession = NoSession
    Files = {owned, other, marked}
    Order <- MCOrder
    Marked = {marked}
    Missing <- MCMissing
    MaxEdits = 1
    Runs = {t1, t2}
    Addresses = {owned}
    AccountCalls = {t1, t2}
    Secrets = {p1, p2}
    NoAddress = NoAddress
    Lifetime = 1
    LastMail = 1
    CacheKeys = {p1, p2}
    Clients = {t1, t2}
    Ttls = {1, 2}
    Capacity = 1
    NoEntry = NoEntry
    LastTick = 2
    Operations = {s1, s2, s3}
    NoFile = NoFile
    Link = Link
    NoKey = NoKey
    NoLease = NoLease
    JobIds = {1, 2}
    Queues = {q1}
    Keys = {k1}
    Tokens = {s1, s2, s3}
    Limits = {1, 2}
    LeaseTimes = {1}
    MaxTime = 2
    QueueDepth = 1
    ReclaimBatch = 2
    AnswerLimit = 2
    PipeSize = 1
    MostWritten = 4
    Sources = 2
    Providers = 3
    NoCulprit = NoCulprit
SPECIFICATION MCGenerateSpec
SYMMETRY MCSymmetry
INVARIANT EditClaimsNothing
CHECK_DEADLOCK FALSE
