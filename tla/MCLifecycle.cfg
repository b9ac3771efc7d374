CONSTANTS
    u1 = u1
    u2 = u2
    Count = 3
    Works = {u1, u2}
SPECIFICATION FairSpec
INVARIANTS
    NothingLeftRunning
    ScopesFollowProviders
    CleanDrainIsIdle
PROPERTIES
    IsAStack
    ShutdownIsIdempotent
    KernelReturns
CHECK_DEADLOCK FALSE
