SPECIFICATION FairSpec
CONSTANTS
    h1 = h1
    h2 = h2
    t1 = t1
    t2 = t2
    t3 = t3
    NULL = NULL
    SpaceStride = 4
    KeyWord = 16
    VersionWord = 2
    Hosts <- MCHosts
    Pages <- MCColliding
    Threads <- MCThreads2
    HostOf <- MCSeparate
    CallerTypes <- MCWriteOnly
    Disciplined = TRUE
    MayBreak = TRUE
CHECK_DEADLOCK FALSE
INVARIANTS
    OwnReply
    NoOrphanLock
PROPERTY CallReturns
