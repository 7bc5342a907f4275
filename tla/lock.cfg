SPECIFICATION FairSpec
CONSTANTS
    t1 = t1
    t2 = t2
    t3 = t3
    ph = ph
    pw = pw
    None = None
    Threads = {t1, t2, t3}
    ProcOf <- SharedProcess
    HasFlock = TRUE
    MaxDepth = 2
INVARIANTS
    TypeOK
    MutualExclusion
    FlockFollowsDepth
    NothingLeaks
PROPERTIES
    HoldReturns
    ImplementsMutex
