SPECIFICATION FairSpec
CONSTANTS
    Threads = {t1, t2, t3}
    NoThread = NoThread
    Short = 1
    Long = 2
    None = None
    AgeCap = 4
    MaxDelay = 1
    MaxSyncTicks = 3
    MaxRevisions = 1
    MaxFaults = 2
INVARIANTS
    TypeOK
    FreshClaimMeansSynced
    DedupUnlessSlow
PROPERTIES StoreNeverGoesBack CatchesUp
