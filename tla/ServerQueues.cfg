SPECIFICATION Spec
CONSTANTS
    Threads = {t1, t2}
    NoThread = NoThread
    Short = 1
    Long = 2
    None = None
    AgeCap = 4
    MaxDelay = 1
    MaxSyncTicks = 2
    MaxRevisions = 1
    MaxFaults = 0
INVARIANT DedupIsExact
