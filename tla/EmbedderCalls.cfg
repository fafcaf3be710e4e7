SPECIFICATION FairSpec
CONSTANTS
    Threads = {t1, t2, t3}
    Profiles = {TRUE, FALSE}
    None = None
    MaxBatches = 2
INVARIANTS
    TypeOK
    DeviceIsInUseUnlessLoadsRace
    FallsBackUnlessCallsRace
PROPERTY CallsEnd
