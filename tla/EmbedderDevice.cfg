SPECIFICATION Spec
CONSTANTS
    Threads = {t1, t2}
    Profiles = {TRUE}
    None = None
    MaxBatches = 1
INVARIANT DeviceIsInUse
