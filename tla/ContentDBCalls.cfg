SPECIFICATION FairSpec
CONSTANTS
    Tables = 2
    Absent = Absent
    Path = Path
    Closed = Closed
    MaxAttempts = 3
    MaxChanges = 3
    Cases = 5
    TopK = 2
    Bm25Ranks = {1}
    HybridRanks = {1, 2, 3}
    Miss = Miss
    Reports <- Sorted
INVARIANTS
    TypeOK
    AttemptsStartClean
    VerdictWasTrue
    TransientFailuresHidden
    GatesAreTheThresholds
PROPERTY CallsEnd
