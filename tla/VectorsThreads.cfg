SPECIFICATION Spec
CONSTANTS
    server = server
    warmup = warmup
    t1 = t1
    t2 = t2
    t3 = t3
    r1 = r1
    r2 = r2
    a = a
    b = b
    Rowids = {r1, r2}
    Texts = {a, b}
    NoText = NoText
    LegacyHash = LegacyHash
    NoRow = NoRow
    Procs = {server}
    Threads = {t1, t2}
    ProcOf <- OneProcess
    NoThread = NoThread
    User = User
    TopK = 1
    MaxCommits = 3
    MaxRevisions = 1
    MaxDeletes = 1
SYMMETRY AlikeThreads
INVARIANTS
    TypeOK
    IInv
    SyncExact
    CacheServesOwnSyncs
    ChunksEmbeddedOnce
    CommitsFollowSnapshots
PROPERTY ImplementsIndex
