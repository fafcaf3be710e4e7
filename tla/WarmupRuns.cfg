SPECIFICATION FairSpec
CONSTANTS
    da = da
    db = db
    abs = abs
    rel = rel
    other = other
    Dbs = {da, db}
    Paths = {abs, rel, other}
    FileOf <- MCFileOf
    Relative = {rel}
    Servers = {s1}
    Tool = Tool
    Free = Free
    Absent = Absent
    NoChunk = NoChunk
    NoRow = NoRow
    MaxChanges = 1
    MaxRuns = 1
    MaxFaults = 1
CHECK_DEADLOCK FALSE
INVARIANTS
    TypeOK
    WarmedIsServed
    PruneIsThorough
PROPERTIES
    LiveRowsKept
    RowsCatchUp
    RunsEnd
