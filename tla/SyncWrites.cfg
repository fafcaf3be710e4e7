SPECIFICATION Spec
CONSTANTS
    server = server
    warmup = warmup
    r1 = r1
    r2 = r2
    a = a
    b = b
    Rowids = {r1, r2}
    Texts = {a, b}
    NoText = NoText
    LegacyHash = LegacyHash
    NoRow = NoRow
    Procs = {server, warmup}
    Free = Free
SYMMETRY Alike
INVARIANTS
    TypeOK
    RowsSelfConsistent
PROPERTY SyncsAreWhole
