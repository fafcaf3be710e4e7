SPECIFICATION Spec
CONSTANTS
    x = x
    y = y
    note = note
    session = session
    Rowids = {1, 2}
    Chunks = {x, y}
    NoChunk = NoChunk
    LabelOf <- TwoLabels
    All = All
    TextOf <- TwoTexts
    Width = 8
    Queries = 2
    Limits = {1, 2}
    MaxCommits = 2
INVARIANTS
    TypeOK
    ShownOnce
    FilterHonouredUnlessRewritten
    ExcerptShowsTerm
    FusionRespectsRanks
