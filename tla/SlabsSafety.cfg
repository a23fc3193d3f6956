CONSTANTS
    p1 = p1
    p2 = p2
    p3 = p3
    k1 = k1
    k2 = k2
    w1 = w1
    w2 = w2
    None = None
    Pages <- Pages2
    Keys <- Keys2
    Workers <- Workers2
    Classes <- TwoClasses
    PerSlab <- MCPerSlab
    Sizes <- Small
    MaxLoops = 0
    InitLimit = 2
    Limits = {}
    Prefill = FALSE
    Moves <- ToClass
    MaxMalloced = 3
    TestsPool = TRUE
SPECIFICATION Spec
SYMMETRY Symmetry
INVARIANTS
    ChunksAccounted
    RefcountExact
    NoDanglingItem
    StolenPageClear
PROPERTY
    NoNeedlessEviction
