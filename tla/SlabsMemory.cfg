CONSTANTS
    p1 = p1
    p2 = p2
    p3 = p3
    k1 = k1
    k2 = k2
    w1 = w1
    w2 = w2
    None = None
    Pages <- Pages3
    Keys <- Keys1
    Workers <- Workers1
    Classes <- TwoClasses
    PerSlab <- MCPerSlab
    Sizes <- AnySize
    MaxLoops = 1
    InitLimit = 3
    Limits = {2}
    Prefill = TRUE
    Moves <- OutOf2
    MaxMalloced = 4
    TestsPool = TRUE
SPECIFICATION FairSpec
INVARIANTS
    TypeOK
    PagesOwnedOnce
PROPERTY MoveCompletes
