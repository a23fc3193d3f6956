CONSTANTS
    b1 = b1
    b2 = b2
    t1 = t1
    t2 = t2
    None = None
    PageCount = 2
    PageSize = 2
    WbufSize = 1
    WbufCount = 2
    Buckets <- TwoBuckets
    IOThreads <- TwoThreads
    MaxVersion = 3
    MaxLive = 2
    MaxReads = 1
SPECIFICATION Spec
SYMMETRY Symmetry
INVARIANTS
    TypeOK
    ReadsWhatWasWritten
    FlushFindsItsPage
    BuffersConserved
