CONSTANTS
    b1 = b1
    b2 = b2
    t1 = t1
    t2 = t2
    None = None
    PageCount = 3
    PageSize = 1
    WbufSize = 1
    WbufCount = 1
    Buckets <- OneBucket
    IOThreads <- OneThread
    MaxVersion = 4
    MaxLive = 2
    MaxReads = 1
SPECIFICATION FairSpec
INVARIANT
    PagesListedOnce
PROPERTIES
    FreedOnlyForSpace
    WriterServed
