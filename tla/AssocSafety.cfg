CONSTANTS
    w1 = w1
    w2 = w2
    NoThread = NoThread
    NoKey = NoKey
    Keys <- MCKeys2
    Workers <- MCWorkers2
    Hash <- MCHash
    LockCount = 2
    InitOldSize = 2
    MaxOldSize = 4
    OtherItems = 4
    PauseWorkers = TRUE
SPECIFICATION Spec
SYMMETRY Symmetry
INVARIANTS
    TypeOK
    ItemsWhereLookedFor
    AssocDeleteFinds
    AssocInsertIsNew
    NoBucketShared
PROPERTY
    ImplementsDictionary
CHECK_DEADLOCK FALSE
