CONSTANTS
    w1 = w1
    w2 = w2
    NoThread = NoThread
    NoKey = NoKey
    Keys <- MCKeys1
    Workers <- MCWorkers1
    Hash <- MCHash
    LockCount = 1
    InitOldSize = 1
    MaxOldSize = 2
    OtherItems = 2
    PauseWorkers = TRUE
SPECIFICATION FairSpec
PROPERTIES
    RequestServed
CHECK_DEADLOCK FALSE
