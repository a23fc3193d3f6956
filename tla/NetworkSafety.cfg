CONSTANTS
    None = None
    NumThreads = 2
    FDs <- TwoFds
    Backlog = 1
    ConnLimit = 2
    MaxDropped = 1
SPECIFICATION FairSpec
INVARIANTS
    QueueAnnounced
    FdHeldOnce
    CurrConnsExact
PROPERTY
    AcceptResumes
