CONSTANTS
    k1 = k1
    k2 = k2
    None = None
    Keys <- TwoKeys
    Pages <- TwoPages
    PageSize = 2
    WbufSize = 1
    CompactUnder = 1
    DropUnread = 1
    MaxFrag = 80
    MaxSets = 3
    MaxVersion = 3
SPECIFICATION Spec
SYMMETRY Symmetry
INVARIANT
    HeaderFindsLatest
