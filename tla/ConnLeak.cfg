SPECIFICATION Spec
CONSTANTS
    c1 = c1
    c2 = c2
    a = a
    b = b
    None = None
    Conns <- MCConns
    Keys <- MCKeys
    Slots = {1, 2, 3}
    Modulus = 11
    ChunkMax = 9
    ReqsPerEvent = 1
    RSize = 3
    LineMax = 1
    StatsInit = 2
    Scenarios <- LeakScenarios
INVARIANT RefcountExact
CHECK_DEADLOCK FALSE
