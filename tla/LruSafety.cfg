SPECIFICATION AgedSpec
CONSTANTS
    Keys = {k1, k2}
    Items = {i1, i2}
    Workers = {w1}
    NewLrus <- Hot
    Crawls <- ColdOnly
    CrawlTypes <- DumpOnly
    Tocrawl = 0
    BumpSize = 2
    Tries = 2
    MaxRefs = 1
    MaxEvents = 4
    None = None
SYMMETRY Symmetry
INVARIANTS
    ListsExact
    RefcountExact
PROPERTIES
    CrawlMissesNothing
