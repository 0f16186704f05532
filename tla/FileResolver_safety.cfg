SPECIFICATION Spec
CONSTANTS
    p1 = p1
    p2 = p2
    p3 = p3
    Run = {r1, r2}
    Path = {p1, p2, p3}
    Sizes = {1, 3}
    Expand <- ExpandOne
    Ceiling = 3
    CacheMax = 2
    CacheMaxBytes = 2
    LoadMax = 3
    None = none
SYMMETRY RunsAndPaths
INVARIANTS
    TypeOK
    CacheKept
    SingleFlight
    RightTree
    Identity
PROPERTIES
    NothingEvictedForBytes
    StoreSpec
