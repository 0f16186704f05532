SPECIFICATION FairSpec
CONSTANTS
    p1 = p1
    p2 = p2
    p3 = p3
    Run = {r1, r2}
    Path = {p1, p2}
    Sizes = {2}
    Expand <- ExpandOne
    Ceiling = 3
    CacheMax = 1
    CacheMaxBytes = 2
    LoadMax = 3
    None = none
PROPERTIES
    Answered
