SPECIFICATION Spec
CONSTANTS
    p1 = p1
    p2 = p2
    k1 = k1
    k2 = k2
    k3 = k3
    h0 = h0
    h1 = h1
    h2 = h2
    me = me
    other = other
    Run = {me, other}
    Me = me
    Path = {p1, p2}
    Tree = {1, 2}
    CacheMax = 1
    Oversized = FALSE
    None = none
    Key = {k1, k2, k3}
    PathOf <- MCPathOf
    Href = {h0, h1, h2}
    Base = h0
    UriOf <- WithBase
    Elsewhere <- SecondFile
    Bursts = {"items"}
    DepthMax = 2
INVARIANTS
    Xtde1500
