SPECIFICATION FairSpec
CONSTANTS
    Main = main
    Others = {h1}
    Vars = {x}
    Eager = {x}
    Deferred = {x}
    Fallible = {x}
    MaxDepth = 3
    None = none
INVARIANTS
    FreeAfterReturn
PROPERTIES
    Served
