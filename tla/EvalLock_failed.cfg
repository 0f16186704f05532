SPECIFICATION Spec
CONSTANTS
    Main = main
    Others = {h1}
    Vars = {x}
    Eager = {x}
    Deferred = {}
    Fallible = {x}
    MaxDepth = 3
    None = none
CHECK_DEADLOCK FALSE
INVARIANTS
    FreeAfterReturn
