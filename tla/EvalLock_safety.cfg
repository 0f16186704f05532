SPECIFICATION Spec
CONSTANTS
    Main = main
    Others = {h1, h2}
    Vars = {x, y}
    Eager = {x, y}
    Deferred = {x}
    Fallible = {x, y}
    MaxDepth = 4
    None = none
SYMMETRY Symmetric
CHECK_DEADLOCK FALSE
INVARIANTS
    TypeOK
    OneEvaluator
    LocalsConfined
    ForcedByOne
    HostHoldsNothing
PROPERTIES
    Settled
    SerialSpec
