SPECIFICATION RelaxSpec
CONSTANTS
    Schemas <- Childless2
    Definition <- DefinitionOf
    Documents <- EveryDocument
    MaxMergePairs = 1024
    MaxDepth = 3
    MaxPattern = 90
    SizeBound = 120
CHECK_DEADLOCK FALSE
INVARIANTS
    Complete
