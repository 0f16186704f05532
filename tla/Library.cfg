SPECIFICATION LibrarySpec
CONSTANTS
    g1 = g1
    g2 = g2
    k1 = k1
    k2 = k2
    k3 = k3
    k4 = k4
    none = none
    Reader = {g1, g2}
    Builder = g1
    Owner = {1, 2}
    Prefix = {k1}
    SideChunkLen = 2
    MaxChunks = 3
    MaxHeld = 2
    Validation = {g1, g2}
    MemoName = {k1, k2, k3}
    MaxOpenMemo = 2
    PendingHitsPublish = 2
    Transform = {g1, g2}
    Package = {k1, k2}
    StrippedMax = 1
    MaxSources = 2
    MaxCopies = 3
    Caller = {g1, g2}
    Options = {k1}
    Resolver = {k2, k3, k4}
    NestedCacheSize = 2
    MaxSheets = 3
    Goroutine = {g1, g2}
    Uri = {k1, k2, k3}
    CachedUri = {k1, k2}
    CachedMax = 1
    Text = {k1, k2}
    MaxParsed = 2
    StepKey = {k1, k2}
    FoundBy <- FoundByKey
    StepMemoMax = 2
    Evaluation = {g1, g2}
    Lib = {k1, k2}
    NoLib = none
    Version = {20, 30}
    Since <- SinceOf
    MaxChanges = 2
    MaxNodes = 3
    Totals = {0, 5}
    Allowance = 2
    ChargeSizes = {1, 2}
    MaxItemsRead = 3
    MaxBuilt = 5
    Schemas <- Ordinary
    Definition <- DefinitionOf
    Documents <- EveryDocument
    MaxMergePairs = 1024
    MaxDepth = 3
    MaxPattern = 90
    SizeBound = 120
    Keys = {k1, k2, k3}
    HashOf <- HashesOf
    Tokens = {1, 2}
    MaxMaps = 4
    MaxWrites = 4
    Worlds <- ThreeResources
    PointedAt <- SelectedBy
    View <- ViewOf
    TopUri = "top"
    MaxIncludeDepth = 3
    MaxIncludeFetches = 3
    Inputs <- SmallAndMany
    CountCap = 254
    MaxMatchStates = 4096
    Walks <- RestoredOnce
    EventsOf <- EventsIn
    MaxStored = 12
    Clauses <- SmallClauses
    Sheets <- SmallSheets
    SheetNodes <- MatchedNodes
CHECK_DEADLOCK FALSE
INVARIANTS
    LibraryTypeOK
    SideTableKept
    StrippedKept
    MemoTablesKept
    ResolvedAsLookedUp
    BudgetKept
    DerivativesHold
    MapsAnswer
    StackIsNesting
    MeansWhatItIncludes
    MatchedIsValid
    ValuesKept
    EmittedAreTheWindows
    RuleIsMeant
PROPERTIES
    SideTableFreed
    MemoKept
    HotNamesPublished
    CopiesGoWithTheTree
    NestedKept
