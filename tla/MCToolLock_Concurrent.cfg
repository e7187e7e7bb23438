CONSTANTS
    p1 = p1
    p2 = p2
    p3 = p3
    o1 = o1
    sA = sA
    sB = sB
    tool1 = tool1
    v1 = v1
    v2 = v2
    v3 = v3
    None = None
    Proxies <- ThreeProxies
    Operators <- OneOperator
    Servers <- TwoServers
    Tools <- OneTool
    Versions <- TwoVersions
    ServerOf <- ServerShared
    Lists <- DoubledLists
    Legacy <- OldPin
    Serial = FALSE
    MaxLists <- TwoListsForOne
    MaxCommands = 1
SPECIFICATION Spec
INVARIANTS
    TypeOK
    StoreWellFormed
    BaselineWasAccepted
    RecordsWhatWasAdvertised
    SilenceMeansBaseline
\* A run ends when every process has had its turns.
CHECK_DEADLOCK FALSE
