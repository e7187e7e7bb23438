CONSTANTS
    p1 = p1
    p2 = p2
    p3 = p3
    o1 = o1
    sA = sA
    sB = sB
    tool1 = tool1
    v1 = v1
    v2 = v2
    v3 = v3
    None = None
    Proxies <- TwoProxies
    Operators <- OneOperator
    Servers <- TwoServers
    Tools <- OneTool
    Versions <- ThreeVersions
    ServerOf <- ServerEach
    Lists <- SingleLists
    Legacy <- OldPin
    Serial = TRUE
    MaxLists <- TwoListsEach
    MaxCommands = 3
SPECIFICATION Spec
INVARIANTS
    StatusTellsTheTruth
PROPERTIES
    BaselineMovesOnlyByApproval
CHECK_DEADLOCK FALSE
