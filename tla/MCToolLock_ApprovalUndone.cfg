CONSTANTS
    p1 = p1
    p2 = p2
    p3 = p3
    o1 = o1
    sA = sA
    sB = sB
    tool1 = tool1
    v1 = v1
    v2 = v2
    v3 = v3
    None = None
    Proxies <- OneProxy
    Operators <- OneOperator
    Servers <- OneServer
    Tools <- OneTool
    Versions <- TwoVersions
    ServerOf <- SameServer
    Lists <- SingleLists
    Legacy <- NothingOnRecord
    Serial = FALSE
    MaxLists <- ThreeListsEach
    MaxCommands = 1
SPECIFICATION Spec
PROPERTY BaselineMovesOnlyByApproval
CHECK_DEADLOCK FALSE
