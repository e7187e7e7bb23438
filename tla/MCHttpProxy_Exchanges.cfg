CONSTANTS
    post = post
    get = get
    bens = bens
    anna = anna
    ben = ben
    i1 = i1
    allowed = allowed
    denied = denied
    NoId = NoId
    NoCall = NoCall
    Exchanges <- ThreeExchanges
    Clients <- TwoClients
    ClientOf <- BensIsBens
    IdsOf <- OneIdForAll
    ServerIds <- TheClientsId
    Calls <- AllCalls
    ClientCalls <- AllCalls
    ServerCalls <- NoCalls
    Denied <- DeniedToBen
    MaxPending = 1
    Forms <- NoiseOnStream
    Modes <- StreamOnGet
    MaxLines = 2
SPECIFICATION Spec
INVARIANTS
    TypeOK
    RefusedNeverReachesServer
    AuditFollowsTraffic
    RepliesFollowRequests
    RequestsAreRemembered
    Transparent
\* The proxy ends.
CHECK_DEADLOCK FALSE
