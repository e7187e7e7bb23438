CONSTANTS
    i1 = i1
    list = list
    allowed = allowed
    denied = denied
    sampling = sampling
    NoId = NoId
    NoCall = NoCall
    Calls <- AllCalls
    ClientCalls <- RefusedOrNot
    Denied <- DeniedCalls
    MaxPending = 1
    ClientIds <- OneId
    ServerIds <- OneId
    ServerCalls <- OnlySampling
    Forms <- ReadOrNot
    MaxLines <- TwoAndOne
SPECIFICATION FairSpec
INVARIANTS
    TypeOK
    OneAnswerPerRequest
    Transparent
    AuditFollowsTraffic
    RepliesNameTheirRequest
PROPERTIES
    EndsAreNoticed
\* The session ends.
CHECK_DEADLOCK FALSE
