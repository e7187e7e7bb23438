CONSTANTS
    i1 = i1
    list = list
    allowed = allowed
    denied = denied
    sampling = sampling
    NoId = NoId
    NoCall = NoCall
    Calls <- AllCalls
    ClientCalls <- RefusedOrNot
    Denied <- DeniedCalls
    MaxPending = 2
    ClientIds <- OneId
    ServerIds <- OneId
    ServerCalls <- OnlySampling
    Forms <- Singles
    MaxLines <- TwoAndOne
SPECIFICATION Spec
INVARIANTS
    OnlyCallsAreRefused
\* The session ends.
CHECK_DEADLOCK FALSE
