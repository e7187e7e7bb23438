CONSTANTS
    g1 = g1
    g2 = g2
    i1 = i1
    i2 = i2
    i3 = i3
    m1 = m1
    m2 = m2
    NoId = NoId
    NoCall = NoCall
    Goroutines <- TwoGoroutines
    Ids <- ThreeIds
    Calls <- TwoCalls
    MaxPending = 2
    Payloads <- AllPayloads
    MaxTraffic = 4
SPECIFICATION Spec
INVARIANTS
    TypeOK
    TableAgrees
    RepliesAreNamedRight
SYMMETRY Interchangeable
\* A run ends when the bound on the traffic is reached.
CHECK_DEADLOCK FALSE
