CONSTANTS
    t1 = t1
    t2 = t2
    c1 = c1
    c2 = c2
    Threads <- OneThread
    Required <- Jsonl
    Closable <- Jsonl
    Closers <- OneCloser
    NumSinks = 2
    Network <- Webhook
    QueueSize = 1
    MaxCalls <- Thrice
SPECIFICATION FairSpec
PROPERTIES
    IsAuditTrail
    NothingWaitsForEver
CHECK_DEADLOCK FALSE
