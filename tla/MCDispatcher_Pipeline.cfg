CONSTANTS
    t1 = t1
    t2 = t2
    c1 = c1
    c2 = c2
    Threads <- TwoThreads
    Required <- Jsonl
    Closable <- Jsonl
    Closers <- TwoClosers
    NumSinks = 2
    Network <- Webhook
    QueueSize = 2
    MaxCalls <- FirstTwice
SYMMETRY ClosersAlike
SPECIFICATION Spec
INVARIANTS
    TypeOK
    Accounted
    CountedOnceInOrder
    RequiredLogCoversLaterSinks
    BacklogDealtWith
    ClosedSinksAreQuiet
    StrandedAtMostOnePerThread
\* A run ends when every goroutine has made its calls and Close has returned.
CHECK_DEADLOCK FALSE
