CONSTANTS
    t1 = t1
    t2 = t2
    c1 = c1
    c2 = c2
    Threads <- TwoThreads
    Required <- Jsonl
    Closable <- Jsonl
    Closers <- OneCloser
    NumSinks = 1
    Network <- NoSink
    QueueSize = 2
    MaxCalls <- FirstTwice
SPECIFICATION Spec
INVARIANT RequiredSinkNeverLosesAnEvent
CHECK_DEADLOCK FALSE
