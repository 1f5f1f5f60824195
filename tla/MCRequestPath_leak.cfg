\* Violated: a refused request stays in the registry.
SPECIFICATION Spec
CONSTANTS
    s1 = s1
    r1 = r1
    w1 = w1
    w2 = w2
    Requests <- TwoRequests
    Workers <- OneWorker
    Streaming <- OneStream
    QueueSize = 1
    QueuePerWorker = FALSE
    MaxItems = 1
    MaxDeaths = 0
INVARIANTS
    InFlightIsAwaiting
CHECK_DEADLOCK FALSE
