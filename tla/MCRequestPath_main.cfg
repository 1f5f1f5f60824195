\* A stream and an ordinary request at a worker that may die and be restarted:
\* nothing is lost or cut short, and requests are served unless a lost lock strands them.
SPECIFICATION FairSpec
CONSTANTS
    s1 = s1
    r1 = r1
    w1 = w1
    w2 = w2
    Requests <- TwoRequests
    Workers <- OneWorker
    Streaming <- OneStream
    QueueSize = 1
    QueuePerWorker = FALSE
    MaxItems = 2
    MaxDeaths = 1
INVARIANTS
    Accounted
    StreamIntact
PROPERTIES
    Served
CHECK_DEADLOCK FALSE
