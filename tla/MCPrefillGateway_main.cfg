\* Two tasks at a server with room for one that may be lost and come back.
SPECIFICATION FairSpec
CONSTANTS
    t1 = t1
    t2 = t2
    p1 = p1
    k1 = k1
    NoTask = NoTask
    NoServer = NoServer
    NoKey = NoKey
    Tasks <- TwoTasks
    Servers <- OneServer
    Keys <- OneKey
    KeyOf <- OneOfEach
    MaxInFlight = 1
    Threshold = 2
    MaxConnections = 2
    MaxStale = 1
INVARIANTS
    OneVerdict
    DownServerHoldsNoTask
    CountCovers
PROPERTIES
    EveryTaskSettled
CHECK_DEADLOCK FALSE
