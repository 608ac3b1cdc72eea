SPECIFICATION FairSpec
CONSTANTS
    e1 = e1
    e2 = e2
    w1 = w1
    w2 = w2
    f1 = f1
    x1 = x1
    None = None
    MaxQueue = 2
    MaxPlays = 1
    MaxSessions = 1
    Endpoint <- TwoEndpoints
    Worker <- OneWorker
    Foreign <- NoOthers
    Direct <- NoDirect
PROPERTIES
    QueueDrained
    DirtyCaptured
CHECK_DEADLOCK FALSE
