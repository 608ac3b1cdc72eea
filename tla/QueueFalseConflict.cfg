SPECIFICATION Spec
CONSTANTS
    e1 = e1
    e2 = e2
    w1 = w1
    w2 = w2
    f1 = f1
    x1 = x1
    None = None
    MaxQueue = 3
    MaxPlays = 1
    MaxSessions = 2
    Endpoint <- OneEndpoint
    Worker <- OneWorker
    Foreign <- NoOthers
    Direct <- NoDirect
INVARIANT
    ConflictNeedsRival
CHECK_DEADLOCK FALSE
