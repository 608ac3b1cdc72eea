SPECIFICATION Spec
CONSTANTS
    e1 = e1
    e2 = e2
    w1 = w1
    w2 = w2
    f1 = f1
    x1 = x1
    None = None
    MaxQueue = 2
    MaxPlays = 2
    MaxSessions = 1
    Endpoint <- OneEndpoint
    Worker <- TwoWorkers
    Foreign <- Others
    Direct <- OneDirect
SYMMETRY Symmetric
INVARIANTS
    TypeOK
    NoSaveLost
    NothingPendingMeansUploaded
    LedgerTruthful
PROPERTY
    ImplementsOutbox
CHECK_DEADLOCK FALSE
