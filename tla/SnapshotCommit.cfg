SPECIFICATION Spec
SYMMETRY Symmetric
CONSTANTS
    d1 = d1
    d2 = d2
    s1 = s1
    s2 = s2
    x1 = x1
    x2 = x2
    u1 = u1
    u2 = u2
    b1 = b1
    q1 = q1
    q2 = q2
    None = None
    MaxParents = 1
    Device <- MCDevice
    Save <- RaceSave
    Snapshot <- RaceSnapshot
    Upload <- RaceUpload
    Body <- MCBody
    Request <- RaceRequest
INVARIANT TypeOK
INVARIANT ReplyMatchesUpload
INVARIANT NotFoundIsHarmless
INVARIANT ReceiptsAcceptable
INVARIANT NoForkedHistory
PROPERTY ImplementsHeadRegister
PROPERTY ParentsCommittedFirst
CHECK_DEADLOCK FALSE
