SPECIFICATION Spec
SYMMETRY Symmetric
CONSTANTS
    u1 = u1
    u2 = u2
    b1 = b1
    b2 = b2
    w1 = w1
    w2 = w2
    p1 = p1
    p2 = p2
    None = None
    Eager = TRUE
    MaxGen = 3
    Upload <- MCUpload
    Bytes <- MCBytes
    Worker <- TwoWorkers
    Purger <- OnePurger
INVARIANTS
    TypeOK
    NeverAbsent
    RecordedBytesKept
PROPERTY
    AcknowledgedIsPurged
CHECK_DEADLOCK FALSE
