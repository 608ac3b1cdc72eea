SPECIFICATION Spec
SYMMETRY Symmetric
CONSTANTS
    u1 = u1
    u2 = u2
    b1 = b1
    b2 = b2
    w1 = w1
    w2 = w2
    p1 = p1
    p2 = p2
    None = None
    Eager = FALSE
    MaxGen = 3
    Upload <- MCUpload
    Bytes <- MCBytes
    Worker <- OneWorker
    Purger <- OnePurger
INVARIANT
    CommittedReadable
CHECK_DEADLOCK FALSE
