SPECIFICATION Spec
SYMMETRY Symmetric
CONSTANTS
    p1 = p1
    p2 = p2
    r1 = r1
    r2 = r2
    NoRev = NoRev
    NoProc = NoProc
    GatedLaunch = TRUE
    Orders = {TRUE}
    WrittenBack = TRUE
    MaxUnsynced = 2
    Proc <- MCProc
    Rev <- MCRev
INVARIANT
    RecoveryIsRetryable
