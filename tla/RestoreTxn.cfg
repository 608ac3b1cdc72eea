SPECIFICATION Spec
SYMMETRY Symmetric
CONSTANTS
    p1 = p1
    p2 = p2
    r1 = r1
    r2 = r2
    NoRev = NoRev
    NoProc = NoProc
    GatedLaunch = TRUE
    Orders = {TRUE, FALSE}
    WrittenBack = TRUE
    MaxUnsynced = 2
    Proc <- MCProc
    Rev <- MCRev
INVARIANTS
    TypeOK
    GameReadsSettledTree
    StageCompleteAlwaysRecovers
PROPERTIES
    ImplementsAtomicReplace
    RestoredIsDurable
    BackupKeptUntilNextStage
