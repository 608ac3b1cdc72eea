CONSTANTS
    Proc = {p1, p2}
    Count = 2
    Own = {v, x}
    Foreign = {f}
    Missing = Missing
    Torn = Torn
    Free = Free
    NoPlan = NoPlan
    MaxTxn = 2
    AnyOrder = FALSE
    OutsiderCreates = FALSE
SPECIFICATION Spec
SYMMETRY Symmetry
CHECK_DEADLOCK FALSE
INVARIANT ForeignBytesKept
INVARIANT MixtureRollsBack
PROPERTY ImplementsGroupInstall
