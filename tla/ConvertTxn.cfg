CONSTANTS
    Proc = {p1, p2}
    Played = {s1, s2}
    Converted = {x1}
    Absent = Absent
    Free = Free
    Stale = Stale
    Kind = {"slot", "cec"}
    MaxHistory = 2
SPECIFICATION Spec
SYMMETRY Symmetry
CONSTRAINT Alone
CHECK_DEADLOCK FALSE
INVARIANT TypeOK
INVARIANT PriorSaveKept
INVARIANT RollbackPossible
INVARIANT KilledRollbackCanFinish
INVARIANT FailedInstallRestores
PROPERTY SwapsOnlyWhatWasSeen
