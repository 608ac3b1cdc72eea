CONSTANTS
    Task = {k1}
    Played = {s1, s2}
    Cloud = {c1, c2}
    Partial = Partial
    Nothing = Nothing
    Kept = 1
    MaxOp = 2
    MaxTrouble = 3
SPECIFICATION FairSpec
INVARIANT TypeOK
INVARIANT PriorSaveKept
INVARIANT GameReadsWholeTree
INVARIANT BaselineTruthful
PROPERTY ReceiptTruthful
PROPERTY EmulatorFreed
