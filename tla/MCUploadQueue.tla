--------------------------- MODULE MCUploadQueue ---------------------------
\* Small instances of UploadQueue.
EXTENDS UploadQueue, TLC

CONSTANTS e1, e2, w1, w2, f1, x1

OneEndpoint == {e1}
TwoEndpoints == {e1, e2}
OneWorker == {w1}
TwoWorkers == {w1, w2}
Others == {f1}
NoOthers == {}
OneDirect == {x1}
NoDirect == {}

Symmetric == Permutations(TwoWorkers)
=============================================================================
