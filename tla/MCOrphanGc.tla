----------------------------- MODULE MCOrphanGc -----------------------------
(* Instances of OrphanGc small enough for TLC. *)
EXTENDS OrphanGc, TLC

CONSTANTS u1, u2, b1, b2, w1, w2, p1, p2

MCUpload == {u1, u2}
OneUpload == {u1}
MCBytes == {b1, b2}
OneWorker == {w1}
TwoWorkers == {w1, w2}
OnePurger == {p1}
TwoPurgers == {p1, p2}

\* The members of each set are interchangeable.
Symmetric == UNION {Permutations(S) : S \in {MCUpload, MCBytes, Worker, Purger}}
=============================================================================
