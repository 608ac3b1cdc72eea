-------------------------- MODULE MCSnapshotCommit --------------------------
(* Instances of SnapshotCommit small enough for TLC. *)
EXTENDS SnapshotCommit, TLC

CONSTANTS d1, d2, s1, s2, x1, x2, u1, u2, b1, q1, q2

MCDevice == {d1, d2}
MCBody == {b1}

\* Two concurrent requests for two uploads to two saves.
RaceSave == {s1, s2}
RaceSnapshot == {x1, x2}
RaceUpload == {u1, u2}
RaceRequest == {q1, q2}

\* The members of each set are interchangeable.
Symmetric ==
    UNION {Permutations(S) : S \in {MCDevice, RaceSave, RaceSnapshot, RaceUpload, RaceRequest}}
=============================================================================
