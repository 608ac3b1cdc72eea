---------------------------- MODULE MCRestoreTxn ----------------------------
(* Instances of RestoreTxn small enough for TLC. *)
EXTENDS RestoreTxn, TLC

CONSTANTS p1, p2, r1, r2

MCProc == {p1, p2}
MCRev == {r1, r2}

\* Processes are interchangeable, and so are contents.
Symmetric == Permutations(MCProc) \cup Permutations(MCRev)
=============================================================================
