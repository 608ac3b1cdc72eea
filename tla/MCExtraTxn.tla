----------------------------- MODULE MCExtraTxn -----------------------------
(***************************************************************************)
(* Instances of ExtraTxn for TLC.                                          *)
(***************************************************************************)
EXTENDS ExtraTxn, TLC

Symmetry == Permutations(Proc) \cup Permutations(Own) \cup Permutations(Foreign)
=============================================================================
