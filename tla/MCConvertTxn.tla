---------------------------- MODULE MCConvertTxn ----------------------------
(***************************************************************************)
(* Instances of ConvertTxn for TLC.                                        *)
(***************************************************************************)
EXTENDS ConvertTxn, TLC

Symmetry == Permutations(Proc) \cup Permutations(Played) \cup Permutations(Converted)
=============================================================================
