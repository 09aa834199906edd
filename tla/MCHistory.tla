------------------------------ MODULE MCHistory ------------------------------
(***************************************************************************)
(* Small instances of History for TLC.                                     *)
(***************************************************************************)
EXTENDS History, TLC

CONSTANTS e1, e2, e3, e4

MCSymmetry == Permutations(Entries)
=============================================================================
