------------------------------ MODULE MCStaff ------------------------------
(***************************************************************************)
(* Instances of Staff for TLC.                                             *)
(***************************************************************************)
EXTENDS Staff, TLC

StaffSymmetry == Permutations(Workers)
=============================================================================
