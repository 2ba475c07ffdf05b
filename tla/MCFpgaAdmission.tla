--------------------------- MODULE MCFpgaAdmission ---------------------------
(* FpgaAdmission with names that can be exchanged: nothing distinguishes   *)
(* two accelerator functions but their specs.                              *)
EXTENDS FpgaAdmission, TLC

SameNames == Permutations(AfNames)
=============================================================================
