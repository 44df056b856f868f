---------------------------- MODULE MCMaster485 ----------------------------
(***************************************************************************)
(* Instances of Master485 for TLC.                                         *)
(***************************************************************************)
EXTENDS Master485

=============================================================================
