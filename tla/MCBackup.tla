------------------------------- MODULE MCBackup -------------------------------
(***************************************************************************)
(* Model checking of Backup.  Rowids and keys are interchangeable.         *)
(***************************************************************************)
EXTENDS Backup, TLC

DataSymmetry == Permutations(Rowids) \cup Permutations(Keys)
=============================================================================
