------------------------------ MODULE MCBackup ------------------------------
(* Instance of Backup for TLC.                                               *)
EXTENDS Backup, TLC

\* Databases only matter up to renaming.
DbSymmetry == Permutations(Dbs)
=============================================================================
