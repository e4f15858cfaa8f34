------------------------ MODULE MCBackupVerification ------------------------
(* Instances of BackupVerification for TLC. *)
EXTENDS BackupVerification, TLC

Symmetry == Permutations(Threads) \union Permutations(Restores)
=============================================================================
