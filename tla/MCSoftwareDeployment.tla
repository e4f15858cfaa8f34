------------------------ MODULE MCSoftwareDeployment ------------------------
(* Instances of SoftwareDeployment for TLC. *)
EXTENDS SoftwareDeployment, TLC

Symmetry == Permutations(Threads) \union Permutations(Devices)
=============================================================================
