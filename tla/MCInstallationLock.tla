------------------------- MODULE MCInstallationLock -------------------------
(* Symmetry for the lock without recoveries: see the .cfg files.           *)
EXTENDS InstallationLock, TLC

Symmetric == Permutations(Invocations)
=============================================================================
