---------------------- MODULE MCResumeCheckpointStore ----------------------
(* Instances of ResumeCheckpointStore for TLC. *)
EXTENDS ResumeCheckpointStore, TLC

Symmetry == Permutations(Agents) \cup Permutations(Events)
=============================================================================
