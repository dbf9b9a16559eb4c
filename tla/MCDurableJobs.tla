--------------------------- MODULE MCDurableJobs ---------------------------
(* Small instances of the durable job lifecycle for TLC. *)
EXTENDS DurableJobsProperties, TLC

Symmetry == Permutations(Jobs) \cup Permutations(Runs)

RunSymmetry == Permutations(Runs)

AllFaults == FaultKinds
=============================================================================
