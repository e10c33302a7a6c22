----------------------------- MODULE MCCloudJobs -----------------------------
(* Instances of CloudJobs for TLC. *)
EXTENDS CloudJobs, TLC

Symmetric == Permutations(Agents) \cup Permutations(Jobs)
=============================================================================
