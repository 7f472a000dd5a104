----------------------------- MODULE MCBulkJobs -----------------------------
(* Instances of BulkJobs for TLC. *)
EXTENDS BulkJobs, TLC
Symmetry == Permutations(Images) \cup Permutations(Requests) \cup Permutations(Workers)
=============================================================================
