-------------------------- MODULE MCProcessingJobs --------------------------
(* ProcessingJobs on small instances: workers, jobs and web requests are   *)
(* interchangeable.                                                        *)
EXTENDS ProcessingJobs, TLC

Symmetry == Permutations(Workers) \cup Permutations(Jobs) \cup Permutations(Handlers)
=============================================================================
