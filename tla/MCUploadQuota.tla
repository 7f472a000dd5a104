---------------------------- MODULE MCUploadQuota ----------------------------
(* UploadQuota on small instances: images and web requests are            *)
(* interchangeable.                                                        *)
EXTENDS UploadQuota, TLC

Symmetry == Permutations(Images) \cup Permutations(Handlers)
=============================================================================
