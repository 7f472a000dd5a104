-------------------------- MODULE MCMetadataBatch --------------------------
(* Instances of MetadataBatch for TLC. *)
EXTENDS MetadataBatch, TLC
=============================================================================
