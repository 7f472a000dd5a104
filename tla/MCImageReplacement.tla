------------------------- MODULE MCImageReplacement -------------------------
(* Instances of ImageReplacement for TLC. *)
EXTENDS ImageReplacement, TLC
Symmetry == Permutations(Replacements) \cup Permutations(Requests)
=============================================================================
