------------------------- MODULE MCAnalysisService -------------------------
(* Small instances of AnalysisService for TLC. *)
EXTENDS AnalysisService, TLC

Symmetry == Permutations(Jobs) \cup Permutations(Keys) \cup Permutations(Workers)
===========================================================================
