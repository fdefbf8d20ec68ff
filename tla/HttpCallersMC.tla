---------------------------- MODULE HttpCallersMC ----------------------------
(* Instances of HttpCallers for TLC. *)
EXTENDS HttpCallers

CallerSymmetry == Permutations(Callers) \cup Permutations(Networks)
=============================================================================
