----------------------------- MODULE MCRunFiles -----------------------------
(* Instances of RunFiles for TLC. *)
EXTENDS RunFiles, TLC

Symmetry == Permutations(Runs) \cup Permutations(Sessions)
=============================================================================
