------------------------- MODULE MCRunController -------------------------
(* Instances of RunController for TLC. *)
EXTENDS RunControllerProps, TLC

Symmetry == Permutations(Handlers)
=============================================================================
