---------------------------- MODULE MCGeneration ----------------------------
(* Finite instances of Generation.                                         *)
EXTENDS Generation, TLC

Symmetry ==
    Permutations(Matches) \cup Permutations(FactsHandlers) \cup Permutations(ReviewHandlers)
=============================================================================
