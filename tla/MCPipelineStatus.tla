-------------------------- MODULE MCPipelineStatus --------------------------
(* Finite instances of PipelineStatus.                                     *)
EXTENDS PipelineStatus, TLC

Symmetry == Permutations(Handlers) \cup Permutations(Searches)
=============================================================================
