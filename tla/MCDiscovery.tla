----------------------------- MODULE MCDiscovery -----------------------------
(* Finite instances of Discovery.                                          *)
EXTENDS Discovery, TLC

Symmetry == Permutations(Products) \cup Permutations(Replicas)
=============================================================================
