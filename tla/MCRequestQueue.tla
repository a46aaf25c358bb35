--------------------------- MODULE MCRequestQueue ---------------------------
(* RequestQueue on small sets of model values.                             *)
EXTENDS RequestQueue, TLC

\* Documents, replicas and calls are interchangeable.
Symmetry ==
    Permutations(Requests) \cup Permutations(Workers) \cup Permutations(Calls)
=============================================================================
