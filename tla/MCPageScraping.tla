--------------------------- MODULE MCPageScraping ---------------------------
(* Finite instances of PageScraping.                                       *)
EXTENDS PageScraping
=============================================================================
