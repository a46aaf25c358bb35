--------------------------- MODULE MCProductPage ----------------------------
(* Finite instances of ProductPage.                                        *)
EXTENDS ProductPage
=============================================================================
