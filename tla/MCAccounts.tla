----------------------------- MODULE MCAccounts -----------------------------
(* Finite instances of Accounts.                                           *)
EXTENDS Accounts, TLC

Symmetry == Permutations(Users) \cup Permutations(Companies) \cup Permutations(Tabs)
=============================================================================
