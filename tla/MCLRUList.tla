----------------------------- MODULE MCLRUList -----------------------------
(***************************************************************************)
(* Instances of LRUList for TLC.                                           *)
(***************************************************************************)
EXTENDS LRUList, TLC

\* Accounts and connections are only compared.
Symmetry == Permutations(Keys) \union Permutations(Conns)
=============================================================================
