-------------------------------- MODULE MCPages --------------------------------
(* The pages, two of everything. *)
EXTENDS Pages, TLC

Symmetry == Permutations(Accounts) \cup Permutations(Contacts)
=============================================================================
