------------------------------ MODULE MCAccounts ------------------------------
EXTENDS Accounts, TLC

(* Accounts and workers are interchangeable.                               *)
Symmetry == Permutations(Subjects) \cup Permutations(Workers)
=============================================================================
