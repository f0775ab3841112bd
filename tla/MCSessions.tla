------------------------------ MODULE MCSessions ------------------------------
(* Small instance of Sessions.  Subjects are interchangeable.              *)
EXTENDS Sessions, TLC

Symmetry == Permutations(Subjects) \cup Permutations(Tenants)
=============================================================================
