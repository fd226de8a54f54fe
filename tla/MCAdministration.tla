-------------------------- MODULE MCAdministration --------------------------
(* Model values of Administration: accounts are interchangeable.            *)
EXTENDS Administration, TLC

Symmetry == Permutations(Users)
=============================================================================
