----------------------------- MODULE MCKnowledge -----------------------------
(* Small instances of the knowledge governance.                            *)
EXTENDS Knowledge, TLC

Symmetry == Permutations(Contents) \cup Permutations(Workers)
=============================================================================
