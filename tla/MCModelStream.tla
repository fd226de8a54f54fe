---------------------------- MODULE MCModelStream ----------------------------
EXTENDS ModelStream

MCSymmetry == Permutations(CallIds) \cup Permutations(SearchIds) \cup Permutations(Arguments)
=============================================================================
