---------------------------- MODULE MCChatStorage ----------------------------
(* Model values of ChatStorage: attachments, completions and worker slots are *)
(* interchangeable.                                                           *)
EXTENDS ChatStorage, TLC

Symmetry == Permutations(Attachments) \cup Permutations(Completers) \cup Permutations(Workers)
=============================================================================
