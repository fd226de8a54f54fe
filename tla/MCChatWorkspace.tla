-------------------------- MODULE MCChatWorkspace --------------------------
(***************************************************************************)
(* ChatWorkspace with two conversations, one file and two questions.          *)
(***************************************************************************)
EXTENDS ChatWorkspace, TLC

CONSTANTS c1, c2, f1

MCConversations == {c1, c2}
MCFiles == {f1}

\* Conversations are interchangeable.
MCSymmetry == Permutations(MCConversations)
=============================================================================
