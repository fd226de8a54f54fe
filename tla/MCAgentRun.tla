----------------------------- MODULE MCAgentRun -----------------------------
(* Model values of AgentRun: handlers and client requests are               *)
(* interchangeable.                                                         *)
EXTENDS AgentRun, TLC

Symmetry == Permutations(Handlers) \cup Permutations(Keys)
=============================================================================
