--------------------------- MODULE MCAgentSession ---------------------------
(* AgentSession for TLC: requests are interchangeable model values. *)
EXTENDS AgentSession, TLC

Symmetry == Permutations(Requests)
=============================================================================
