--------------------------- MODULE MCAgentRuntime ---------------------------
(* Instances of AgentRuntime for TLC. *)
EXTENDS AgentRuntime, TLC

CONSTANTS r1, p1, p2, c1, c2

Symmetry == Permutations(Runners) \cup Permutations(Clients)
=============================================================================
