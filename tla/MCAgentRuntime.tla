--------------------------- MODULE MCAgentRuntime ---------------------------
EXTENDS AgentRuntime, TLC
Symmetry == Permutations(Requests) \cup Permutations(Approvals)
=============================================================================
