------------------------ MODULE MCAgentSupervisor ------------------------
EXTENDS AgentSupervisor, TLC
Interchangeable == Permutations(Keys) \cup Permutations(Requests)
=============================================================================
