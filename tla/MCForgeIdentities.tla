------------------------- MODULE MCForgeIdentities -------------------------
EXTENDS ForgeIdentities, TLC
Servers == Permutations(Handlers) \cup Permutations(Campaigns)
=============================================================================
