--------------------------- MODULE MCPackLibrary ---------------------------
EXTENDS PackLibrary, TLC
Requests == Permutations(Handlers) \cup Permutations(Campaigns)
=============================================================================
