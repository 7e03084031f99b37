--------------------------- MODULE MCModuleStudio ---------------------------
EXTENDS ModuleStudio, TLC
Processors == Permutations(Workers)
=============================================================================
