-------------------------- MODULE MCCampaignAccess --------------------------
EXTENDS CampaignAccess, TLC
Servers == Permutations(Handlers)
=============================================================================
