-------------------------- MODULE MCProviderBudget --------------------------
EXTENDS ProviderBudget, TLC
CONSTANTS c1, c2, c3, t1, t2, u1, g1
MCTaskOf == c1 :> t1 @@ c2 :> t1 @@ c3 :> t2
MCPayerOf == [t \in Tasks |-> u1]
MCCampaignOf == [t \in Tasks |-> g1]
MCWorst == [c \in Calls |-> 1]
Shells == Permutations(Handlers)
=============================================================================
