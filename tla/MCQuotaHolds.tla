---------------------------- MODULE MCQuotaHolds ----------------------------
EXTENDS QuotaHolds, TLC
CONSTANTS g1, g2
MCGranted == [g \in Grants |-> IF g = g1 THEN 3 ELSE 2]
MCStart == [g \in Grants |-> IF g = g1 THEN 0 ELSE 1]
MCEnd == [g \in Grants |-> IF g = g1 THEN 2 ELSE 4]
MCOrder == [g \in Grants |-> IF g = g1 THEN 1 ELSE 2]
Sessions == Permutations(Attempts) \cup Permutations(Messages)
=============================================================================
