--------------------------- MODULE MCRoomTurnJobs ---------------------------
EXTENDS RoomTurnJobs, TLC
CONSTANTS w1, w2
MCRoomOf == [j \in Jobs |-> CHOOSE r \in Rooms : TRUE]
MCProcessOf == [w \in Workers |-> w]
Replicas == Permutations(Workers)
=============================================================================
