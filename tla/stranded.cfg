SPECIFICATION FairSpec
CONSTANTS
    Jobs = {j1}
    Rooms = {r1}
    RoomOf <- MCRoomOf
    w1 = w1
    w2 = w2
    Workers = {w1, w2}
    Processes = {w1, w2}
    ProcessOf <- MCProcessOf
    Calls = {c1}
    Hosts = {}
    Nobody = Nobody
    Departed = Departed
    NoJob = NoJob
    MaxAttempts = 2
    PerRoom = 1
    MaxHandoffs = 1
    Reserved = 1
    MaxTokens = 2
    MaxCrashes = 1
    MaxOutages = 0
    Stalls = FALSE
PROPERTIES
    EveryTurnEnds
\* A queue with every turn ended and every bound spent has nothing left to do.
CHECK_DEADLOCK FALSE
