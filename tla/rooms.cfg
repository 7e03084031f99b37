SPECIFICATION FairSpec
CONSTANTS
    Jobs = {j1, j2}
    Rooms = {r1}
    RoomOf <- MCRoomOf
    w1 = w1
    w2 = w2
    Workers = {w1, w2}
    Processes = {w1, w2}
    ProcessOf <- MCProcessOf
    Calls = {}
    Hosts = {}
    Nobody = Nobody
    Departed = Departed
    NoJob = NoJob
    MaxAttempts = 1
    PerRoom = 1
    MaxHandoffs = 0
    Reserved = 1
    MaxTokens = 0
    MaxCrashes = 1
    MaxOutages = 1
    Stalls = FALSE
INVARIANTS
    LeaseLimit
PROPERTIES
    EveryTurnEnds
\* A queue with every turn ended and every bound spent has nothing left to do.
CHECK_DEADLOCK FALSE
