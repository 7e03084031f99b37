SPECIFICATION Spec
CONSTANTS
    Jobs = {j1}
    Rooms = {r1}
    RoomOf <- MCRoomOf
    w1 = w1
    w2 = w2
    Workers = {w1, w2}
    Processes = {w1, w2}
    ProcessOf <- MCProcessOf
    Calls = {}
    Hosts = {}
    Nobody = Nobody
    Departed = Departed
    NoJob = NoJob
    MaxAttempts = 3
    PerRoom = 1
    MaxHandoffs = 0
    Reserved = 1
    MaxTokens = 2
    MaxCrashes = 0
    MaxOutages = 0
    Stalls = FALSE
SYMMETRY Replicas
PROPERTIES
    SavedResultIsReused
\* A queue with every turn ended and every bound spent has nothing left to do.
CHECK_DEADLOCK FALSE
