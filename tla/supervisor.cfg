SPECIFICATION Spec
CONSTANTS
    Keys = {k1, k2}
    Requests = {r1, r2}
    Terminals = {TRUE, FALSE}
    Limits = {1, 2}
    SpawnConcurrency = 1
    MaxWorkspaces = 2
    PortCount = 2
    MaxSpawns = 2
    MaxDeaths = 1
    MaxRestarts = 1
SYMMETRY Interchangeable
INVARIANTS
    PoolBounded
    EveryProcessIsOwned
    NobodyStuck
PROPERTIES
    CleanupSparesWorkers
CHECK_DEADLOCK FALSE
