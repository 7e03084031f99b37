SPECIFICATION Spec
CONSTANTS
    Keys = {k1, k2}
    Requests = {r1, r2}
    Terminals = {TRUE, FALSE}
    Limits = {2}
    SpawnConcurrency = 1
    MaxWorkspaces = 2
    PortCount = 2
    MaxSpawns = 2
    MaxDeaths = 0
    MaxRestarts = 0
SYMMETRY Interchangeable
INVARIANTS
    NoneForgotten
CHECK_DEADLOCK FALSE
