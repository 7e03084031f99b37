SPECIFICATION Spec
CONSTANTS
    Handlers = {h1, h2}
    MaxUses = 1
    MaxJoins = 2
    MaxOps = 6
    MaxFaults = 0
    Nobody = Nobody
SYMMETRY Servers
INVARIANTS
    RemovedIsRemoved
CHECK_DEADLOCK FALSE
