SPECIFICATION LibrarySpec
CONSTANTS
    p1 = p1
    Packs = {p1}
    Presets = {}
    Campaigns = {c1, c2}
    Clients = {k1}
    Import = Import
    Handlers = {h1, h2}
    Quota = 3
    FileLimit = 2
    Sizes = {1}
    MaxOps = 3
    MaxFaults = 0
    MaxGenerated = 0
    Nobody = Nobody
SYMMETRY Requests
INVARIANTS
    InFlightKeepsItsFile
CHECK_DEADLOCK FALSE
