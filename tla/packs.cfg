SPECIFICATION LibrarySpec
CONSTANTS
    p1 = p1
    p2 = p2
    Packs = {p1, p2}
    Presets = {p2}
    Campaigns = {c1, c2}
    Clients = {k1}
    Import = Import
    Handlers = {h1, h2, h3}
    Quota = 3
    FileLimit = 2
    Sizes = {1, 2}
    MaxOps = 4
    MaxFaults = 1
    MaxGenerated = 1
    Nobody = Nobody
SYMMETRY Requests
INVARIANTS
    StorageBounded
    ExchangeIsCleaned
    RowsFollowAuthority
CHECK_DEADLOCK FALSE
