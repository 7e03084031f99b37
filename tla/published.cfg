SPECIFICATION Spec
CONSTANTS
    r1 = r1
    Releases = {r1}
    Soul = r1
    Handlers = {h1, h2}
    Campaigns = {c1}
    MaxAssignments = 2
    MaxFaults = 0
    Nobody = Nobody
SYMMETRY Servers
INVARIANT
    PublishedStays
CHECK_DEADLOCK FALSE
