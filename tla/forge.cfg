SPECIFICATION Spec
CONSTANTS
    r1 = r1
    Releases = {r1}
    Soul = r1
    Handlers = {h1, h2}
    Campaigns = {c1}
    MaxAssignments = 2
    MaxFaults = 1
    Nobody = Nobody
SYMMETRY Servers
INVARIANTS
    OnlyReviewedIsPublished
    AcceptedIsGranted
PROPERTIES
    ClosedStaysClosed
CHECK_DEADLOCK FALSE
