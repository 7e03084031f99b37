SPECIFICATION Spec
CONSTANTS
    Handlers = {h1, h2, h3}
    MaxUses = 1
    MaxJoins = 2
    MaxOps = 6
    MaxFaults = 1
    Nobody = Nobody
SYMMETRY Servers
INVARIANTS
    InviteBound
    FollowsAuthority
    PanelIsCurrent
PROPERTIES
    DecidedOnce
CHECK_DEADLOCK FALSE
