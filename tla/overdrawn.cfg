SPECIFICATION Spec
CONSTANTS
    g1 = g1
    g2 = g2
    Messages = {m1, m2}
    Attempts = {a1, a2}
    Grants = {g1}
    Granted <- MCGranted
    Start <- MCStart
    End <- MCEnd
    Order <- MCOrder
    Hold = 2
    TTL = 2
    CallTime = 1
    Tokens = {1, 3}
    MaxTime = 1
    MaxDeaths = 1
    None = None
SYMMETRY Sessions
PROPERTIES
    NeverOverAllocated
CHECK_DEADLOCK FALSE
