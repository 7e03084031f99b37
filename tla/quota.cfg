SPECIFICATION Spec
CONSTANTS
    g1 = g1
    g2 = g2
    Messages = {m1, m2}
    Attempts = {a1, a2}
    Grants = {g1, g2}
    Granted <- MCGranted
    Start <- MCStart
    End <- MCEnd
    Order <- MCOrder
    Hold = 2
    TTL = 2
    CallTime = 1
    Tokens = {0, 1, 3}
    MaxTime = 3
    MaxDeaths = 1
    None = None
SYMMETRY Sessions
INVARIANTS
    AnsweredIsCharged
    FinishedHoldsNothing
PROPERTIES
    LocksKeepTheBalance
CHECK_DEADLOCK FALSE
