SPECIFICATION FairSpec
CONSTANTS
    MaxRuns = 1
    Workers = {w1}
    Handlers = {h1}
    MaxAttempts = 2
    Reservation = 1
    Tokens = {1, 2}
    Budget = 3
    Atomic = FALSE
    Slow = FALSE
    MaxUploads = 0
    MaxCrashes = 1
    MaxPartials = 2
CHECK_DEADLOCK FALSE
INVARIANTS
    UsedIsDecided
    MoneyAgrees
PROPERTIES
    EveryRunEnds
