SPECIFICATION FairSpec
CONSTANTS
    MaxRuns = 1
    Workers = {w1}
    Handlers = {h1}
    MaxAttempts = 2
    Reservation = 1
    Tokens = {1, 2}
    Budget = 3
    Atomic = TRUE
    Slow = FALSE
    MaxUploads = 0
    MaxCrashes = 0
    MaxPartials <- Unlimited
CHECK_DEADLOCK FALSE
PROPERTY EveryRunEnds
