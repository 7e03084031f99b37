SPECIFICATION Spec
CONSTANTS
    MaxRuns = 2
    Workers = {w1, w2}
    Handlers = {h1}
    MaxAttempts = 1
    Reservation = 1
    Tokens = {2}
    Budget = 3
    Atomic = TRUE
    Slow = FALSE
    MaxUploads = 1
    MaxCrashes = 1
    MaxPartials = 0
SYMMETRY Processors
CHECK_DEADLOCK FALSE
INVARIANTS
    NotStranded
    CancelIsHonoured
