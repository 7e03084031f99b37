SPECIFICATION Spec
CONSTANTS
    MaxRuns = 2
    Workers = {w1}
    Handlers = {h1}
    MaxAttempts = 1
    Reservation = 1
    Tokens = {2}
    Budget = 3
    Atomic = TRUE
    Slow = FALSE
    MaxUploads = 0
    MaxCrashes = 0
    MaxPartials = 0
CHECK_DEADLOCK FALSE
PROPERTY FinalizedWasReviewed
