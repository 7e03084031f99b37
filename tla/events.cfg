SPECIFICATION Spec
CONSTANTS
    PageSize = 2
    MaxEvents = 4
    MaxLosses = 1
    MaxDrops = 1
INVARIANTS
    Numbered
    ActivityEndsOnce
    WakeSurvives
PROPERTIES
    KeepsFeed
CHECK_DEADLOCK FALSE
