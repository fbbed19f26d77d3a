SPECIFICATION FairSpec
CONSTANTS
    MaxAttempt = 4
    Tries = 2
    MaxBreaks = 1
    MaxActs = 1
    PreconnectMayStop = TRUE
INVARIANTS
    TypeOK
    RetriesBoundedUnlessStopped
PROPERTIES
    OnlyDropsAreFollowed
    EndsAreFollowedUp
CHECK_DEADLOCK FALSE
