\* The same system under the fairness of its threads, with a tab restored.
SPECIFICATION FairSpec
CONSTANTS
    MaxAttempt = 1
    MaxBreaks = 1
    MaxCrashes = 0
    MaxActs = 1
    MaxRestores = 1
    LoginCommand = TRUE
    KillCode = "status"
    LateSignals = FALSE
PROPERTIES
    LostConnectIsToldAgain
    CloseIsObeyed
CHECK_DEADLOCK FALSE
