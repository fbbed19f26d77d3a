\* One session: every interleaving of the shim, the link, the login signal, the
\* queue and the person within the bounds below.
SPECIFICATION Spec
CONSTANTS
    MaxAttempt = 2
    MaxBreaks = 2
    MaxCrashes = 1
    MaxActs = 1
    MaxRestores = 0
    LoginCommand = FALSE
    KillCode = "connection"
    LateSignals = FALSE
INVARIANTS
    TypeOK
    ReplayTellsTheTruth
    ViewMatchesReplay
    NoFalseLogin
    NothingUnasked
\* The shim may be gone, and the person may be done.
CHECK_DEADLOCK FALSE
