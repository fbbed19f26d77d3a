SPECIFICATION QueueFairSpec
CONSTANTS
    Sessions = {s1, s2}
    NoSession = NoSession
    MaxConnecting = 1
    MaxEvents = 1
INVARIANT QueueTypeOK
INVARIANT LoginsBounded
PROPERTY EverySessionIsTold
CHECK_DEADLOCK FALSE
