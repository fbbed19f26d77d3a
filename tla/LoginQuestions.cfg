\* Three connections of a tab, with what ssh asks.
SPECIFICATION LoginSpec
CONSTANTS
    Own = Own
    Other = Other
    MaxAttempts = 3
    MaxLoginActs = 2
INVARIANTS
    LoginTypeOK
    OnceIsForgotten
PROPERTIES
    RefusedIsLeft
\* The tab is closed, or its attempts are used up.
CHECK_DEADLOCK FALSE
