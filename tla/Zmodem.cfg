SPECIFICATION FairSpec
CONSTANTS
    Files = 2
    Chunks = 2
    Absent = Absent
    Nudge = 1
    GiveUp = 2
    DrainAtMost = 1
    Window = 2
    MaxTransfers = 2
    MaxChanges = 1
    MaxActs = 1
    MaxFaults = 1
INVARIANT TypeOK
INVARIANT NamedAreWhole
INVARIANT TerminalStaysClean
PROPERTY SessionComesBack
CHECK_DEADLOCK FALSE
