\* A file edited here while others save it on the server.
SPECIFICATION EditFairSpec
CONSTANTS
    MaxSaves = 3
    MaxForeign = 2
    MaxFaults = 1
INVARIANTS
    EditTypeOK
PROPERTIES
    ConflictsAreReal
    SavesArrive
\* The edit may be closed.
CHECK_DEADLOCK FALSE
