\* Two transfers of a folder of two files, one after the other.
SPECIFICATION FairSpec
CONSTANTS
    Files = 2
    Jobs = 2
    MaxWidth = 2
    StartWidth = 2
    Ways = {"download", "upload", "old upload"}
    Chunks = 2
    Absent = Absent
    Overlap = FALSE
    ChangePlanned = FALSE
    MaxChanges = 1
    MaxActs = 1
    MaxFaults = 1
INVARIANTS
    TypeOK
    NothingIsSkipped
PROPERTIES
    PartialNeverLooksReal
    EveryRunEnds
\* The jobs come to their ends.
CHECK_DEADLOCK FALSE
