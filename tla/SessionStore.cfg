SPECIFICATION FairSpec
CONSTANTS
    MaxTabs = 4
    MaxStarts = 2
    MaxEvents = 1
    MaxActs = 1
    MaxRestores = 1
INVARIANT TypeOK
INVARIANT RecordsAgree
PROPERTY NoSecondTab
PROPERTY NoSecondCopyLater
CHECK_DEADLOCK FALSE
