SPECIFICATION FairSpec
CONSTANTS
    MaxTabs = 3
    MaxStarts = 1
    MaxEvents = 1
    MaxActs = 0
    MaxRestores = 1
PROPERTY NoneIsLeftWaiting
CHECK_DEADLOCK FALSE
