\* Two machines with a data directory on a share.
SPECIFICATION Spec
CONSTANTS
    Machines = {m1, m2}
    Dirs = {first, second, third}
    MaxChoices = 1
    MaxStarts = 3
    MaxActs = 2
SYMMETRY Symmetry
INVARIANTS
    TypeOK
    OneHolder
    ChosenIsKept
\* The starts are used up.
CHECK_DEADLOCK FALSE
