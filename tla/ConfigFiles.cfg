\* Two threads and others change the ssh config files.
SPECIFICATION ConfigSpec
CONSTANTS
    Alias = {a, b}
    NoAlias = NoAlias
    MaxEvents = 3
SYMMETRY AliasSymmetry
INVARIANTS
    ConfigTypeOK
    HostsAreKept
    ChangesAreUsed
    FilesAreAccepted
\* Every operation ends.
CHECK_DEADLOCK FALSE
