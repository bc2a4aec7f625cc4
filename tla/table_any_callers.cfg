SPECIFICATION Spec
CONSTANTS
    h1 = h1
    h2 = h2
    h3 = h3
    NULL = NULL
    SpaceStride = 4
    KeyWord = 16
    VersionWord = 3
    Hosts <- MCHosts3
    Pages <- MCTwoPages
    CallerTypes <- MCReadWrite
    Disciplined = FALSE
SYMMETRY MCSymmetry3
INVARIANTS
    TypeOK
    LockedHasHolder
    HoldersExact
PROPERTY FreshVersionPerWrite
