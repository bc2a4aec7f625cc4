SPECIFICATION Spec
CONSTANTS
    h1 = h1
    h2 = h2
    h3 = h3
    NULL = NULL
    SpaceStride = 4
    KeyWord = 16
    VersionWord = 3
    Hosts <- MCHosts3
    Pages <- MCOnePage
    CallerTypes <- MCReadWrite
    Disciplined = TRUE
INVARIANT CompatibleGrants
