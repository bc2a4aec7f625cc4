SPECIFICATION Spec
CONSTANTS
    a = a
    b = b
    c = c
    Threads <- MCThreads2
    Roles <- MCReaderWriter
    Rounds = 1
CHECK_DEADLOCK FALSE
INVARIANT PositiveMeansReader
