SPECIFICATION Spec
CONSTANTS
    a = a
    b = b
    c = c
    Threads <- MCThreads3
    Roles <- MCAllWriters
    Rounds = 3
CHECK_DEADLOCK FALSE
SYMMETRY MCSymmetry3
INVARIANT
    SignalExact
