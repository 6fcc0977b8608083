SPECIFICATION FairSpec
CONSTANTS
    Procs = {p1, p2}
    Bufs = {b1, b2}
    Wild = {w}
    Room <- MCRoom
    Sizes = {0, 2, 3}
    FIFO = 1
    MaxTyped = 2
    NULL = NULL
INVARIANTS
    PendingLine
    StoresInside
PROPERTY ReadReturns
CHECK_DEADLOCK FALSE
