SPECIFICATION FairSpec
CONSTANTS
    NQUEUE = 6
    IdxMod = 12
    t1 = t1
    t2 = t2
    t3 = t3
    Threads <- ThreeThreads
    BufOf <- MCBufOf
INVARIANTS
    TypeOK
    FreeListSound
    ReturnsServed
PROPERTY
    OpReturns
CHECK_DEADLOCK FALSE
