SPECIFICATION Spec
CONSTANTS
    Frames <- MCFrames
    Procs = {p1, p2, p3}
    First = p1
    NENT = 2
    PAGESIZE = 2
    MaxSize = 5
    Programs <- MCPrograms
    Incrs <- MCIncrs
INVARIANTS
    SpaceExact
    FramesOwned
    NoPanic
VIEW MmView
CHECK_DEADLOCK FALSE
