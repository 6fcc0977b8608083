SPECIFICATION Spec
CONSTANTS
    Procs = {p1, p2}
    First = p1
    NCPU = 2
    NFILE = 2
    NOFILE = 2
    Inodes = {1}
    Dirs = {}
    Modes <- MCModes
    MaxOff = 1
INVARIANTS
    NoLeak
    DescriptorSound
VIEW FileView
CHECK_DEADLOCK FALSE
