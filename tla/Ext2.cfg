SPECIFICATION Spec
CONSTANTS
    BSIZE = 60
    NDIRECT = 2
    NINODE = 3
    DIRENT_NAME_MAX = 5
    NBLOCK = 17
    NINUM = 6
    Image <- MCImage
    Indirect <- MCIndirect
    StrLen <- MCStrLen
    Paths <- MCPaths
    Writes <- MCWrites
    Offs = {0, 56, 60, 120}
    Sizes = {8, 60}
    Programs = {4}
    Procs = {p1}
INVARIANTS
    TreeSound
    BlocksOwned
    DiskCurrent
    MadeIsFound
    WriteStores
