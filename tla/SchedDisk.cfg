SPECIFICATION FairSpec
CONSTANTS
    NPROC = 3
    CPUs = {0, 1}
    Calls = {"io"}
    InitCalls = {"fork", "wait"}
    NREQ = 2
    OOM = FALSE
    MaxPid = 3
INVARIANTS
    NoLostCompletion
    CliBalanced
    LockDiscipline
PROPERTY DiskOpReturns
