SPECIFICATION FairSpec
CONSTANTS
    NPROC = 3
    CPUs = {0, 1}
    Calls = {"fork", "exit", "wait"}
    InitCalls = {"fork", "wait"}
    NREQ = 0
    OOM = FALSE
    MaxPid = 3
PROPERTIES
    NoStarvation
    ZombieReaped
