SPECIFICATION Spec
CONSTANTS
    NPROC = 3
    CPUs = {0, 1}
    Calls = {"fork", "exit", "wait", "kill", "clone", "waitpid", "fault", "abort", "other"}
    InitCalls = {"fork", "wait"}
    NREQ = 0
    OOM = TRUE
    MaxPid = 3
INVARIANTS
    StackSafe
    NoOrphan
    NoLostWait
    NoPanic
    SchedInv
CHECK_DEADLOCK FALSE
