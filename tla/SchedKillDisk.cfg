SPECIFICATION Spec
CONSTANTS
    NPROC = 3
    CPUs = {0, 1}
    Calls = {"io", "kill"}
    InitCalls = {"fork", "wait"}
    NREQ = 2
    OOM = FALSE
    MaxPid = 3
INVARIANT NeverAlreadyHeld
CHECK_DEADLOCK FALSE
