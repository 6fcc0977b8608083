SPECIFICATION Spec
CONSTANTS
    MaxAddr = 15
    MaxUnits = 5
    MINALLOC = 4
INVARIANTS
    HeapPartition
    ListSorted
VIEW HeapView
CHECK_DEADLOCK FALSE
