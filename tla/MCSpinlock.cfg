SPECIFICATION Spec
CONSTANTS
    CPUs = {0, 1}
    Locks = {1, 2}
INVARIANTS
    MutualExclusion
    NoPanic
    IrqMaskedWhileHeld
    IrqRestored
    NoLostEvent
PROPERTY
    ImplementsLock
