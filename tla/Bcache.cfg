SPECIFICATION Spec
CONSTANTS
    NBUF = 2
    Blocks = {0, 1, 2}
    Users = {u1, u2, u3}
    MaxChanges = 3
SYMMETRY UserSymmetry
INVARIANTS
    OneBufPerBlock
    RefExact
    SeesWrites
PROPERTY
    NoWriteUndone
CHECK_DEADLOCK FALSE
