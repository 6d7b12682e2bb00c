CONSTANTS
    Agent = {a1, a2}
    None = None
    MaxRecords = 1
    MaxEvents = 4
    MaxLost = 1
    Known = FALSE
    MaxStuck = 1
SPECIFICATION Spec
SYMMETRY Symmetry
CHECK_DEADLOCK FALSE
INVARIANTS TypeOK ActivityAgrees
PROPERTIES OnlyOwnRunEnds
