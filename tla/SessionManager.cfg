CONSTANTS
    Session = {s1, s2}
    None = None
    MaxInput = 2
SPECIFICATION Spec
SYMMETRY Symmetry
CHECK_DEADLOCK FALSE
INVARIANTS
    TypeOK
    NoOrphanProcess
    SelectionLive
    InputInOrder
PROPERTY Lifecycle
