CONSTANTS
    Req = {q1, q2}
    Aux = {}
    None = None
    MaxEpoch = 2
    MaxTyped = 1
    LateKeys = FALSE
SPECIFICATION Spec
SYMMETRY Symmetry
CHECK_DEADLOCK FALSE
INVARIANTS
    TypeOK
    OnlyDraftsOnce
    OutcomesTrue
PROPERTIES
    NativeTextKept
