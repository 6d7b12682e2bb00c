SPECIFICATION Spec
CONSTANTS
    Uuid = {u1, u2}
    None = None
    MaxTyped = 2
    MaxOpen = 2
    LateSaves = FALSE
SYMMETRY Symmetry
INVARIANTS TypeOK SavedSurvives NoSecondCopy
PROPERTY DraftsKept
CHECK_DEADLOCK FALSE
