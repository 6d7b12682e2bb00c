CONSTANTS
    Conv = {c1, c2}
    None = None
    MaxPieces = 2
    MaxEvents = 3
    MaxUp = 2
SPECIFICATION Spec
SYMMETRY Symmetry
INVARIANTS TypeOK TextSurvives ViewAgrees
CHECK_DEADLOCK FALSE
