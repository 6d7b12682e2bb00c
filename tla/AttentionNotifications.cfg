CONSTANTS
    Session = {s1, s2}
    Helper = {h1, h2, h3}
    MaxToasts = 3
    MaxRegistrations = 2
    MaxCallbacks = 1
    None = None
    Stopping = Stopping
SPECIFICATION Spec
SYMMETRY Symmetry
CHECK_DEADLOCK FALSE
INVARIANTS
    TypeOK
    NothingLeftBehind
    ToastsSelectable
