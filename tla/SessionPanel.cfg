CONSTANTS
    Session = {s1, s2}
    Uuid = {1, 2}
    None = None
    Beginnings <- MCBeginnings
    PageLimit = 1
    MaxOutput = 1
    MaxDocument = 2
    MaxEvents = 2
SPECIFICATION Spec
SYMMETRY Symmetry
CHECK_DEADLOCK FALSE
INVARIANTS
    TypeOK
    OfferedOnlyKnown
    PanelAgrees
