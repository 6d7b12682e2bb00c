CONSTANTS
    Uuid = {u1, u2}
    Op = {o1, o2}
    Run = {r1, r2}
    None = None
    MaxRename = 1
SPECIFICATION Spec
SYMMETRY Symmetry
CHECK_DEADLOCK FALSE
INVARIANTS
    TypeOK
    OneLivePerConversation
    ExclusiveUse
    ForgottenStaysForgotten
    NamesAgree
    ReservationHeld
