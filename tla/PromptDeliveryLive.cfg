CONSTANTS
    Req = {q1, q2}
    Aux = {a1}
    None = None
    MaxEpoch = 1
    MaxTyped = 0
    LateKeys = FALSE
SPECIFICATION FairSpec
CHECK_DEADLOCK FALSE
PROPERTIES
    SubmissionSettles
