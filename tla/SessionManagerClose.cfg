CONSTANTS
    Session = {s1}
    None = None
    MaxInput = 0
SPECIFICATION Spec
CHECK_DEADLOCK FALSE
INVARIANT CloseRequestsTermination
