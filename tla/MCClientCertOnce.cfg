CONSTANTS
    Guis = {g1}
    MaxStarts = 3
SPECIFICATION Spec
INVARIANTS
    StartedOnceHasCertificate
CHECK_DEADLOCK FALSE
