CONSTANTS
    Guis = {g1, g2, g3}
    MaxStarts = 4
SPECIFICATION FairSpec
INVARIANTS
    TypeOK
    OneMaker
PROPERTIES
    CertificateIsKept
    FileIsCompleted
CHECK_DEADLOCK FALSE
