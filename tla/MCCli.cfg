CONSTANTS
    MaxCommands = 4
    NoCall = NoCall
SPECIFICATION FairSpec
INVARIANTS
    TypeOK
    ExitTells
    CertificateFitsUrl
PROPERTIES
    EndsUnlessItHangs
CHECK_DEADLOCK FALSE
