CONSTANTS
    Opens = {o1, o2}
    Prints = {f1, f2}
    Passwords = {p1, p2}
    None = none
    MaxClicks = 2
SPECIFICATION FairSpec
INVARIANTS
    TypeOK
    OnlyTrustedServers
    SavesWhatWorked
    NothingLeftOver
PROPERTIES
    OpensEnd
CHECK_DEADLOCK FALSE
