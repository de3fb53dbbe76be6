CONSTANTS
    c1 = c1
    c2 = c2
    n1 = n1
    n2 = n2
    none = none
    Calls <- TwoCalls
    Notices <- TwoNotices
    Handshakes <- CallAndNotice
    Repeated <- OneCall
    NoCall = none
SPECIFICATION FairSpec
PROPERTIES
    EveryCallReturns
CHECK_DEADLOCK FALSE
