CONSTANTS
    none = none
    k = k
    o1 = o1
    o2 = o2
    Servers <- ThreeServers
    Announced <- AnnouncedServers
    Keys <- OneKey
    NoKey = none
    Idle = idle
    Absent = absent
    Broken = broken
    Opens <- TwoOpens
    MaxFailures = 1
    MaxListed = 1
SPECIFICATION Spec
SYMMETRY OpensAlike
INVARIANTS
    TypeOK
    SavedOnce
    RowsStayAligned
    EveryServiceListed
    FileIsCurrent
PROPERTIES
    OnlyForgetForgets
    RowsFallBehindByFailure
