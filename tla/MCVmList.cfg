CONSTANTS
    v1 = v1
    v2 = v2
    l1 = l1
    l2 = l2
    l3 = l3
    l4 = l4
    VMs <- TwoVMs
    Stopped = stopped
    States = {stopped, started}
    NoVM = none
    Listings <- FourListings
    First = l1
    MaxChanges = 3
SPECIFICATION Spec
SYMMETRY Alike
INVARIANTS
    TypeOK
    ButtonsFit
    ShowsTheTruth
CHECK_DEADLOCK FALSE
