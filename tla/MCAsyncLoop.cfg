CONSTANTS
    Runs = {r1, r2, r3}
    Reports = {p1}
    MaxAsks = 1
SPECIFICATION FairSpec
INVARIANTS
    TypeOK
    OneContinuation
    NoMessageOutlivesItsTask
PROPERTIES
    ImplementsBar
    TasksFinish
CHECK_DEADLOCK FALSE
