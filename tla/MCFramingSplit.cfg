CONSTANTS
    HeaderLen = 2
    Base = 3
    Bodies <- ShortBodies
    MaxFrames = 3
SPECIFICATION Spec
INVARIANTS
    CutsAreInvisible
CHECK_DEADLOCK FALSE
