CONSTANTS
    HeaderLen = 2
    Base = 3
    Bodies <- ShortBodies
    MaxFrames = 3
SPECIFICATION FairSpec
INVARIANTS
    TypeOK
    FramesArrive
PROPERTIES
    LoopEnds
CHECK_DEADLOCK FALSE
