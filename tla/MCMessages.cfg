CONSTANTS
    null = null
    raised = raised
    IntBytes = 2
    Names <- AllNames
    Depth = 6
    Typed <- AllTyped
    ValuesOf <- Tried
    New = "new"
    Null = null
    Raised = raised
SPECIFICATION MSpec
INVARIANTS
    RoundTrip
    CallsGetThrough
    NoticesGetThrough
CHECK_DEADLOCK FALSE
