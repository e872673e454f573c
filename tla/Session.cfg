SPECIFICATION Spec
CONSTANTS
    p = p
    Plain = {p}
    Long = Long
    Cut = Cut
    Array = Array
    Unreadable = Unreadable
    SESSION_MAX = 2
    StartupCalls = TRUE
    MaxDepth = 2
    MaxMishaps = 1
INVARIANTS
    RestoredExact
    RightDepth
