SPECIFICATION Spec
CONSTANTS
    TICKS = 8
    BLINK = 1
    SETTLE = 2
    OFF = 5
    WARN = 2
    NOPAD = 3
    MINUTE = 2
    Folders <- MCFolders
    WATCH_SUBS = 1
    MaxPresses = 3
    MaxLanded = 2
INVARIANTS
    SaysSoFirst

    
    
CHECK_DEADLOCK FALSE
