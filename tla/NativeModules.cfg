SPECIFICATION FairSpec
CONSTANTS
    a = a
    b = b
    c = c
    game = game
    Loose = Loose
    None = None
    Modules = {a, b, c}
    Copies <- MCCopies
    OpenFaulty <- MCOpenFaulty
    CloseFaulty <- MCCloseFaulty
    NameLen <- MCNameLen
    BLOCKED_MAX = 13
    NATIVE_MAX = 2
    MaxCuts = 2
    FaultCap = 4
INVARIANTS
    
    InnocentNotBlocked
    NearestWins
    WordsLive
 
