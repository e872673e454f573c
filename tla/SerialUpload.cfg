SPECIFICATION FairSpec
CONSTANTS
    f = f
    g = g
    h = h
    p = p
    q = q
    app = app
    None = None
    Files = {f, g, h}
    Size <- MCSize
    SIZE_MAX = 2
    Paths = {p, q}
    Folders = {app}
    FolderOf <- MCFolderOf
    Batches <- MCBatches
    BOOT_TRIES = 2
    MaxCalls = 2
    MaxMishaps = 2
INVARIANTS
    SaidIsSo
PROPERTIES
    
    AlwaysBack
CHECK_DEADLOCK FALSE
