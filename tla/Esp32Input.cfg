SPECIFICATION FairSpec
CONSTANTS
    a = a
    Keys = {a}
    COLS = 2
    ColumnOf <- MCColumnOf
    RTC_COLUMNS = {0}
    QUEUE_MAX = 2
    DEBOUNCE_SCANS = 2
    IDLE_SCANS = 4
    TEXT_MAX = 2
INVARIANTS
    NotDeaf
    OncePerPress
    NotAsleepOnUpload
PROPERTIES
    PressSeen
    UploadRead
