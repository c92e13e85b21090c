SPECIFICATION FairSpec
CONSTANTS
    Threads = {t1, t2, t3}
    Flusher = flusher
    MaxDWPTs = 3
    MaxCalls = 5
    MayFail = TRUE
    MaxFullFlushes = 0
    Rollbacks = FALSE
    RamBuffer = 1
    HardMax = 4
    MaxBufferedDocs = 0
    Granularity = 2
    None = None
PROPERTIES
    StallEnds
CHECK_DEADLOCK FALSE
