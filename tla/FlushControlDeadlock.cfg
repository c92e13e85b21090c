SPECIFICATION FairSpec
CONSTANTS
    Threads = {t1}
    Flusher = flusher
    MaxDWPTs = 1
    MaxCalls = 1
    MayFail = FALSE
    MaxFullFlushes = 1
    Rollbacks = FALSE
    RamBuffer = 2
    HardMax = 4
    MaxBufferedDocs = 0
    Granularity = 1
    None = None
PROPERTIES
    FullFlushEnds
CHECK_DEADLOCK FALSE
