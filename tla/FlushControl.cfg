SPECIFICATION Spec
CONSTANTS
    Threads = {t1, t2}
    Flusher = flusher
    MaxDWPTs = 3
    MaxCalls = 4
    MayFail = TRUE
    MaxFullFlushes = 2
    Rollbacks = TRUE
    RamBuffer = 2
    HardMax = 2
    MaxBufferedDocs = 0
    Granularity = 1
    None = None
SYMMETRY Symmetry
INVARIANTS
    Accounted
    OneFlushEach
    NoIndexingWhileFlushed
    OldGenerationFlushed
    NoOtherPanic
    RollbackDrains
CHECK_DEADLOCK FALSE
