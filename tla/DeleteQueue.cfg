SPECIFICATION BoundedSpec
CONSTANTS
    Writers = {w1, w2}
    Deleters = {d1}
    Flusher = flusher
    MaxNodes = 3
    MaxDocs = 2
    TakeBound = 3
    MaxSeqNo = 1000
    None = None
SYMMETRY Symmetry
INVARIANTS
    ListOK
    SerializedBySeqNo
    ExactlyOnce
    NoPanic
    NothingLostAtClose
CHECK_DEADLOCK FALSE
PROPERTIES
    AbortDropsAll
