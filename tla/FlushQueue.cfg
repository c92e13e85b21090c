SPECIFICATION Spec
CONSTANTS
    Threads = {t1, t2, t3}
    MaxTickets = 3
    FlushMayFail = TRUE
    PublishMayFail = TRUE
    None = None
INVARIANTS
    TypeOK
    CountCoversQueue
    PublishedInOrder
PROPERTIES
    ImplementsTicketOrder
SYMMETRY Symmetry
CHECK_DEADLOCK FALSE
