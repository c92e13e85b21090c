SPECIFICATION FairSpec
CONSTANTS
    Threads = {t1, t2}
    MaxTickets = 3
    FlushMayFail = TRUE
    PublishMayFail = FALSE
    None = None
INVARIANTS
    NoDoublePublish
PROPERTIES
    EveryTicketPublished
