SPECIFICATION FairSpec
CONSTANTS
    Msgs <- OneMsg
    Dispatchers = {d1, d2}
    Requests = {}
    Environments <- OneUpload
    MaxFaults = 2
CHECK_DEADLOCK FALSE
INVARIANTS
    QueuedHasWork
PROPERTIES
    OutboxDelivers
    BookSettles
