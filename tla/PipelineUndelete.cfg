SPECIFICATION Spec
CONSTANTS
    Msgs <- OneMsg
    Dispatchers = {d1}
    Requests = {r1}
    Environments <- FaultlessUpdate
    MaxFaults = 0
CHECK_DEADLOCK FALSE
PROPERTIES
    DeletedStaysDeleted
