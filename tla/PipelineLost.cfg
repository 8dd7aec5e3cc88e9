SPECIFICATION FairSpec
CONSTANTS
    Msgs <- ThreeMsgs
    Dispatchers = {d1}
    Requests = {r1}
    Environments <- FaultlessReprocess
    MaxFaults = 0
CHECK_DEADLOCK FALSE
PROPERTIES
    BookSettles
