SPECIFICATION Spec
CONSTANTS
    Msgs <- ThreeMsgs
    Dispatchers = {d1}
    Requests = {r1}
    Environments <- Everything
    MaxFaults = 1
CHECK_DEADLOCK FALSE
INVARIANTS
    OneRunIndexed
    ReadyIsIndexed
PROPERTIES
    ReadyUntilReprocessed
