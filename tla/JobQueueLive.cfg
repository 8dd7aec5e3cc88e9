SPECIFICATION FairSpec
CONSTANTS
    j1 = j1
    j2 = j2
    j3 = j3
    b1 = b1
    e1 = e1
    e2 = e2
    w1 = w1
    w2 = w2
    NoJob = NoJob
    NoResource = NoResource
    Jobs <- TwoJobs
    Resources <- OneBook
    Enqueuers <- TwoCalls
    Consumers <- TwoConsumers
    MaxRetries = 2
    MaxFaults = 2
    Faults <- KeepingFaults
INVARIANTS
    NoStrandedJob
PROPERTIES
    JobsSettle
CHECK_DEADLOCK FALSE
