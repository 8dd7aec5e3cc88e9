SPECIFICATION Spec
CHECK_DEADLOCK FALSE
CONSTANTS
    EvalKeys = {"k1", "k2"}
    Fingerprints = {"f1"}
    Runs = {1, 2}
    EvalCalls = {"c1", "c2"}
    MaxStops = 1
    BookKeys = {"k1"}
    Hashes = {"h1", "h2"}
    Books = {1, 2, 3}
    BookCalls = {"c1", "c2"}
    MaxFaults = 2
INVARIANTS
    OneRunPerKey
    OneBookPerKey
    BookHasObject
PROPERTIES
    ResultKept
    QueuedRunIsTaken
    CleanupFinishes
