SPECIFICATION Spec
CONSTANTS
    p1 = p1
    p2 = p2
    Procs = {p1, p2}
    Threads <- MCThreads
    MaxEvents = 2
    ReadCount = 2
    MaxReconnects = 2
INVARIANTS
    AtMostOneBus
    AckedWasHandled
    HeardInOrder
