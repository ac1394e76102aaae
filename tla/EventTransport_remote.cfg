SPECIFICATION Spec
CONSTANTS
    p1 = p1
    p2 = p2
    Procs = {p1, p2}
    Threads <- MCThreads
    MaxEvents = 1
    ReadCount = 2
    MaxReconnects = 2
PROPERTIES
    ReachesRemoteBus
