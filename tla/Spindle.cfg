SPECIFICATION SpindleFairSpec
CONSTANTS
    n1 = n1
    n2 = n2
    n3 = n3
    Nodes = {n1, n2, n3}
    Graphs <- SmallGraphs
    MaxWorkers = 2
    MaxRuns = 2
    NoNode = NoNode
CHECK_DEADLOCK FALSE
INVARIANTS
    FailedRunIsUndone
PROPERTIES
    ImplementsSaga
    Terminates
