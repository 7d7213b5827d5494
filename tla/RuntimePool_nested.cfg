SPECIFICATION FairSpec
CONSTANTS
    j1 = j1
    j2 = j2
    j3 = j3
    j4 = j4
    graph = graph
    query = query
    Jobs = {j1, j2, j3, j4}
    NoJob = NoJob
    NoPool = NoPool
    Size <- MCOne
    Pools = {graph, query}
    QueueMax <- MCOne
    PoolOf <- MCTwoPools
    PriorityOf <- MCNormal
    Parent <- MCLoad
    Limited = {j2}
    Mortal = {j1}
    Hanging = {j4}
CHECK_DEADLOCK FALSE
PROPERTIES EveryCallAnswered NeverQueuedForGood
