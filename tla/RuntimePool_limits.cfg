SPECIFICATION Spec
CONSTANTS
    j1 = j1
    j2 = j2
    j3 = j3
    j4 = j4
    graph = graph
    query = query
    Jobs = {j1, j2, j3, j4}
    NoJob = NoJob
    NoPool = NoPool
    Size <- MCOne
    Pools = {query}
    QueueMax <- MCTwo
    PoolOf <- MCOnePool
    PriorityOf <- MCPriorities
    Parent <- MCNoParent
    Limited = {j1}
    Mortal = {j1, j2}
    Hanging = {}
CHECK_DEADLOCK FALSE
INVARIANTS WithinLimits AnsweredOnce NothingIsStuck CountersExact
PROPERTIES NoOvertaking
