\* Every graph of four nodes, whole and from every node.
SPECIFICATION FairSpec
CONSTANTS
    Nodes = {1, 2, 3, 4}
    NoNode = 0
    Iterations = 2
    MaxParallel = 2
    GlobalMaxIterations = 2
    NoCondition = NoCondition
    Pipelines <- MCPipelines
INVARIANTS
    QueueIsExact
    DryRunForetells
    NodesRunInOrder
PROPERTIES
    ImplementsDagRun
    EventuallyReturns
CHECK_DEADLOCK FALSE
