\* One pipeline with an else node: does a skip reach everything behind it?
SPECIFICATION Spec
CONSTANTS
    Nodes = {1, 2, 3, 4}
    NoNode = 0
    Iterations = 2
    MaxParallel = 2
    GlobalMaxIterations = 2
    NoCondition = NoCondition
    Pipelines <- MCForkedPipelines
INVARIANTS
    SkipReachesDependents
CHECK_DEADLOCK FALSE
