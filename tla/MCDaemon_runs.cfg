\* Three runs in the queue, and each mode of execution alone; one restart.
SPECIFICATION FairSpec
CONSTANTS
    Runs = {"r1", "r2", "r3"}
    NoRun = NoRun
    NoOutput = NoOutput
    WorkspaceOf <- Workspaces
    Outputs = {1, 2, 3}
    ErrorOf <- Error
    KeyOf <- Key
    Files = {1, 2, 3}
    MaxSteps = 2
    Plans <- AllPlans
    Loads <- AllLoads
INVARIANTS
    TablesTellTheTruth
    UnverifiedWorkStaysIn
    AgentCallsBounded
PROPERTIES
    ImplementsLedger
    SubmittedRunsEnd
CHECK_DEADLOCK FALSE
