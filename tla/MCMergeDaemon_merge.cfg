\* Two pull requests, both mergers, one restart.
SPECIFICATION FairSpec
CONSTANTS
    PRs = {1, 2}
    NoPR = NoPR
    MaxHead <- Pushes
    Configs <- Deployments
    MaxRounds = 2
    MaxReviewFailures = 2
    MaxMergeAttempts = 2
    MaxBuildFixes = 1
    MaxRestarts = 1
PROPERTIES
    ImplementsSerialQueue
    PollsReturn
    EveryRequestSettles
    ApprovalBeforeMerge
CHECK_DEADLOCK FALSE
