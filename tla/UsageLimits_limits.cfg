\* Usage limits on; one tick, no dispatch from outside, one slot, one attempt, two resumes.
SPECIFICATION LSpec
CONSTANTS
    i1 = i1
    i2 = i2
    w1 = w1
    w2 = w2
    t1 = t1
    GithubContext = TRUE
    Issues = {i1, i2}
    Workers = {w1, w2}
    Ticks = {t1}
    NoIssue = NoIssue
    NoWorker = NoWorker
    NoEntry = NoEntry
    MaxRetries = 1
    TopLevelMax = 1
    Children = {}
    Webhooks = FALSE
    MaxIncoming = 1
    CanStop = FALSE
    TrackerKind = "github"
    Blockers <- NoBlockers
    MaxResumes = 2
INVARIANTS
    PausesAreSound
PROPERTIES
    ImplementsRegistryAtLimits
    PausedTasksResume
