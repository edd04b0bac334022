\* A parent that waits for its one sub-issue, on Linear.
SPECIFICATION HSpec
CONSTANTS
    i1 = i1
    i2 = i2
    w1 = w1
    w2 = w2
    t1 = t1
    GithubContext = TRUE
    Issues = {i1, i2}
    Workers = {w1, w2}
    Ticks = {t1}
    NoIssue = NoIssue
    NoWorker = NoWorker
    NoEntry = NoEntry
    MaxRetries = 2
    TopLevelMax = 1
    Children = {i2}
    Webhooks = FALSE
    MaxIncoming = 1
    CanStop = FALSE
    TrackerKind = "linear"
    Blockers <- ParentWaits
INVARIANTS
    StartedIssuesAreUnblocked
