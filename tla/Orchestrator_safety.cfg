\* Two ticks at once and dispatch from outside; one slot, two attempts.
SPECIFICATION Spec
CONSTANTS
    i1 = i1
    i2 = i2
    w1 = w1
    w2 = w2
    t1 = t1
    t2 = t2
    GithubContext = TRUE
    Issues = {i1, i2}
    Workers = {w1, w2}
    Ticks = {t1, t2}
    NoIssue = NoIssue
    NoWorker = NoWorker
    NoEntry = NoEntry
    MaxRetries = 2
    TopLevelMax = 1
    Children = {}
    Webhooks = TRUE
    MaxIncoming = 1
    CanStop = FALSE
    TrackerKind = "github"
    Blockers <- NoBlockers
SYMMETRY Symmetry
INVARIANTS
    SharedStateAgrees
PROPERTIES
    ImplementsRegistry
