\* One service moves at a time; small instances of each.
SPECIFICATION ServicesSpec
CONSTANTS
    s1 = s1
    s2 = s2
    parentIssue = parentIssue
    subIssue = subIssue
    pattern1 = pattern1
    pattern2 = pattern2
    i1 = i1
    i2 = i2
    i3 = i3
    i4 = i4
    newIssue = newIssue
    otherIssue = otherIssue
    p1 = p1
    p2 = p2
    \* Delegation
    Parents = {p1, p2}
    Specs = {s1, s2}
    Manifests <- MCManifests
    MaxChildren = 2
    MaxRows = 4
    MaxDaemonCrashes = 1
    \* TrackerPolls
    TrackedIssues = {parentIssue, subIssue}
    LabelledIssues = {parentIssue}
    Kids <- MCKids
    Polls = {q1, q2}
    Kinds = {"github", "linear"}
    NoTag = NoTag
    NoKids = NoKids
    Nobody = Nobody
    MaxEdits = 1
    \* NotionPolls
    Pages = {p1}
    Callers = {poll, worker}
    Poll = poll
    Window = 2
    MaxPerWindow = 2
    MaxClock = 3
    \* HostRepo
    Runs = {r1, r2}
    Steps = {"a", "b", "c"}
    Upstream <- MCUpstream
    NoRun = NoRun
    Main = Main
    MaxCrashes = 1
    \* Workspaces
    WIssues = {i1, i2}
    SharedDir = shared
    MaxAttempts <- MCMaxAttempts
    \* AgentSession
    MaxTurns = 3
    \* ReactiveIssues
    Ended = {i1, i2, i3, i4}
    Patterns = {pattern1, pattern2}
    RecordedBefore <- MCRecordedBefore
    Finishers = {f1}
    Loop = loop
    MaxPerDay = 1
    Threshold = 3
    MaxTicks = 2
    \* IssueIntake
    IntakeIssues = {newIssue, otherIssue}
    NewProjects = {newIssue}
    TitleOf <- MCTitleOf
    Tick = t
    Hooks = {h}
    MaxDispatches <- MCMaxDispatches
    \* Decomposition
    MaxSubIssues = 3
    Elsewhere = 4
    GraphIssues = {"a", "b", "c"}
    NoIssueId = NoIssueId
    \* Schedules
    Cron <- MCCron
    HourLength = 2
    MaxMinutes = 3
    TickCallers = {"loop", "api"}
    TopLevelSlots = 1
    MaxCandidates = 1
    ProjectSchedules = {"b"}
    \* ChatOps
    ChatIssues = {"i1"}
    BrokenBuilds = {"b"}
    QueueRuns = {"q1"}
    Mentions <- MCMentions
    Commenters = {"h1", "h2"}
    MaxComments = 2
    MaxDeliveries = 1
    \* Credentials
    TokenLife = 6
    RefreshInterval = 5
    MaxTime = 14
    \* ParentRollup
    SubIssues = {"k1", "k2"}
    MaxReturns <- MCMaxReturns
    MaxEntries = 2
    MaxPosted = 2
    \* ReviewRecords
    ReviewedPRs = {p1}
    FindingKeys = {"k"}
    PromotionThreshold = 3
    MaxReviews = 3
    MaxRestarts = 1
    NoPR = NoPR
    \* PRDescriptions
    OwnIssue = Own
    OtherIssue = Other
    NoText = NoText
    NoNumber = NoNumber
    MaxTexts = 2
    MaxEnriched = 2
    \* WorkflowReload
    Jobs = {"j1"}
    Reloads = {"l1", "l2"}
    MaxAgents = 2
    MaxChildSlots = 1
    MaxFileEdits = 2
    MaxReplacements = 1
INVARIANTS
    PendingRowsAreTaken
    PollsAreTrue
    HostRepoIsShared
    WorkspacesBuildUp
    TurnsAreAnsweredByTheirOwn
    ReactiveIssuesAreBounded
    IntakeGateHolds
    DecompositionIsOrderly
    SchedulesAreKept
    CommandsAreSafe
    DeadTokensHaveAReason
    RollupsAreHonest
    RecordsAreTrue
    DescriptionsAreRespected
    ReloadsAreApplied
PROPERTIES
    ImplementsForkJoin
    ImplementsRepoLock
    ServicesEnd
\* The services may all come to rest.
CHECK_DEADLOCK FALSE
