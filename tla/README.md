# forgectl in TLA+

Specifications of forgectl's own control logic: the orchestrator that watches an
issue tracker and runs coding agents on the issues, the executor of pipelines of
runs, the run queue and the execution of one run, the mergers of pull requests,
and the services around them.
Every definition is translated from the TypeScript under `src/src/`; the line
ranges are in `PROJECT.json` under `map`.

## The system

forgectl runs as a daemon. Three things make work: the *orchestrator* (issues from
GitHub, Linear or Notion), the *run queue* (single runs submitted over HTTP) and
the *pipeline service* (a DAG of runs). Each ends in an *execution*: prepare a
workspace and a container, let an agent work, validate, review, commit. A poll
loop, the *merge daemon* (also inside the daemon), takes the pull requests from
there. Everything is one Node process: callbacks run one at a time, and what makes
it hard is what happens between two of them, at each `await`.

| Component (under `src/src/`) | State it keeps | Operations | Interacts with | Hard because | Correct when | Modules |
|---|---|---|---|---|---|---|
| Shared state, `orchestrator/state.ts`, `retry.ts` | claims, running map, failure counts, retry timers, completed set, slots | claim, release, register, schedule and cancel a retry, prune | every other part of the orchestrator mutates it directly | no owner: entries are keyed by issue, never by attempt | claims, entries, slots and counts agree with each other and with the agents that exist | `OrchestratorState` |
| Scheduler and reconciler, `scheduler.ts`, `reconciler.ts` | loops suspended at awaits; last run of each schedule | tick: prune, reconcile, stalls, drain, fetch, filter, sort, dispatch; schedules | tracker, shared state, dispatcher | values read before an await are used after it; two ticks may overlap through `triggerTick` | a tick starts only eligible issues within the free slots | `Orchestrator`, `Schedules` |
| Dispatcher, `dispatcher.ts`, `index.ts`, `triage.ts`, `project/create.ts` | phase of each agent | create a project, triage, claim, register, execute, roll up, finish, retry, stop | webhooks, commands, endpoints, scheduler, trackers | agents outlive their entries; each exit path has to release the same things | every claim and slot is released exactly when its agent is done | `Orchestrator`, `IssueIntake` |
| Trackers and sub-issue cache, `tracker/` | ETag, cache entries, last poll, request times | poll, enrich, invalidate, throttle | candidate filter, webhooks | a cache the program also writes guesses into, shared by overlapping polls | what a poll returns was true during the poll | `TrackerPolls`, `NotionPolls`, `OrchestratorHistory` |
| Parent rollup, `github/sub-issue-rollup.ts` | a comment, the parent's state | comment, close | cache, GitHub | children return at the same time | closed after the last child, one comment | `ParentRollup` |
| Usage-limit recovery, `orchestrator/usage-limit-recovery.ts` | paused tasks, resume counts, probe timer | pause all, probe, restart, fail | shared state | competes with ticks for the same claims | tasks resume once the limit is over | `UsageLimits` |
| Delegation, `orchestrator/delegation.ts` | delegation rows | run, rewrite once, synthesise, recover | agents, startup | crash between rows and children | each subtask ends; the synthesis runs after all | `Delegation`, `ForkJoin` |
| Decomposition and graphs, `planner/decompose-to-issues.ts`, `tracker/sub-issue-dag.ts` | sub-issues and relations in the tracker | parse, create, relate, dispatch | ticks | ticks go on between two requests; cycles and joining branches in what a model or a user linked | children wait for what blocks them; a cycle is reported exactly if there is one, a score counts what waits | `IssueGraph`, `Decomposition` |
| Pipeline executor, `pipeline/` | node states, ready set, in-flight set, repository lock, checkpoints | execute, skip, cascade, else node, loop, rerun, dry run, fan in, merge | executions, git | parallel completions decide who is queued; one repository for all runs | every node ends; a node runs after its dependencies and has their work | `Pipeline`, `DagRun`, `HostRepo` |
| Run queue and recovery, `daemon/queue.ts`, `durability/` | run rows, locks | submit, process, `/stop`, recover | SQLite | crash at any point | each run is executed once at a time, and its status tells the truth | `RunTable`, `RunLedger`, `Daemon` |
| Execution, `orchestration/`, `validation/`, `orchestrator/worker.ts` | round and attempt counters, detectors | prepare, lint, validate, gate, review, fix, collect | agent, run table | nested retry budgets | bounded work, nothing collected that was not validated but in ways that are named | `AgentRun`, `Validation` |
| Workspaces and output, `workspace/`, `output/git.ts` | directories, branches | clone, hooks, commit, push, remove | workers, GitHub | shared directories, steps that fail silently | agents start from complete clones and build on what was pushed | `Workspaces` |
| Agent sessions, `agent/` | pending turn, timers, requests | invoke, time out, close | app server, container | messages and timers of earlier turns | a turn is answered once, by its own end | `AgentSession` |
| Merge queue, `orchestrator/merge-queue.ts`, `tracker/github.ts` | FIFO, processing flag | enqueue, process, merge | GitHub, review daemon | re-entrancy; pushes by others | one merge at a time, every request settled | `MergeQueue`, `SerialQueue` |
| Merge daemon, `merge-daemon/` | rounds, failures, last reviewed commit and verdict; rows and findings in the database | rebase, validate, review, fix, wait for checks, merge, enrich, record | GitHub, database | memory is lost in a restart, the database is not | merged only when approved; records true | `PRProcessor`, `PullRequests`, `MergeDaemon`, `ReviewRecords`, `PRDescriptions`, `Credentials` |
| Webhooks, commands, endpoints, `github/`, `daemon/` | row of a run | dispatch, run, rerun, stop | orchestrator, queue | arrive at any moment | one agent for an issue | `ChatOps` |
| Hot reload, `workflow/`, `applyConfig` of the orchestrator | event, timer, reloads under way, prompt, slot managers | load, watch, debounce, reload, apply | ticks, webhooks | the file changes while it is read; objects held elsewhere | the last edit is in use, slots are counted once | `WorkflowReload` |
| Reactive issues, `analysis/` | outcomes, issues opened today | detect, open | trackers, end of runs | two evaluators, awaits between test and write | bounded and distinct | `ReactiveIssues` |
| Containers, context, config, skills, alerting, discord, auth, logging, tracing, cli, governance | external resources or plain values | | | I/O, prompting, rendering | | |

The hazards this leads to are listed at their lines in `PROJECT.json`.

## Modules

### Orchestrator

`OrchestratorState` holds the shared maps and the operations on them. A
JavaScript callback is not interrupted, so each operation is one update.
`running` and `topLevelRunning` map an issue to the *agent execution* registered
for it, where the code stores a worker record: the identity is what lets the
properties tell an entry from the agent it outlived. A timer is a member of
`retryTimers`; one that `stop()` dropped from the map without cancelling it is a
member of `orphanTimers`.

`Orchestrator` has one action per stretch of code between two awaits:

| Code | Actions |
|---|---|
| `tick`, `reconcile` | `TickStart`, `FetchStates`, `BeginStop`/`FinishStop`, `BeginStalls`/`FinishStall`, `Drain`, `FetchCandidates`, `DispatchNext` |
| `Orchestrator.dispatchIssue` (webhooks, commands, endpoint, QA) | `dispatchIssue`, `DispatchIncoming` |
| `dispatchIssue` of the dispatcher from the claim on | `StartWorker`, `SkipIssue` |
| `executeWorkerAndHandle` | `WorkerThrows`, `WorkerReturns`, `FinishSucceeded`, `FinishExceeded`, `FinishFailed` |
| timers, cache | `RetryTimerFires`, `OrphanTimerFires`, `CacheEntryExpires` |
| `stop` | `BeginShutdown`, `FinishShutdown` |

An agent goes `idle -> executing -> succeeded | exceeded | failed -> idle`: the
middle phases are where the rollup comment and the pull request are awaited with
the claim held and the running entry already gone. A tick's `snapshot` is the
list its current loop runs over, `stopping` the cleanup it awaits, `queue` the
issues it has left to dispatch. What the tracker answers is chosen when it is
asked. Left out on purpose: labels, comments, metrics, the base branch of pull
requests, the order in which eligible issues are tried (any order is allowed).

`WorkerRegistry` is the abstract promise of the running map: a directory of agents
at work. An agent is entered under an issue without an entry; entries may be
forgotten early; none outlives its agent. `Orchestrator!ImplementsRegistry`
instantiates it with the map and the set of executing agents.

`OrchestratorHistory` adds an observer that remembers what the code forgets:
failures counted in a row (capped at `MaxRetries`, where the property is already
broken) and the issues that were ever completed or reported closed.

`UsageLimits` extends `Orchestrator` with an agent phase "limited" and the recovery:
`LimitHit`, `PauseNext` (one listed agent after the other, with an await between),
`runProbe`, `RestartNext`. Two parts of the code have no effect and are therefore
absent: `updateStatus` is called with the id of the issue where rows are keyed by its
identifier, so no pause reaches a row and `restoreFromDatabase` restores nothing;
and nothing calls `handleUsageLimitDetected`, so `cooldown_state` is never entered.

`IssueIntake` is `dispatchIssue` before the claim (new projects, triage), `Schedules`
the schedules of a tick and the cron expressions they are written in, `ParentRollup`
what `triggerParentRollup` does on GitHub, `TrackerPolls` and `NotionPolls` the polls of
the adapters: a request is answered at one moment and its answer used at a later one,
while people close, reopen and edit issues.

### Pipeline

`Pipeline` is one `execute()` of `pipeline/executor.ts`, for every definition in
`Pipelines` and every selection of a rerun:

| Code | State or actions |
|---|---|
| `nodeStates`, `readyQueue`, `inFlight`, `pipeline_state.status` | `status`, `readyQueue`, `inFlight`, `outcome` |
| the list a pass of the drain loop runs over | `batch` |
| `prepareRerunSelection`, hydration, seeding | `Init` (`SelectAll`, `SelectFrom`) |
| one turn of the pass, `processNode` up to its first `await` | `Take` with `SkipBlocked`, `FailCondition`, `SkipByCondition` or `StartNode` |
| `Promise.race`, the test behind it, the loop's head | `EndPass`, `StartPass` |
| a node in its container, then `processNode` after the `await` | `NodeEnds`, and for loops `LoopEnds`, `NextIteration`, `LoopThrows` |
| after the loop: `allSettled`, the verdict | `Finish` |
| `--dry-run` | `buildDryRunResult`, an operator on the graph |

A pass is synchronous code, so nodes end only between passes (`InProcess`). A node
whose `processNode` ended within the pass stays in flight until the pass is over
(`Returned`): it counts against `--max-parallel`. `Reachable` and `Cascade` are least
closed sets, which is what the code's depth-first walks compute on a graph without
cycles. The queue is a set, and any ready node may be taken next: the code's order
is one of those. A condition compares the status of one node with a wanted status, as `if_passed`
and `if_failed` expand to; other expressions differ in which results make them true
only. `pc = "rejected"` is an `execute()` that has thrown while other nodes go on.

`DagRun` is the abstract promise: a task has at most one fate, works only once all it
needs has passed, and is given up only with something it needs or when its own turn
has come. `ImplementsDagRun` maps the nodes' statuses to it; a hydrated node, which the
code records as "skipped", has passed.

`HostRepo` leaves conditions and loops out and looks at what concurrent runs do to one
host repository: the promise chain of `acquireRepoLock`, the temporary branch of a
fan-in node, the merge of its output, checkpoints and reruns, and crashes, after which
the repository may be on a temporary branch. A branch is the set of nodes whose work it
contains. `SerialQueue` (also used by the merge queue) is what the lock promises.

### Runs

`RunTable` is the queue, the rows and the locks; `Validation` the lint gate, the
validation loop with its detectors and the gate behind it; `AgentRun` one execution in
one of three modes (`single`, `review`, `worker`), from the lock to the cleanup, every early
return and the catch; `Daemon` composes them with submissions, `/stop`, crashes and
restarts at any moment of an execution.

| Code | Actions |
|---|---|
| `RunQueue.submit`, `processNext` | `Submit`, `TakeUp`, `EndRun`, `Idle` |
| `executeSingleAgent`, `executeReviewMode`, `executeWorker` | `Execute`: `Prepare`, `AgentEnds`, the lint, validation, gate and review steps, `Collect`, `Throws`, `Finish` |
| `/stop` of a run | `Stop` |
| `shutdown`, `startDaemon`, `recoverInterruptedRuns`, `releaseAllStaleLocks` | `Crash`, `Restart` |

The output of a step is reduced to the error `normalizeError` leaves and the key
`extractFailureSignature` finds. `verified` is a ghost: no agent changed anything
since the validation steps passed (lint is not tracked). The reviewer of single mode and of a
worker is an agent in the container of the work and called after the last validation
(`runReviewAgent`), so it may end `verified`, which `reviewerChanged` remembers; review mode gives
its reviewer a copy. Assumed: `agent.usage_limit` off, no clarification over Discord, governance gates
the stubs they are (they stop nothing), `pauseRun` not called (nothing calls it), one
execution at a time; a shutdown is a crash as far as the queue is concerned.

`RunLedger` is the abstract promise: each run is queued once, executed at most once at a
time, and ended; a crash returns what was executed.

`Workspaces` follows the same worker from outside: the directory it starts from, clone and
hooks, what `collectGitOutput` commits, pushes and advances, removal by the reconciler.
`AgentSession` follows one session through handshake, turns, timeouts and `close()`.

### Pull requests

`PullRequests` is the part of GitHub both mergers act on (external: heads, checks, mergeability,
pushes by authors, moves of main). `PRProcessor` is `processPR` with what the poll loop
remembers; `MergeQueue` is the FIFO the GitHub tracker starts for the pull requests the
dispatcher creates, and the merge it runs; `MergeDaemon` composes both with a restart.
`ReviewRecords` adds what the review daemon writes down (rows per round, outcomes,
findings that become conventions; a merge may be executed and its answer lost), `PRDescriptions` who writes, enriches and edits a
description, `Credentials` the installation token of the loop in `daemon/server.ts`.

### Services

`Delegation` (rows, retries, synthesis, recovery after crashes; its promise is `ForkJoin`),
`IssueGraph` (what a poll computes about its list), `Decomposition` (the planner's and the
endpoint's way from a request to several issues, and a poll's analysis), `ReactiveIssues` (outcomes, anomalies, two evaluators, daily limit) and
`ChatOps` (webhooks, slash commands and the rows they act on). `WorkflowReload` is the hot reload of
WORKFLOW.md beside the ticks and webhooks that start agents in one of two slot managers.

Three of these are not wired into the program at this commit; their modules say what the code
does for whoever calls it:

- `Delegation`: the daemon creates the orchestrator without a delegation repository or manager
  (`daemon/server.ts:161`), so `dispatcher.ts:684` delegates nothing and the recovery in
  `orchestrator/index.ts:217` does not run.
- `ReactiveIssues`: both callers of the dispatcher's `dispatchIssue` pass `undefined` for
  `outcomeDeps` (`scheduler.ts:236`, `orchestrator/index.ts:389`), and no outcome repository
  reaches the orchestrator, which starts the loop only with one (`orchestrator/index.ts:180`).
- the planner's way in `Decomposition`: `decomposeToIssues` is exported and has no caller. The
  numbers in `blocked_by` are whole in the model; the code lets fractions pass as well.

In `ReactiveIssues` an evaluator sees of the open issues what its query finds. That asks for five
names of states and, with Linear, for the configured labels (`tracker/linear.ts:246`), while
`createIssue` leaves the issue in the default state of its team and gives it the reactive label
(`linear.ts:473`). So any open issue may be found or missed, and `outOfSight` holds the titles of
those missed. In `Schedules` the synthetic issues meet the gates of `dispatchIssue`: a new project,
and triage if `enable_triage` is set, which lets none pass while an agent works on an issue of the same
title (`triage.ts:170`), hence of the same schedule, and may find any too complex.

`IssueGraph` is the two analyses of `sub-issue-dag.ts` as they run, one step at a time, on any
graph: the three colours, the calls of `dfs` under way (`path`), what each has yet to look at
(`remaining`), the parents and the cycle read off them; and the worklist of
`computeCriticalPath`. What they promise is stated without a search: `Stuck`, a set of issues
none of which can be first, and `WaitFor`, the least set closed under waiting. `cycle` is the
array before the code reverses and prints it. The text appends the neighbour once more
(`sub-issue-dag.ts:82`), so that a cycle of a and b reads "b -> a -> a"; only the array is
modelled. `planner/validator.ts` calls this search for plans, and `pipeline/dag.ts` holds a copy of
it for nodes. In `Decomposition` a tick takes the score of an issue in one step (`Score`), as the
code computes it without an await.

`MCServices` puts these and the smaller modules above into one run. They share no variable;
`service` is chosen at the start and only that service moves, so that the run explores the
sum of their state spaces. It is a convenience of checking and says nothing about how
they interact; where they do, the module of each contains the other's part (ticks and
dispatches in `IssueIntake`, `Decomposition` and `Schedules`, polls in `ParentRollup`, the queue
in `ChatOps`).

Operators commented "Fault" stand beside the definition they are a plausible
mistake in. No specification uses them: they show that each property can fail.

## Runs

| Run | Bounds | Shows |
|---|---|---|
| `safety` | two overlapping ticks, two agents, one slot, two attempts, one suspended outside call; symmetric in issues, agents and ticks | the shared maps agree at every interleaving, and the running map implements the registry |
| `shutdown` | one tick, two agents, one of the two issues a sub-issue (so the sub-issue cache fills, expires and rolls up), `stop()` at any time, fair | no claim and no slot is kept forever; ticks alone stay within the slots |
| `linear` | Linear, a parent that waits for its sub-issue | the parent is never started before the child was completed or reported closed |
| `limits` | two issues, two agents, one tick, one slot, one attempt, two resumes; agents meet the limit at any moment; fair | a paused task always has a probe or a restart to wait for, is resumed once agents stop meeting the limit, and the running map implements the registry all the same |
| `pipeline` | all graphs of four nodes up to renaming (numbered by level), in each one node with a condition (and possibly an else node) or one loop of two iterations; every rerun; two nodes in parallel; fair | the queue is exact, nodes run in order, the dry run foretells, `DagRun` is implemented, `execute()` ends |
| `runs` | three runs over two workspaces with `/stop` and one crash; and each mode of execution alone with up to two steps, three retries, three kinds of output and three files; fair | tables, verification, bounded calls, `RunLedger`, every submitted run ends |
| `merge` | each merger alone on two pull requests, the poll loop with reviews, builds and fixes on one, both mergers on one; one push by an author, one restart; two rounds, review failures and merge attempts; fair | the queue is serial and settles every request, polls return, merged only when approved |
| `services` | one service at a time, see below; fair | the properties of the sixteen services, two refinements, and that calls, runs, turns and plans end |
| `blocked`, `duplicates`, `retries`, `cascade` | two issues, one tick at a time; one pipeline | fail: see below |

Deadlock is an error in `safety`, `linear`, `limits` and the three failing runs of the
orchestrator: there a next tick can always start. In the others the system may come to rest
(after `stop()`, at the end of a run, when nothing is submitted).

The orchestrator's runs use two issues. Two are enough for every conflict the code can have
between different issues (slots, queue, parent and child); conflicts on one issue
need a second *agent*, not a second issue. `Workers` is how many agents are alive at once,
`MaxIncoming` how many outside calls are suspended before their claim, `Ticks` how many
ticks overlap (the loop's and `triggerTick`'s). One slot makes every second dispatch a slot
conflict; two attempts (`MaxRetries`) give both outcomes of the budget test.

Four nodes are the least for a cascade of two levels behind a conditional node beside
another node in flight, and for a node that joins an else branch with another one. Two
in parallel make both a full flight and an overlap happen; `GlobalMaxIterations` and
`Iterations` (both two) cover a first, a repeated and an exhausted loop, and a rerun that
finds any number of its iterations done.

Three runs over two workspaces give a run that waits for the queue behind one that holds the
same lock and one that does not; the plans of `MCDaemon` reach each of the ways the loop
detector stops a validation. In `merge` two pull requests are what the queue needs to have a
waiting request; the limits of rounds, failures and attempts are two, the least with a
repetition, and the deployments are kept apart because they share nothing but the pull request.

In `services`: two parents, one of which asks for a child too many, and one crash
(`Delegation`); a parent and its sub-issue, two overlapping polls, one edit (`TrackerPolls`); a
clock that passes the end of a window (`NotionPolls`); two runs of three nodes, the last joining the others,
and one crash (`HostRepo`); three attempts at two issues (`Workspaces`); three turns, so that a
turn can be hit by what two earlier ones left (`AgentSession`); four issues of which two failed
alike before, a limit of one issue a day (`ReactiveIssues`); two issues of one title, dispatched
twice (`IssueIntake`); three children, every answer of the model, and every graph of up to three
issues, with cycles, self-loops and blockers nobody listed (`Decomposition`); three
schedules over an hour of two minutes, one of them asking for a new project, with triage and
without (`Schedules`); two comments at once, a queued run
(`ChatOps`); two token lives (`Credentials`); two children of which one returns twice
(`ParentRollup`); three reviews and one restart (`ReviewRecords`); two edits and two
enrichments (`PRDescriptions`); two edits and two reloads at once, every setting of one or two
agents with or without a child slot (`WorkflowReload`).

### What the properties say

Orchestrator:

- `SharedStateAgrees` joins five facts. `RunningIsClaimed`: the drain of a tick never takes
  the claim of a listed agent. `EntriesAreExecuting`: no running entry and no slot outlives
  its agent, although reconcile, timers and shutdown delete entries by issue without
  knowing whose they are. `RunningHoldsSlot`: the free-slot count is never too generous for
  listed agents. `RetryStateMatchesTimer`: a failure count exists as long as its timer, and
  stays below the limit. `ClaimHasOwner`: outside `stop()`, what the drain removes is always
  the claim of an issue in backoff or of an agent that is still finishing.
- `NothingIsHeldForEver`: every claim and every slot is released, whichever way an agent ends.
- `SlotsWithinMax`: ticks alone never exceed the limit. Webhooks do (they look at no slot),
  and so does a stalled agent: its session is `null` (`dispatcher.ts:458`), so it is unlisted
  but not stopped, and the next dispatch of its issue overwrites its slot.
- `PausesAreSound`, `PausedTasksResume`: each hit schedules the probe anew and the restart loop
  goes from task to task, yet no task is left without one of them.

Pipeline:

- `QueueIsExact`: the queue holds only nodes that may run, and no wakeup is lost: nodes are
  queued by the last dependency to end, which may end in five ways, and none strands a
  node, apart from abandoned runs and what the `cascade` run shows.
- `NodesRunInOrder`: a node starts only when all its dependencies were successful, in this
  run or the one it resumes; it is skipped for a cause, and a rerun skips nothing because its
  selection forgot what a node needs; when `execute()` returns every node has ended (without
  else nodes and fatal conditions).
- `DryRunForetells`: the dry run walks the graph by itself. No condition turns out fatal after a
  dry run that succeeded; and when no node fails and no checkpoint is used, exactly those nodes
  complete that are not, and are not behind, a node the dry run skips.
- `HostRepoIsShared`: whatever other nodes did to the host repository, a node with dependencies
  starts from all their outputs, what is completed is on the branch of the host, and a run
  reported as over holds and awaits no lock (`ReportedRunsAreOver`). A node
  without dependencies takes no lock and may copy a temporary branch: not promised. The steps
  may depend on each other in any way without a cycle (`AcyclicAssumption`).

Runs:

- `TablesTellTheTruth`: "running" means executed, "queued" means it will be served unless a
  crash left it (`daemon/server.ts:109` drains the queue only if recovery re-queued something),
  and no lock outlives its run unless a new process has the id of the old one.
- `UnverifiedWorkStaysIn`: what is collected has passed every validation step since an agent
  last touched it, or the plan says `output-wip`, or it left by one of four ways: a worker
  collects what failed validation without a detected loop (it runs its gate only when validation
  passed, `worker.ts:610`); single mode keeps the first verdict when the fix of a review breaks the
  work; with "pause" the reviewer of review mode overrules the steps; and the reviewer of single
  mode or of a worker, a full agent in the container of the work (`single.ts:320`,
  `worker.ts:649`), changed it after the last validation.
- `AgentCallsBounded`: nested retry budgets add up and do not multiply. With lint and
  validation retries `Repairs`, agents are called at most `2 + Repairs` times by a worker and
  `4 + 2 * Repairs` times by the other modes.

Pull requests: `ApprovalBeforeMerge` says what the merge rests on, the verdict on the commit the
cycle took up. It does not say that this commit is merged: fixes of checks and rebases are
pushed after the approval and are not reviewed again. The merge queue reviews nothing, merges
right after a push of a resolution (`github.ts:280`) and waits for the checks of the head it
read before (`github.ts:321`); it promises order only.

Services: each property names, as a disjunct or with a ghost, the one way the code has of
breaking the promise (`overtaken`, `slipped`, `crowded`, `lateSpawn`, `overlapped`, `unlisted`,
`outOfSight`, `brokenOff`, `crossed`, `early`, `outranked`, `turnedAway`, `restartedIn`, `doubtful`, `interrupted`, ...), and
says that there is no other. Read as a list these exceptions are what a maintainer should
know: a poll that fails after its ETag was stored hides the change it carried; a page edited
while its query is answered is found at its next edit only; a late end of a timed-out turn is
taken for the end of the next; overlapping evaluators exceed the daily limit by one each; an open issue whose
state or labels the query leaves out gets a duplicate, with one evaluator and every request answered; a
second dispatch of a new-project issue starts an agent; a tick may start a child before its
blocking relations exist, and nothing breaks a cycle the model answered; a list of bullets is
accepted and nothing started; a schedule without a slot, or turned away by triage (its
last run still works, or it looks too complex) or for a new project, is lost for that time; a
merge whose answer is lost is recorded as failed; a cancelled run goes on and
ends as completed; an answer of the token library that is still the old token counts as a
refresh; rollups that overlap may post twice; a restart writes over the rounds of a
review; a description edited between the daemon's read and its write is lost; with
`child_slots` at or above `max_concurrent_agents` every reload of WORKFLOW.md gives webhooks a
slot manager of their own, and ticks no longer count the agents these start; an edit during
the start is not seen, and an older reload may end last.

### Fairness

`Orchestrator!Fairness` asks that a tick, once started, goes on; that an agent's next step comes;
that an armed timer fires; and that `stop()`, once called, ends. The code bounds each
of these: requests and cleanups run under `withTimeout` or the client's timeout, an
agent session has its own timeout, timers are `setTimeout`s. Nothing is assumed of
ticks starting, webhooks arriving or `stop()` being called, so the liveness
properties hold by the exit paths alone and never because a later tick cleans up.
`LSpec` asks the same of the handler that pauses, the probe and the restart loop, and of
nothing else; that agents stop meeting the limit is a premise of `PausedTasksResume`.

`Pipeline!Fairness` asks only that `execute()` goes on while it can: the drain loop is
not suspended except for nodes in flight, whose containers and agents run under time
limits, and a loop's iterations are counted. In `Daemon` the one execution goes on, in
`MergeDaemon` the poll loop and each merge that was begun do: requests answer or fail, waits
for checks and commands are bounded. `Delegation`, `HostRepo`, `AgentSession` and
`Decomposition` each ask for one thing, that some step under way is taken while there is one;
crashes, edits, submissions and `close()` are left to chance everywhere. Nobody is assumed to
restart a daemon: `SubmittedRunsEnd` speaks of one that stays up.

### What the failing runs show

- `duplicates`: "exclusive lock, prevents duplicate dispatch" (SPEC.md:336) does not
  hold. The claim of an agent that returned and awaits its pull request looks stale
  to the drain (`scheduler.ts:90`), and the same tick may start a second agent.
- `retries`: the retry limit is never reached when it is above one: the callback that ends the backoff
  (`dispatcher.ts:1115`) also deletes the failure count.
- `blocked`: a sub-issue whose agent failed is marked "closed" in the cache
  (`dispatcher.ts:262`), and the parent is taken for unblocked. With Linear's own
  terminal states ("Done", "Canceled", as `cli/repo.ts:64` writes them) "closed" is not
  terminal, which is why `linear` passes.
- `cascade`: "If a node has multiple dependencies and **any** dependency was skipped, the
  node is skipped" (`.planning/.../21-CONTEXT.md:30`). Behind a conditional node with an
  else node this fails (`executor.ts:235`): the false condition wakes the else node only,
  so a node that waits for the conditional one is neither skipped nor queued. It stays
  pending, and `execute()` returns with status "running".

## Proofs

The proofs are for any values of the constants: any number of issues, agents, ticks, nodes,
runs, pull requests, and any limits. The type invariants are proved (`TypeCorrect`,
`MergeTypeCorrect`) and therefore no run of their modules checks them.

Seven modules hold the proofs, one per part of the system. In each, the inductive invariant is
stated first, then what the operators do, one lemma per action or per way of changing the
state, and the theorems at the end; where a theorem has several parts, one comment says what
each part is for.

| Module | Proved |
|---|---|
| `OrchestratorProofs` | `SharedStateAgrees`, `SlotsWithinMax`, `StartedIssuesAreUnblocked` where it holds, the registry |
| `UsageLimitsProofs` | `PausesAreSound`, and the registry with the recovery switched on |
| `PipelineProofs` | `QueueIsExact`, `NodesRunInOrder`, `EveryNodeEnds`, `TerminalIsFinal`, `DryRunForetells`, `DagRun` |
| `DaemonProofs` | `TablesTellTheTruth`, `UnverifiedWorkStaysIn`, `AgentCallsBounded`, `RunLedger` |
| `MergeDaemonProofs` | `MergedOnlyIfApproved`, `SerialQueue` for the merge queue |
| `TrackerProofs` | the promises of `TrackerPolls`, `NotionPolls`, `IssueIntake`, `ReactiveIssues`, `Schedules`, `ChatOps`, `ParentRollup`, `PRDescriptions`, `Decomposition` with `IssueGraph`, `ReviewRecords` |
| `HostProofs` | the promises of `HostRepo` (with `SerialQueue` for its lock), `Workspaces`, `AgentSession`, `Credentials`, `WorkflowReload`, `Delegation` (with `ForkJoin`) |

`OrchestratorProofs` proves that `IInv` is inductive for either tracker, and hence
`SharedStateAgrees`. Its parts are proved as one invariant because the actions lean on
several at once: `StartWorker` makes the new entry the only one of its issue because an
issue with an entry is claimed; `WorkerReturns` may delete "its" entry because entries
only name executing agents of that very issue; a finished agent may leave because a
count and a timer take over its claim. Two auxiliary conjuncts are needed: an agent has
a job exactly while it is live (`JobMatchesPhase`), and a tick in its dispatch loop has an
issue left (`DispatchHasIssue`, which types `Head(queue[t])`). One lemma per way of
changing the shared state (release, end, start, throw, return, stall, fail, drain, the
two halves of stop) shows that the core of the invariant is preserved; `TypeStep` and
`CoreStep` go through the actions. For the registry, starting enters, releasing forgets,
throwing and returning leave, everything else stutters.

`SlotsWithinMax` is about one tick at a time and no dispatch from outside, and needs
`AloneInv`: then what a tick has still to dispatch fits into the slots that are free, which
nobody but that tick takes. `StartedIssuesStayUnblocked` has a premise on the deployment,
Linear or no GitHub client: with GitHub the rollup of a failed sub-issue lets its parent
start, which is what the run `blocked` shows. Its invariant says where blockers are
looked at and used: whatever the cache reports closed, whatever a tick has in its queue and
whoever is at work has all its blockers resolved (`BlockersAreResolved`).

`UsageLimitsProofs` reuses of the orchestrator's actions only their outline (`Outline`: an
agent starts and is entered under an issue without a claim, or entries are dropped, or an agent
returns or ends without its own), because agents now have
a phase more. `LInv` adds that an agent that met the limit keeps its own entry only until its
handler gets to it (`LimitedPauseTheirOwn`), and that whatever is paused is awaited by a probe,
the restart loop or a handler that has still to schedule one (`PausedAreAwaited`).

`PipelineProofs` proves `QueueIsExact`, `NodesRunInOrder` and that no step changes the status of
a node that ended, for any pipelines over any finite set of nodes. In `IInv` the parts lean on
each other: a cascade hits only pending nodes that are not queued (`CascadeHitsPending`)
because whatever follows an unfinished node has an unfinished dependency, so it was never
started and is not ready. Auxiliary conjuncts say that unselected nodes count as skipped, that
what is busy is in flight and what is in flight has begun, that the selection is closed
under dependencies (`SelectionCloses`, from `ReachableIsClosed`), and that `execute()`
returns only when drained or after a fatal condition. `EveryNodeEnds` then follows from
the graph having no cycle: were a node left, one of those left would have only ended
dependencies, and it would be queued. For `DryRunForetells` one more fact is kept: a node
that works or completed had a condition that held and still does (`StartsWhenHolds`, because
a condition looks only at nodes that have ended). When no node failed, the set of completed
nodes is then one the dry run could not skip (`CompletedAreNotSkipped`), and whatever else was
selected is behind a node it skips (`OthersAreBehindSkips`): both by going through the least
closed sets of the dry run, without an induction over the graph.

`DaemonProofs` builds three layers. `TypeInv` types the state with the round that is under way
(`RoundsInv`). `ExecutionInv` adds where an execution may be after which of its results
(`FlowInv`) and how many calls its agents can have had by then (`CallsInv`); from it follow
`UnverifiedWorkStaysIn` and `AgentCallsBounded`. `DaemonInv` adds the queue, the rows and the
locks (`QueueInv`, `RowsInv`, `LocksInv`) across `Crash` and `Restart`, from which
`TablesTellTheTruth` follows. The refinement to `RunLedger` goes through the actions:
submission accepts, `EndRun` ends and takes up the next, a crash returns what was executed,
everything else is unseen.

`MergeDaemonProofs` proves one invariant of both mergers (`MergeInv`): types, the discipline of the
queue (`WaitersAreServed`: while requests wait a merge is under way whose end takes the next),
and that past the review a pull request is approved. From it follow `QueueIsSerial`
(`Spec => ImplementsSerialQueue`) and `MergedOnlyIfApproved`.

`TrackerProofs` and `HostProofs` treat one service after the other; the services share no
variable. The arguments that carry them:

- GitHub and Linear (`TrackerInv`): what stayed open and labelled since a poll began is still to
  be enriched or already among its answers (`StaysInSight`), and while the cached tag is the
  current one the cached list is whole. Notion (`NotionInv`): an edit is offered, in the answer
  that is being read, newer than the last poll, or known to have slipped; whoever is throttled
  waits, alone, for the oldest request of the window.
- `IssueIntake`: an issue dispatched once is in one place. `ReactiveIssues`: until evaluators
  overlap one is at work and knows every open issue but those its query missed; the daily count
  leaves room for those being created. `Schedules`: what a tick is to start is new, what it noted
  it has seen, and what passed the gates is still due.
- `ChatOps`: dispatching an issue without an agent gives it one. `ParentRollup`: until rollups
  overlap there is one at a time and one live comment, which it found. `PRDescriptions`: who
  writes has read what is there, unless it was edited in between.
- `IssueGraph` (`GraphInv`): the gray issues are the calls under way, each made by the one before
  it, and all that an issue left for good leads to was left before. So a neighbour on the path is a
  cycle along the parents, and when nothing is left to visit no set of issues is stuck: of the
  issues left, the one left first waits for none of the others. The cycle itself is followed step
  by step up the path. For the count, what was met waits for the issue and what waits for
  what was met was met or is on the stack; with an empty stack the set met is closed, hence it
  is the least closed set. `StuckMeansWaitingForOneself` joins the two promises: some of finitely
  many issues can never start exactly if one of them is among what waits for it.
- `Decomposition` (`DecInv`): relations are some of those the plan asks for, and all of them when
  the flow ends; the code's test of that is a number, and equal numbers are equal sets
  because the plan's are finite (`WantedIsFinite`).
- `ReviewRecords` (`RecordsInv`): rows are those of rounds 1 to the longest life, since a new life
  starts again at 1 and adds at most one beyond; the first review of all wrote the first row, and
  `upsert` takes no approval back; only what the daemon merged, and got the answer, is at the analysis of its merge. The
  sums of the reports are sizes of sets of rounds, which makes their comparison one of sets.
- `HostRepo` (`HostInv`): the lock is held from the branch of a fan-in node to its merge, so that
  the branch contains all upstream work, and main returns with that of every completed node; the
  owner of the lock is the first in its queue, which is what `SerialQueue` needs.
- `Workspaces`: attempts that may not share a directory are made one after the other, and a copy
  contains only what was pushed. `AgentSession`: until a turn times out, an end on its way is
  that of the turn that waits. `WorkflowReload`: until reloads cross there is one, and the last
  edit is noticed, being read or about to be applied.
- `Delegation` (`DelegationInv`): a child at work has a pending row of its own with its subtask,
  beyond the fork at most one child works, and each pending row is accounted for. A recovery
  first repeats the subtasks it has found, row by row, and later rows account for those it
  leaves as they are. The steps of a delegation are then those of `ForkJoin`: dispatching forks, an end of a child
  settles, a rewritten attempt repeats, the last child leads to the join.

Assumptions are the named `ASSUME`s: finite sets of issues, nodes, ticks, evaluators, schedules and
reviewed pull requests, positive slots, parallelism and promotion threshold (3 in
`review-findings.ts:45`), natural limits, graphs without cycles, tokens refreshed before
they end, null values and shared names (`NoIssue`, `Main`, `SharedDir`, `Loop`) distinct from the
real ones, plans and deployments of the stated types. The bounds of the counters (`MaxRows`,
`MaxTexts` and the like) are constants as well: the theorems hold for any of them.

Only model-checked are:

- liveness, which needs `ENABLED`: `NothingIsHeldForEver`, `PausedTasksResume`, `EventuallyReturns`,
  `SubmittedRunsEnd`, `EveryRequestSettles`, `PollsReturn` and `ServicesEnd`. That the analyses of
  `IssueGraph` end is part of the last;
- the four failing runs, and that the properties are not hollow: each is violated by a
  plausible change of one definition.

Every other property of the runs is a theorem.

## Not modelled

- Feature branches; child slots, which only delegation looks at and nothing registers.
- What a reload of WORKFLOW.md does not reach (skills, validation, autonomy stay those of the
  start), and that a tick under way goes on with the prompt it began with.
- Files mode of pipelines, and the text that loops feed back.
- Checkpoints of the run table: they are saved under an id recovery does not look for, so
  recovery finds none. `pauseRun`, resume, approvals: nothing in the program reaches them.
- Scheduled QA: its scan of coverage gaps returns nothing.
- Comments, labels, metrics, costs, traces, check runs, logs, alerts, the command line and the
  dashboards: output, which no modelled behaviour reads.
- Prompts, scaffolds, schemas, configuration, skills, images, networks, secrets, the
  outcome analyzer and the cost predictor: text, plain values, or calls to external tools.
- What a Linear team without any of the five state names does to the query of `ReactiveIssues`: it
  drops the filter of states, closed issues are found as well, and fewer are opened.
- Pagination and back-off inside one request: a request answers or fails. That one fails whose
  effect has happened is modelled where something depends on it (`MergeAnswerIsLost`).

## Plan

What would come next: the replacement of a slot manager inside `Orchestrator`; the services that
are checked alone composed in pairs, delegation with the orchestrator's slots first; the
validation of pipelines and plans around the search of `IssueGraph`, whose nodes carry more than edges.
