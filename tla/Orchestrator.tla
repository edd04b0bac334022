---------------------------- MODULE Orchestrator ----------------------------
(***************************************************************************)
(* The orchestrator daemon: scheduler ticks (scheduler.ts, reconciler.ts),  *)
(* dispatch from ticks and from webhooks, endpoints and commands            *)
(* (dispatcher.ts, index.ts), the agent executions they start, the retry    *)
(* timers and the shutdown.                                                 *)
(*                                                                         *)
(* Every await of the code is a point where the other callbacks may run:   *)
(* an action is the code between two awaits. The tracker is external and   *)
(* unconstrained, so what a request returns is chosen when it is read.     *)
(* Usage-limit recovery is switched off (agent.usage_limit.enabled false). *)
(***************************************************************************)
EXTENDS OrchestratorState

LOCAL INSTANCE TLC

CONSTANTS
    Ticks,       \* concurrent ticks: the scheduler loop's, and triggerTick's
    Webhooks,    \* whether dispatchIssue is also called from outside a tick
    MaxIncoming, \* bound: such calls suspended before the claim at once
    CanStop,     \* whether stop() may be called
    TrackerKind, \* "github", or "linear" with terminal states like Done, Canceled
    GithubContext \* whether the dispatcher has a GitHub client for comments

ASSUME TicksAssumption == IsFiniteSet(Ticks)
ASSUME SwitchesAssumption ==
    /\ Webhooks \in BOOLEAN
    /\ CanStop \in BOOLEAN
    /\ TrackerKind \in {"github", "linear"}
    /\ GithubContext \in BOOLEAN

VARIABLES
    phase,     \* phase[w]: where executeWorkerAndHandle of w stands
    job,       \* job[w]: the issue w works on
    tickPc,    \* tickPc[t]: the await tick t is suspended at
    snapshot,  \* snapshot[t]: issues the current loop of reconcile has left
    stopping,  \* stopping[t]: the issue whose cleanup reconcile awaits
    queue,     \* queue[t]: issues tick t has left to dispatch
    incoming,  \* dispatchIssue calls from outside a tick, suspended in triage
    mode       \* Orchestrator: "running", "stopping" (in stop()), "stopped"

workerVars == << phase, job >>
tickVars == << tickPc, snapshot, stopping, queue >>
vars == << stateVars, workerVars, tickVars, incoming, mode >>

WorkerPhases == {"idle", "executing", "succeeded", "exceeded", "failed"}
TickPcs == {"idle", "states", "stops", "stalls", "drain", "candidates", "dispatch"}

Live(w) == phase[w] # "idle"

TypeOK ==
    /\ StateTypeOK
    /\ phase \in [Workers -> WorkerPhases]
    /\ job \in [Workers -> Issues \cup {NoIssue}]
    /\ tickPc \in [Ticks -> TickPcs]
    /\ snapshot \in [Ticks -> SUBSET Issues]
    /\ stopping \in [Ticks -> Issues \cup {NoIssue}]
    /\ queue \in [Ticks -> Seq(Issues)]
    /\ incoming \subseteq Issues
    /\ mode \in {"running", "stopping", "stopped"}

Init ==
    /\ createState
    /\ phase = [w \in Workers |-> "idle"]
    /\ job = [w \in Workers |-> NoIssue]
    /\ tickPc = [t \in Ticks |-> "idle"]
    /\ snapshot = [t \in Ticks |-> {}]
    /\ stopping = [t \in Ticks |-> NoIssue]
    /\ queue = [t \in Ticks |-> << >>]
    /\ incoming = {}
    /\ mode = "running"

-----------------------------------------------------------------------------
(* Reconcile: the first half of a tick *)

GoTo(t, pc) == tickPc' = [tickPc EXCEPT ![t] = pc]

(* Prune, then reconcile asks for the states of what runs, if anything does. *)
TickStart(t) ==
    /\ tickPc[t] = "idle"
    /\ mode = "running"
    /\ pruneStaleState
    /\ GoTo(t, IF RunningIds = {} THEN "drain" ELSE "states")
    /\ snapshot' = [snapshot EXCEPT ![t] = RunningIds]
    /\ UNCHANGED << claimed, running, topLevelRunning, retryTimers, orphanTimers,
                    retryAttempts, closedChildren, workerVars, stopping, queue,
                    incoming, mode >>

(* On failure all workers are kept and stalls are not looked for; otherwise *)
(* some of the issues turn out to be terminal or no longer active.         *)
FetchStates(t) ==
    /\ tickPc[t] = "states"
    /\ \/ GoTo(t, "drain") /\ snapshot' = [snapshot EXCEPT ![t] = {}]
       \/ \E leaving \in SUBSET snapshot[t] :
            GoTo(t, "stops") /\ snapshot' = [snapshot EXCEPT ![t] = leaving]
    /\ UNCHANGED << stateVars, workerVars, stopping, queue, incoming, mode >>

(* An issue that left the active states and is still in the running map:    *)
(* await its cleanup. The session is null, so this stops no agent.         *)
BeginStop(t, i) ==
    /\ tickPc[t] = "stops"
    /\ stopping[t] = NoIssue
    /\ i \in snapshot[t]
    /\ running[i] # NoWorker
    /\ stopping' = [stopping EXCEPT ![t] = i]
    /\ snapshot' = [snapshot EXCEPT ![t] = @ \ {i}]
    /\ UNCHANGED << stateVars, workerVars, tickPc, queue, incoming, mode >>

(* After the cleanup the entry goes, whichever worker it names by now; if   *)
(* removing the workspace threw, the loop logs it and goes on.             *)
FinishStop(t) ==
    /\ stopping[t] # NoIssue
    /\ \/ releaseIssue(stopping[t])
       \/ UNCHANGED << claimed, running, retryAttempts, retryTimers >>
    /\ stopping' = [stopping EXCEPT ![t] = NoIssue]
    /\ UNCHANGED << topLevelRunning, orphanTimers, recentlyCompleted, closedChildren,
                    workerVars, tickPc, snapshot, queue, incoming, mode >>

(* The entries with no activity for stall_timeout_ms. *)
BeginStalls(t) ==
    /\ tickPc[t] = "stops"
    /\ stopping[t] = NoIssue
    /\ \A i \in snapshot[t] : running[i] = NoWorker
    /\ \E stalled \in SUBSET RunningIds :
        /\ snapshot' = [snapshot EXCEPT ![t] = stalled]
        /\ GoTo(t, IF stalled = {} THEN "drain" ELSE "stalls")
    /\ UNCHANGED << stateVars, workerVars, stopping, queue, incoming, mode >>

(* The cleanup of a stalled entry came back: drop the entry and retry the   *)
(* issue if its budget allows. The agent is not stopped here either.       *)
FinishStall(t, i) ==
    /\ tickPc[t] = "stalls"
    /\ i \in snapshot[t]
    /\ \/ /\ RetryLeft(i)
          /\ running' = [running EXCEPT ![i] = NoWorker]
          /\ retryAttempts' = [retryAttempts EXCEPT ![i] = @ + 1]
          /\ scheduleRetry(i)
          /\ UNCHANGED claimed
       \/ /\ ~RetryLeft(i)
          /\ releaseIssue(i)
    /\ snapshot' = [snapshot EXCEPT ![t] = @ \ {i}]
    /\ GoTo(t, IF snapshot[t] = {i} THEN "drain" ELSE "stalls")
    /\ UNCHANGED << topLevelRunning, orphanTimers, recentlyCompleted, closedChildren,
                    workerVars, stopping, queue, incoming, mode >>

-----------------------------------------------------------------------------
(* Drain, fetch and dispatch: the second half of a tick *)

(* Step 1.5: claims without a running entry are taken for stale. *)
Drain(t) ==
    /\ tickPc[t] = "drain"
    /\ claimed' = claimed \cap RunningIds
    /\ GoTo(t, "candidates")
    /\ snapshot' = [snapshot EXCEPT ![t] = {}]
    /\ UNCHANGED << running, topLevelRunning, retryTimers, orphanTimers, retryAttempts,
                    recentlyCompleted, closedChildren, workerVars, stopping, queue,
                    incoming, mode >>

(* fetchCandidateIssues fills the cache when the parent has no entry (and   *)
(* is a candidate, and the rate limit allows it).                          *)
FillCache ==
    \/ UNCHANGED closedChildren
    \/ /\ closedChildren = NoEntry
       /\ Children # {}
       /\ closedChildren' \in SUBSET Children

TerminalIds(cache) == IF cache = NoEntry THEN {} ELSE cache

(* Candidates arrive: filter them and take as many as there are free slots, *)
(* counted once for the whole dispatch loop. On failure the tick ends.     *)
FetchCandidates(t) ==
    /\ tickPc[t] = "candidates"
    /\ \/ /\ GoTo(t, "idle")
          /\ UNCHANGED << closedChildren, queue >>
       \/ /\ FillCache
          /\ \E candidates \in SUBSET Issues : \E done \in SUBSET candidates :
              LET eligible == filterCandidates(candidates, done, TerminalIds(closedChildren'))
              IN  \E order \in DispatchOrders(eligible, AvailableTopLevelSlots) :
                    /\ queue' = [queue EXCEPT ![t] = order]
                    /\ GoTo(t, IF order = << >> THEN "idle" ELSE "dispatch")
    /\ UNCHANGED << claimed, running, topLevelRunning, retryTimers, orphanTimers,
                    retryAttempts, recentlyCompleted, workerVars, snapshot, stopping,
                    incoming, mode >>

(* Fault: the result of claimIssue is ignored. *)
StartWorkerUnchecked(i) ==
    /\ claimed' = claimed \cup {i}
    /\ \E w \in Workers :
        /\ ~Live(w)
        /\ running' = [running EXCEPT ![i] = w]
        /\ topLevelRunning' = [topLevelRunning EXCEPT ![i] = w]
        /\ phase' = [phase EXCEPT ![w] = "executing"]
        /\ job' = [job EXCEPT ![w] = i]

(* dispatchIssue from the claim on: register an agent and let it run. The   *)
(* claim is the only check: no slot, filter or mode is looked at again.    *)
(* Workers bounds the agents alive at once.                                *)
StartWorker(i) ==
    /\ i \notin claimed
    /\ claimed' = claimed \cup {i}
    /\ \E w \in Workers :
        /\ ~Live(w)
        /\ running' = [running EXCEPT ![i] = w]
        /\ topLevelRunning' = [topLevelRunning EXCEPT ![i] = w]
        /\ phase' = [phase EXCEPT ![w] = "executing"]
        /\ job' = [job EXCEPT ![w] = i]

(* Triage declines, a new-project issue was handled, or i is claimed. *)
SkipIssue == UNCHANGED << claimed, running, topLevelRunning, workerVars >>

DispatchNext(t) ==
    /\ tickPc[t] = "dispatch"
    /\ StartWorker(Head(queue[t])) \/ SkipIssue
    /\ queue' = [queue EXCEPT ![t] = Tail(@)]
    /\ GoTo(t, IF Len(queue[t]) = 1 THEN "idle" ELSE "dispatch")
    /\ UNCHANGED << retryTimers, orphanTimers, retryAttempts, recentlyCompleted,
                    closedChildren, snapshot, stopping, incoming, mode >>

-----------------------------------------------------------------------------
(* Dispatch from outside a tick: GitHub webhooks, commands and reactions,   *)
(* dispatch endpoint, scheduled QA                                          *)

dispatchIssue(i) ==
    /\ Webhooks
    /\ mode = "running"
    /\ Cardinality(incoming) < MaxIncoming
    /\ incoming' = incoming \cup {i}
    /\ UNCHANGED << stateVars, workerVars, tickVars, mode >>

DispatchIncoming(i) ==
    /\ i \in incoming
    /\ StartWorker(i) \/ SkipIssue
    /\ incoming' = incoming \ {i}
    /\ UNCHANGED << retryTimers, orphanTimers, retryAttempts, recentlyCompleted,
                    closedChildren, tickVars, mode >>

-----------------------------------------------------------------------------
(* executeWorkerAndHandle *)

EndWorker(w) ==
    /\ phase' = [phase EXCEPT ![w] = "idle"]
    /\ job' = [job EXCEPT ![w] = NoIssue]

(* Fault: the error path forgets the slot. *)
WorkerThrowsKeepsSlot(w) ==
    /\ phase[w] = "executing"
    /\ releaseIssue(job[w])
    /\ EndWorker(w)
    /\ UNCHANGED << topLevelRunning, orphanTimers, recentlyCompleted, closedChildren,
                    tickVars, incoming, mode >>

(* executeWorker rejected: everything of the issue goes, with no retry. *)
WorkerThrows(w) ==
    /\ phase[w] = "executing"
    /\ releaseIssue(job[w])
    /\ releaseTopLevel(job[w])
    /\ EndWorker(w)
    /\ UNCHANGED << orphanTimers, recentlyCompleted, closedChildren, tickVars,
                    incoming, mode >>

(* triggerParentRollup sets a returned child "closed" in the cached entry,  *)
(* whatever the agent's status. That is a terminal state only on GitHub.   *)
RollupMarkAnyTracker(i) ==
    closedChildren' = IF GithubContext /\ closedChildren # NoEntry /\ i \in Children
                      THEN closedChildren \cup {i} ELSE closedChildren

RollupMark(i) ==
    closedChildren' =
        IF ~GithubContext \/ closedChildren = NoEntry \/ i \notin Children
        THEN closedChildren
        ELSE IF TrackerKind = "github" THEN closedChildren \cup {i}
             ELSE closedChildren \ {i}

(* Fault: the slot is kept until the pull request is made. *)
WorkerReturnsKeepsSlot(w) ==
    /\ phase[w] = "executing"
    /\ running' = [running EXCEPT ![job[w]] = NoWorker]
    /\ RollupMark(job[w])
    /\ \E outcome \in {"succeeded", "exceeded", "failed"} :
        phase' = [phase EXCEPT ![w] = outcome]
    /\ UNCHANGED << claimed, topLevelRunning, retryTimers, orphanTimers, retryAttempts,
                    recentlyCompleted, job, tickVars, incoming, mode >>

(* executeWorker resolved: the entries of the issue go at once, the claim   *)
(* stays while the rollup comment and the pull request are awaited.        *)
WorkerReturns(w) ==
    /\ phase[w] = "executing"
    /\ running' = [running EXCEPT ![job[w]] = NoWorker]
    /\ releaseTopLevel(job[w])
    /\ RollupMark(job[w])
    /\ \E outcome \in {"succeeded", "exceeded", "failed"} :
        phase' = [phase EXCEPT ![w] = outcome]
    /\ UNCHANGED << claimed, retryTimers, orphanTimers, retryAttempts, recentlyCompleted,
                    job, tickVars, incoming, mode >>

(* Status "completed": the issue is remembered as completed unless its pull *)
(* request failed or it was a synthesizer run. Linear issues name their    *)
(* parent, whose cache entry is then invalidated.                          *)
FinishSucceeded(w) ==
    /\ phase[w] = "succeeded"
    /\ recentlyCompleted' \in {recentlyCompleted, recentlyCompleted \cup {job[w]}}
    /\ closedChildren' = IF TrackerKind = "linear" /\ job[w] \in Children
                         THEN NoEntry ELSE closedChildren
    /\ releaseIssue(job[w])
    /\ EndWorker(w)
    /\ UNCHANGED << topLevelRunning, orphanTimers, tickVars, incoming, mode >>

(* Cost ceiling exceeded: terminal, no retry. *)
FinishExceeded(w) ==
    /\ phase[w] = "exceeded"
    /\ releaseIssue(job[w])
    /\ EndWorker(w)
    /\ UNCHANGED << topLevelRunning, orphanTimers, recentlyCompleted, closedChildren,
                    tickVars, incoming, mode >>

(* Any other status: count the failure, then back off or give up. *)
FinishFailed(w) ==
    /\ phase[w] = "failed"
    /\ \/ /\ RetryLeft(job[w])
          /\ retryAttempts' = [retryAttempts EXCEPT ![job[w]] = @ + 1]
          /\ scheduleRetry(job[w])
          /\ UNCHANGED << claimed, running >>
       \/ /\ ~RetryLeft(job[w])
          /\ releaseIssue(job[w])
    /\ EndWorker(w)
    /\ UNCHANGED << topLevelRunning, orphanTimers, recentlyCompleted, closedChildren,
                    tickVars, incoming, mode >>

-----------------------------------------------------------------------------
(* Timers, cache expiry, shutdown *)

(* The backoff is over: the callback is releaseIssue. *)
RetryTimerFires(i) ==
    /\ i \in retryTimers
    /\ releaseIssue(i)
    /\ UNCHANGED << topLevelRunning, orphanTimers, recentlyCompleted, closedChildren,
                    workerVars, tickVars, incoming, mode >>

OrphanTimerFires(i) ==
    /\ i \in orphanTimers
    /\ orphanTimers' = orphanTimers \ {i}
    /\ releaseIssue(i)
    /\ UNCHANGED << topLevelRunning, recentlyCompleted, closedChildren, workerVars,
                    tickVars, incoming, mode >>

(* The entry's time to live is over, or a webhook invalidates it. *)
CacheEntryExpires ==
    /\ closedChildren # NoEntry
    /\ closedChildren' = NoEntry
    /\ UNCHANGED << claimed, running, topLevelRunning, retryTimers, orphanTimers,
                    retryAttempts, recentlyCompleted, workerVars, tickVars, incoming, mode >>

(* stop() until its first await: no new tick, no retry timer. *)
BeginShutdown ==
    /\ CanStop
    /\ mode = "running"
    /\ mode' = "stopping"
    /\ retryTimers' = {}
    /\ UNCHANGED << claimed, running, topLevelRunning, orphanTimers, retryAttempts,
                    recentlyCompleted, closedChildren, workerVars, tickVars, incoming >>

(* stop() after its last await. A timer armed meanwhile leaves the map but  *)
(* is not cancelled; agents and suspended ticks are not stopped either.    *)
FinishShutdown ==
    /\ mode = "stopping"
    /\ mode' = "stopped"
    /\ claimed' = {}
    /\ running' = [i \in Issues |-> NoWorker]
    /\ retryTimers' = {}
    /\ orphanTimers' = orphanTimers \cup retryTimers
    /\ retryAttempts' = [i \in Issues |-> 0]
    /\ recentlyCompleted' = {}
    /\ UNCHANGED << topLevelRunning, closedChildren, workerVars, tickVars, incoming >>

-----------------------------------------------------------------------------
TickStep(t) ==
    \/ FetchStates(t)
    \/ \E i \in Issues : BeginStop(t, i) \/ FinishStall(t, i)
    \/ FinishStop(t)
    \/ BeginStalls(t)
    \/ Drain(t)
    \/ FetchCandidates(t)
    \/ DispatchNext(t)

WorkerStep(w) ==
    \/ WorkerThrows(w)
    \/ WorkerReturns(w)
    \/ FinishSucceeded(w)
    \/ FinishExceeded(w)
    \/ FinishFailed(w)

Next ==
    \/ \E t \in Ticks : TickStart(t) \/ TickStep(t)
    \/ \E w \in Workers : WorkerStep(w)
    \/ \E i \in Issues : RetryTimerFires(i) \/ OrphanTimerFires(i)
    \/ \E i \in Issues : dispatchIssue(i) \/ DispatchIncoming(i)
    \/ CacheEntryExpires
    \/ BeginShutdown
    \/ FinishShutdown

Spec == Init /\ [][Next]_vars

(***************************************************************************)
(* Fairness: requests and cleanups are bounded by timeouts, an agent        *)
(* session has its own timeout, and a timer that is armed fires. Whether a  *)
(* tick starts, a webhook arrives or stop() is called is left to chance.   *)
(***************************************************************************)
Fairness ==
    /\ \A t \in Ticks : WF_vars(TickStep(t))
    /\ \A w \in Workers : WF_vars(WorkerStep(w))
    /\ \A i \in Issues : WF_vars(RetryTimerFires(i)) /\ WF_vars(OrphanTimerFires(i))
    /\ WF_vars(FinishShutdown)

FairSpec == Spec /\ Fairness

-----------------------------------------------------------------------------
(* Safety *)

(* An issue in the running map is claimed, so neither the drain of a tick   *)
(* nor a second dispatchIssue can touch the claim of a listed worker.      *)
RunningIsClaimed == RunningIds \subseteq claimed

(* The running map and the slot map name only agents that are executing,   *)
(* for the issue they work on: no entry and no slot outlives its agent,    *)
(* however reconcile, stalls, timers and shutdown remove entries under it. *)
EntriesAreExecuting ==
    \A i \in Issues : \A w \in Workers :
        running[i] = w \/ topLevelRunning[i] = w => phase[w] = "executing" /\ job[w] = i

(* Every listed worker holds a slot: the count a tick subtracts from the    *)
(* limit never falls below the size of the running map.                    *)
RunningHoldsSlot == RunningIds \subseteq SlotHolders

(* The failure count of an issue lives exactly as long as its backoff timer *)
(* (except inside stop()), and a count that is kept leaves a retry: the     *)
(* budget can only run out while a timer is still pending.                 *)
RetryStateMatchesTimer ==
    /\ retryTimers \subseteq {i \in Issues : retryAttempts[i] > 0}
    /\ mode # "stopping" => \A i \in Issues : retryAttempts[i] > 0 => i \in retryTimers
    /\ \A i \in Issues : retryAttempts[i] > 0 => retryAttempts[i] < MaxRetries

(* No claim is ever stale: each has a live agent or a pending timer that    *)
(* will release it, so what the drain of a tick removes is always the claim *)
(* of an issue in backoff or of one whose agent is still finishing.        *)
ClaimHasOwner ==
    mode # "stopping" =>
        \A i \in claimed : i \in retryTimers \/ \E w \in Workers : Live(w) /\ job[w] = i

(* Claims, running map, slots, failure counts and timers, each changed by    *)
(* ticks, workers, timers, webhooks and the shutdown at its own moments,    *)
(* agree with each other and with the agents that execute.                 *)
SharedStateAgrees ==
    /\ RunningIsClaimed
    /\ EntriesAreExecuting
    /\ RunningHoldsSlot
    /\ RetryStateMatchesTimer
    /\ ClaimHasOwner

(* Ticks alone respect the limit: with one tick at a time and no dispatch   *)
(* from outside, the slots in use never exceed it, although the free ones  *)
(* are counted once before the dispatch loop.                              *)
SlotsWithinMax ==
    Cardinality(Ticks) <= 1 /\ ~Webhooks => Cardinality(SlotHolders) <= TopLevelMax

(* The running map implements the registry of agents at work: an entry is  *)
(* never overwritten by another worker's, and none outlives its agent.     *)
Registry == INSTANCE WorkerRegistry WITH
    registry <- running, atWork <- {w \in Workers : phase[w] = "executing"}
ImplementsRegistry == Registry!RegistrySpec

-----------------------------------------------------------------------------
(* Claims of the documentation *)

(* SPEC.md on claimIssue: "exclusive lock, prevents duplicate dispatch". No *)
(* two agents work on one issue at the same time.                          *)
OneAgentPerIssue ==
    \A v, w \in Workers : Live(v) /\ Live(w) /\ job[v] = job[w] => v = w

-----------------------------------------------------------------------------
(* Liveness *)

(* Every claim is eventually released, through the agent's end, the backoff *)
(* timer, a tick or the shutdown.                                          *)
ClaimEventuallyReleased == \A i \in Issues : i \in claimed ~> i \notin claimed

(* Every slot is eventually free again, whichever way its agent ends and    *)
(* whoever dropped its running entry first: slots do not leak.             *)
SlotEventuallyFree ==
    \A i \in Issues : topLevelRunning[i] # NoWorker ~> topLevelRunning[i] = NoWorker

NothingIsHeldForEver == ClaimEventuallyReleased /\ SlotEventuallyFree

-----------------------------------------------------------------------------
(* Model checking *)

(* Issues, agents and ticks are interchangeable when nothing is blocked.    *)
Symmetry == Permutations(Issues) \cup Permutations(Workers) \cup Permutations(Ticks)
=============================================================================
