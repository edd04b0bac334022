--------------------------- MODULE WorkflowReload ---------------------------
(***************************************************************************)
(* The hot reload of WORKFLOW.md: it is read once before the orchestrator is *)
(* started and watched afterwards (daemon/server.ts, workflow/watcher.ts),   *)
(* and each reload puts its prompt and its slots into the orchestrator       *)
(* (applyConfig), whose ticks and webhooks start agents meanwhile. A reload   *)
(* merges the same daemon configuration again, so the slots asked for never  *)
(* change.                                                                 *)
(***************************************************************************)
EXTENDS Naturals, FiniteSets, FiniteSetsExt

CONSTANTS
    Jobs,            \* the issues
    Reloads,         \* identities of reloads under way
    MaxAgents,       \* bound: largest max_concurrent_agents
    MaxChildSlots,   \* bound: largest child_slots
    MaxFileEdits,    \* bound: edits of WORKFLOW.md
    MaxReplacements  \* bound: slot managers made by applyConfig

Versions == 0 .. MaxFileEdits
DefaultPrompt == MaxFileEdits + 1

ASSUME ReloadAssumption ==
    MaxAgents \in Nat \ {0} /\ {MaxChildSlots, MaxFileEdits, MaxReplacements} \subseteq Nat

VARIABLES
    maxConcurrent, childSlots,   \* max_concurrent_agents and child_slots
    fileVersion, unreadable,     \* WORKFLOW.md; the versions that do not parse
    lifecycle,         \* "loading", "starting", "running", "stopped"
    promptTemplate, \* the version in use
    watchedFrom,    \* the version when watching began, or DefaultPrompt if it has not
    fileEvent,      \* fs.watch has an event for the watcher
    debounceTimer,
    reload,         \* reload[r]: "none", "reading" or "read"
    readVersion,    \* the version that was read
    ownManager,     \* this.slotManager; ticks use number 0 for ever
    job,            \* job[j]: at "idle", "triage" or "running", and its manager
    tickPhase,           \* "idle" or "dispatching"
    toDispatch,     \* the number of issues the tick may still dispatch
    applied,        \* history: the versions applied by reloads
    reloadsCrossed         \* history: two reloads were under way at once

fileVars == << fileVersion, unreadable >>
watchVars == << watchedFrom, fileEvent, debounceTimer, reload, readVersion >>
jobVars == << job, tickPhase, toDispatch >>
reloadVars == << maxConcurrent, childSlots, fileVars, lifecycle, promptTemplate, watchVars, ownManager,
                 jobVars, applied, reloadsCrossed >>

NotDispatched == [at |-> "idle", manager |-> 0]

ReloadInit ==
    /\ maxConcurrent \in 1 .. MaxAgents /\ childSlots \in 0 .. MaxChildSlots
    /\ fileVersion = 0 /\ unreadable \in {{}, {0}}
    /\ lifecycle = "loading" /\ promptTemplate = DefaultPrompt
    /\ watchedFrom = DefaultPrompt /\ fileEvent = FALSE /\ debounceTimer = FALSE
    /\ reload = [r \in Reloads |-> "none"] /\ readVersion = [r \in Reloads |-> 0]
    /\ ownManager = 0
    /\ job = [j \in Jobs |-> NotDispatched] /\ tickPhase = "idle" /\ toDispatch = 0
    /\ applied = {} /\ reloadsCrossed = FALSE

-----------------------------------------------------------------------------
(* TwoTierSlotManager: children never register, agents do once started.      *)

(* createTwoTierSlotManager                                                *)
topLevelMax == Max({1, maxConcurrent - childSlots})

Registered(m) == {j \in Jobs : job[j] = [at |-> "running", manager |-> m]}
availableTopLevelSlots(m) == Max({0, topLevelMax - Cardinality(Registered(m))})

(* Fault: only the slots of the tracker's issues are counted.               *)
getMaxOfTopLevel == topLevelMax

getMax == topLevelMax + childSlots

(* The other test, on the child slots, is never true: nobody registers one.  *)
ReplacesManager == maxConcurrent # getMax

-----------------------------------------------------------------------------
(* The file and the watcher. A version that parses is a version.            *)

Watching == watchedFrom # DefaultPrompt /\ lifecycle # "stopped"

EditFile ==
    /\ fileVersion < MaxFileEdits
    /\ fileVersion' = fileVersion + 1
    /\ unreadable' \in {unreadable, unreadable \cup {fileVersion + 1}}
    /\ fileEvent' = (fileEvent \/ Watching)
    /\ UNCHANGED << maxConcurrent, childSlots, lifecycle, promptTemplate, watchedFrom, debounceTimer, reload,
                    readVersion, ownManager, jobVars, applied, reloadsCrossed >>

(* loadWorkflowFile at startup: a file that fails to load is like none.      *)
LoadAtStartup ==
    /\ lifecycle = "loading" /\ lifecycle' = "starting"
    /\ promptTemplate' = IF fileVersion \in unreadable THEN DefaultPrompt ELSE fileVersion
    /\ UNCHANGED << maxConcurrent, childSlots, fileVars, watchVars, ownManager, jobVars, applied, reloadsCrossed >>

(* The orchestrator has been started, which took requests to the tracker;    *)
(* only now the file is watched, and only if it was loaded.                  *)
StartWatching ==
    /\ lifecycle = "starting" /\ lifecycle' = "running"
    /\ watchedFrom' = IF promptTemplate = DefaultPrompt THEN DefaultPrompt ELSE fileVersion
    /\ UNCHANGED << maxConcurrent, childSlots, fileVars, promptTemplate, fileEvent, debounceTimer, reload,
                    readVersion, ownManager, jobVars, applied, reloadsCrossed >>

(* Fault: events are ignored while a reload is under way.                   *)
FileEventUnlessReloading ==
    /\ fileEvent /\ Watching
    /\ fileEvent' = FALSE
    /\ debounceTimer' = (debounceTimer \/ \A r \in Reloads : reload[r] = "none")
    /\ UNCHANGED << maxConcurrent, childSlots, fileVars, lifecycle, promptTemplate, watchedFrom, reload,
                    readVersion, ownManager, jobVars, applied, reloadsCrossed >>

(* Every event arms the timer anew.                                        *)
FileEvent ==
    /\ fileEvent /\ Watching
    /\ fileEvent' = FALSE /\ debounceTimer' = TRUE
    /\ UNCHANGED << maxConcurrent, childSlots, fileVars, lifecycle, promptTemplate, watchedFrom, reload,
                    readVersion, ownManager, jobVars, applied, reloadsCrossed >>

BeginReload(r) ==
    /\ debounceTimer /\ reload[r] = "none"
    /\ debounceTimer' = FALSE
    /\ reload' = [reload EXCEPT ![r] = "reading"]
    /\ reloadsCrossed' = (reloadsCrossed \/ \E q \in Reloads : reload[q] # "none")
    /\ UNCHANGED << maxConcurrent, childSlots, fileVars, lifecycle, promptTemplate, watchedFrom, fileEvent,
                    readVersion, ownManager, jobVars, applied >>

(* readFile has the content; its promise resolves later.                    *)
ReadFile(r) ==
    /\ reload[r] = "reading"
    /\ reload' = [reload EXCEPT ![r] = "read"]
    /\ readVersion' = [readVersion EXCEPT ![r] = fileVersion]
    /\ UNCHANGED << maxConcurrent, childSlots, fileVars, lifecycle, promptTemplate, watchedFrom, fileEvent,
                    debounceTimer, ownManager, jobVars, applied, reloadsCrossed >>

(* In-flight workers keep the manager they are registered with.             *)
applyConfig(v) ==
    /\ promptTemplate' = v
    /\ IF ReplacesManager
       THEN ownManager < MaxReplacements /\ ownManager' = ownManager + 1
       ELSE UNCHANGED ownManager
    /\ applied' = applied \cup {v}

(* What cannot be parsed is a warning. A reload goes on after stop().        *)
EndReload(r) ==
    /\ reload[r] = "read"
    /\ reload' = [reload EXCEPT ![r] = "none"]
    /\ IF readVersion[r] \in unreadable
       THEN UNCHANGED << promptTemplate, ownManager, applied >>
       ELSE applyConfig(readVersion[r])
    /\ UNCHANGED << maxConcurrent, childSlots, fileVars, lifecycle, watchedFrom, fileEvent, debounceTimer,
                    readVersion, jobVars, reloadsCrossed >>

StopWatching ==
    /\ lifecycle = "running" /\ lifecycle' = "stopped"
    /\ fileEvent' = FALSE /\ debounceTimer' = FALSE
    /\ UNCHANGED << maxConcurrent, childSlots, fileVars, promptTemplate, watchedFrom, reload, readVersion,
                    ownManager, jobVars, applied, reloadsCrossed >>

-----------------------------------------------------------------------------
(* Agents, as far as their slots go.                                        *)

SlotsOnly == UNCHANGED << maxConcurrent, childSlots, fileVars, lifecycle, promptTemplate, watchVars, ownManager,
                          applied, reloadsCrossed >>

dispatchTo(j, m) == job[j] = NotDispatched /\ job' = [job EXCEPT ![j] = [at |-> "triage", manager |-> m]]

(* Orchestrator.dispatchIssue, of webhooks and commands, looks at no slots.  *)
DispatchByWebhook(j) ==
    /\ lifecycle = "running"
    /\ dispatchTo(j, ownManager)
    /\ UNCHANGED << tickPhase, toDispatch >> /\ SlotsOnly

(* A tick counts once, with the manager it was given when it began: 0.       *)
CountSlots ==
    /\ lifecycle \in {"starting", "running"}
    /\ tickPhase = "idle" /\ tickPhase' = "dispatching"
    /\ toDispatch' = availableTopLevelSlots(0)
    /\ UNCHANGED job /\ SlotsOnly

DispatchByTick(j) ==
    /\ tickPhase = "dispatching" /\ toDispatch > 0
    /\ toDispatch' = toDispatch - 1
    /\ dispatchTo(j, 0)
    /\ UNCHANGED tickPhase /\ SlotsOnly

(* There may be fewer issues than slots.                                    *)
EndTick ==
    /\ tickPhase = "dispatching" /\ tickPhase' = "idle" /\ toDispatch' = 0
    /\ UNCHANGED job /\ SlotsOnly

(* Triage passes and the agent is registered, or it does not.               *)
TriageEnds(j) ==
    /\ job[j].at = "triage"
    /\ \/ job' = [job EXCEPT ![j].at = "running"]
       \/ job' = [job EXCEPT ![j] = NotDispatched]
    /\ UNCHANGED << tickPhase, toDispatch >> /\ SlotsOnly

AgentLeaves(j) ==
    /\ job[j].at = "running"
    /\ job' = [job EXCEPT ![j] = NotDispatched]
    /\ UNCHANGED << tickPhase, toDispatch >> /\ SlotsOnly

ReloadNext ==
    \/ EditFile \/ LoadAtStartup \/ StartWatching \/ FileEvent \/ StopWatching
    \/ \E r \in Reloads : BeginReload(r) \/ ReadFile(r) \/ EndReload(r)
    \/ CountSlots \/ EndTick
    \/ \E j \in Jobs : DispatchByWebhook(j) \/ DispatchByTick(j) \/ TriageEnds(j) \/ AgentLeaves(j)

ReloadSpec == ReloadInit /\ [][ReloadNext]_reloadVars

-----------------------------------------------------------------------------

(* The slots a tick counts are those that agents leave free, however often   *)
(* the file is reloaded between two dispatches - unless child_slots leaves   *)
(* no slot to the tracker's issues: getMax() is then above the configured    *)
(* maximum, every reload replaces the manager of the webhooks, and ticks no   *)
(* longer see the agents these start.                                       *)
TicksCountEveryAgent ==
    childSlots < maxConcurrent =>
        availableTopLevelSlots(0) = Max({0, topLevelMax - Cardinality({j \in Jobs : job[j].at = "running"})})

(* An edit is not lost: when the watcher has nothing left to do, the prompt   *)
(* is that of the file, if it can be read - or it was, and a reload that had  *)
(* read an older version ended later. An edit during the start is not seen.  *)
EditsAreApplied ==
    LET quiet == ~fileEvent /\ ~debounceTimer /\ \A r \in Reloads : reload[r] = "none"
    IN  Watching /\ quiet /\ fileVersion > watchedFrom /\ fileVersion \notin unreadable =>
            promptTemplate = fileVersion \/ (reloadsCrossed /\ fileVersion \in applied)

(* Both promises about a reload.                                            *)
ReloadsAreApplied == TicksCountEveryAgent /\ EditsAreApplied
=============================================================================
