-------------------------- MODULE OrchestratorState --------------------------
(***************************************************************************)
(* The mutable state the whole orchestrator shares, and the operations on  *)
(* it: orchestrator/state.ts (claims, running map, slots), the timers of    *)
(* orchestrator/retry.ts and the candidate filter of dispatcher.ts.         *)
(*                                                                         *)
(* JavaScript runs one callback at a time, so each operation below is one   *)
(* indivisible update; the interleaving is in the modules that use them.    *)
(***************************************************************************)
EXTENDS Integers, FiniteSets, Sequences, SequencesExt

CONSTANTS
    Issues,       \* issue ids of the tracker
    Workers,      \* identities of agent executions; one is reused when it ended
    NoIssue,      \* "no issue": a worker or a tick that handles none
    NoWorker,     \* "no entry" in the maps keyed by issue id
    MaxRetries,   \* orchestrator.max_retries
    TopLevelMax,  \* max(1, max_concurrent_agents - child_slots)
    Children,     \* the sub-issues of the one parent the sub-issue cache may hold
    Blockers,     \* Blockers[i]: the ids in issue i's blocked_by
    NoEntry       \* the parent's cache entry is absent or expired

ASSUME IssuesAssumption      == IsFiniteSet(Issues)
ASSUME MaxRetriesAssumption  == MaxRetries \in Nat
ASSUME TopLevelMaxAssumption == TopLevelMax \in Nat \ {0}
ASSUME NoIssueAssumption     == NoIssue \notin Issues
ASSUME NoWorkerAssumption    == NoWorker \notin Workers
ASSUME ChildrenAssumption    == Children \subseteq Issues
ASSUME BlockersAssumption    == Blockers \in [Issues -> SUBSET Issues]

(* A value of Blockers: no issue waits for another.                         *)
NoBlockers == [i \in Issues |-> {}]

(* Another: a parent waits for its sub-issues, as the GitHub adapter links   *)
(* them.                                                                   *)
ParentWaits == [i \in Issues |-> IF i \in Children THEN {} ELSE Children]

VARIABLES
    claimed,            \* state.claimed
    running,            \* state.running: issue -> the worker registered for it
    topLevelRunning,    \* TwoTierSlotManager.topLevelRunning, keyed the same way
    retryTimers,        \* issues with a timer in state.retryTimers
    orphanTimers,       \* timers still armed after stop() emptied the map
    retryAttempts,      \* state.retryAttempts; 0 is "no entry"
    recentlyCompleted,  \* keys of state.recentlyCompleted
    closedChildren      \* the cached childStates that are terminal, or NoEntry

stateVars == << claimed, running, topLevelRunning, retryTimers, orphanTimers,
                retryAttempts, recentlyCompleted, closedChildren >>

StateTypeOK ==
    /\ claimed \subseteq Issues
    /\ running \in [Issues -> Workers \cup {NoWorker}]
    /\ topLevelRunning \in [Issues -> Workers \cup {NoWorker}]
    /\ retryTimers \subseteq Issues
    /\ orphanTimers \subseteq Issues
    /\ retryAttempts \in [Issues -> Nat]
    /\ recentlyCompleted \subseteq Issues
    /\ closedChildren = NoEntry \/ closedChildren \subseteq Children

createState ==
    /\ claimed = {}
    /\ running = [i \in Issues |-> NoWorker]
    /\ topLevelRunning = [i \in Issues |-> NoWorker]
    /\ retryTimers = {}
    /\ orphanTimers = {}
    /\ retryAttempts = [i \in Issues |-> 0]
    /\ recentlyCompleted = {}
    /\ closedChildren = NoEntry

-----------------------------------------------------------------------------
(* Helper state formulae *)

RunningIds == {i \in Issues : running[i] # NoWorker}
SlotHolders == {i \in Issues : topLevelRunning[i] # NoWorker}

(* Fault: the slots in use are not subtracted. *)
AvailableIgnoringUse == TopLevelMax

AvailableTopLevelSlots ==
    Max({0, TopLevelMax - Cardinality(SlotHolders)})

Registered(map, w) == {i \in Issues : map[i] = w}

(* Whether one more failure of i still leaves a retry. *)
RetryLeft(i) == retryAttempts[i] + 1 < MaxRetries

(* The issues a tick may dispatch. "done" are the candidates that carry     *)
(* the done label; a blocker counts as resolved when the sub-issue cache   *)
(* says so, whatever the tracker would say now.                            *)
filterCandidates(candidates, done, terminalIds) ==
    {i \in candidates :
        /\ i \notin recentlyCompleted
        /\ i \notin claimed
        /\ running[i] = NoWorker
        /\ i \notin done
        /\ Blockers[i] \subseteq terminalIds}

(* What slice(0, available) can keep of the eligible issues: the order by   *)
(* criticality, priority, age and identifier is left open.                 *)
DispatchOrders(eligible, available) ==
    LET kept == Min({Cardinality(eligible), available})
    IN  UNION {SetToSeqs(chosen) : chosen \in kSubset(kept, eligible)}

-----------------------------------------------------------------------------
(* Operations. Each constrains the next value of the variables it names in  *)
(* its comment and of no other.                                            *)

(* claimed, running, retryAttempts, retryTimers *)
releaseIssue(i) ==
    /\ claimed' = claimed \ {i}
    /\ running' = [running EXCEPT ![i] = NoWorker]
    /\ retryAttempts' = [retryAttempts EXCEPT ![i] = 0]
    /\ retryTimers' = retryTimers \ {i}

(* retryTimers: a timer already there is cancelled and replaced. *)
scheduleRetry(i) == retryTimers' = retryTimers \cup {i}

(* topLevelRunning *)
releaseTopLevel(i) == topLevelRunning' = [topLevelRunning EXCEPT ![i] = NoWorker]

(* recentlyCompleted: whatever is older than an hour goes; ages are open. *)
pruneStaleState ==
    \E old \in SUBSET recentlyCompleted : recentlyCompleted' = recentlyCompleted \ old

=============================================================================
