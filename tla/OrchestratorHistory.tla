------------------------- MODULE OrchestratorHistory -------------------------
(***************************************************************************)
(* The orchestrator watched by an observer that remembers what the code     *)
(* forgets. The observer's variables are only read by properties.          *)
(***************************************************************************)
EXTENDS Orchestrator

VARIABLES
    failuresInARow,  \* attempts of an issue that failed and were to be retried
    resolved         \* issues an agent completed or the tracker reported closed

hvars == << vars, failuresInARow, resolved >>

HInit ==
    /\ Init
    /\ failuresInARow = [i \in Issues |-> 0]
    /\ resolved = {}

(* A failure of i was counted, and i is to be retried. *)
RetryCounted(i) == retryAttempts'[i] > retryAttempts[i]

(* i was given up or finished: an agent of it ended, or reconcile dropped   *)
(* it. What is left is the backoff timer, which only ends a wait.          *)
Concluded(i) ==
    \/ \E w \in Workers : job[w] = i /\ job'[w] = NoIssue
    \/ \E t \in Ticks : stopping[t] = i /\ stopping'[t] = NoIssue
    \/ \E t \in Ticks : tickPc[t] = "stalls" /\ i \in snapshot[t] \ snapshot'[t]

(* The count stops at MaxRetries, which already breaks the budget. *)
CountFailures ==
    failuresInARow' = [i \in Issues |->
        IF RetryCounted(i) THEN Min({failuresInARow[i] + 1, MaxRetries})
        ELSE IF Concluded(i) THEN 0 ELSE failuresInARow[i]]

ReportedClosed ==
    IF closedChildren = NoEntry /\ closedChildren' # NoEntry THEN closedChildren' ELSE {}

CollectResolved ==
    resolved' = resolved \cup ReportedClosed
                \cup {job[w] : w \in {v \in Workers : phase'[v] = "succeeded" /\ Live(v)}}

HSpec == HInit /\ [][Next /\ CountFailures /\ CollectResolved]_hvars

(* SPEC.md, "Max retries: configurable via orchestrator.max_retries". An    *)
(* issue is sent back for a retry fewer than MaxRetries times in a row     *)
(* before its failure is reported as final.                                *)
RetryBudgetHolds == \A i \in Issues : failuresInARow[i] < MaxRetries

(* dispatcher.ts, "Blocked by non-terminal issues", of what a tick leaves   *)
(* out. A tick starts no agent on an issue with a blocker that neither an  *)
(* agent completed nor the tracker ever reported closed.                   *)
StartedIssuesAreUnblocked ==
    ~Webhooks => \A w \in Workers : Live(w) => Blockers[job[w]] \subseteq resolved
=============================================================================
