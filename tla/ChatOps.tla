------------------------------ MODULE ChatOps ------------------------------
(***************************************************************************)
(* Work that GitHub asks for: webhooks that dispatch an issue or a broken    *)
(* build, and slash commands in comments (github/webhooks.ts,                *)
(* github/command-handler.ts, the wiring in daemon/server.ts), with the rows  *)
(* of the runs they act on and the run queue.                               *)
(*                                                                         *)
(* Nothing in the program makes a row wait for an approval or for input, so   *)
(* /approve, /reject and plain replies find no run and change nothing here;   *)
(* the same goes for the endpoints of the API with these names.             *)
(***************************************************************************)
EXTENDS Naturals, FiniteSets, Sequences

CONSTANTS
    ChatIssues,    \* issues of the repository
    BrokenBuilds,  \* commits on forge/ branches whose check suite fails
    QueueRuns,     \* runs submitted to the queue, by other means
    Mentions,      \* Mentions[r]: issues whose identifier is a part of the task of
                   \* run r: "o/r#12" holds "o/r#1" as well
    Commenters,    \* comments handled at the same time
    MaxComments,   \* bound: slash commands in a behaviour
    MaxDeliveries  \* bound: webhook deliveries for an issue or a build

Dispatchable == ChatIssues \cup BrokenBuilds
RowIds == Dispatchable \cup QueueRuns
Idle == [at |-> "free", issue |-> "none", cmd |-> "none"]

ASSUME ChatOpsAssumption ==
    /\ Mentions \in [QueueRuns -> SUBSET ChatIssues]
    /\ MaxComments \in Nat /\ MaxDeliveries \in Nat
    /\ Dispatchable \cap QueueRuns = {}

VARIABLES
    delivered,    \* delivered[k]: deliveries for k, handled or not
    undelivered,  \* undelivered[k]: deliveries for k that wait for their handler
    handler,      \* handler[h]: a comment, and how far its handler got
    commentsLeft,
    agentsOn,     \* agentsOn[k]: agents that work on k
    unrecorded,   \* agents whose row was not inserted yet
    row,          \* row[r]: status of the row of r
    line,         \* queue runs in the order of their submission
    executed      \* queue runs that are executed: one or none

chatVars == << delivered, undelivered, handler, commentsLeft, agentsOn, unrecorded,
               row, line, executed >>

ChatInit ==
    /\ delivered = [k \in Dispatchable |-> 0] /\ undelivered = [k \in Dispatchable |-> 0]
    /\ handler = [h \in Commenters |-> Idle] /\ commentsLeft = MaxComments
    /\ agentsOn = [k \in Dispatchable |-> 0] /\ unrecorded = {}
    /\ row = [r \in RowIds |-> "absent"]
    /\ line = << >> /\ executed = {}

-----------------------------------------------------------------------------
(* The statements of the table of runs; of a row only its status matters.    *)

insert(rows, r, status) == IF rows[r] = "absent" THEN [rows EXCEPT ![r] = status] ELSE rows
updateStatus(rows, r, status) == IF rows[r] = "absent" THEN rows ELSE [rows EXCEPT ![r] = status]
findByStatus(status) == {r \in RowIds : row[r] = status}

-----------------------------------------------------------------------------

(* Fault: an issue somebody works on is dispatched again.                   *)
MayClaimAlways(k) == TRUE

MayClaim(k) == agentsOn[k] = 0

(* onDispatch, /run and /rerun: of the dispatches that meet one gets the claim. *)
Dispatched(k) ==
    IF MayClaim(k)
    THEN /\ agentsOn' = [agentsOn EXCEPT ![k] = @ + 1]
         /\ unrecorded' = unrecorded \cup {k}
    ELSE UNCHANGED << agentsOn, unrecorded >>

(* An issue is labelled, or opened with the label - GitHub sends both events  *)
(* then -, or a check suite fails; deliveries repeat.                        *)
Deliver(k) ==
    /\ delivered[k] < MaxDeliveries
    /\ delivered' = [delivered EXCEPT ![k] = @ + 1]
    /\ undelivered' = [undelivered EXCEPT ![k] = @ + 1]
    /\ UNCHANGED << handler, commentsLeft, agentsOn, unrecorded, row, line, executed >>

(* For a broken build the handler reads the log of the build before.         *)
HandleDelivery(k) ==
    /\ undelivered[k] > 0
    /\ undelivered' = [undelivered EXCEPT ![k] = @ - 1]
    /\ Dispatched(k)
    /\ UNCHANGED << delivered, handler, commentsLeft, row, line, executed >>

(* The progress comment is posted first, and its number written to a row that *)
(* is there only when the issue was dispatched before; then the row is        *)
(* inserted, which fails in that case. Nothing reads the number.              *)
RecordAgent(k) ==
    /\ k \in unrecorded
    /\ unrecorded' = unrecorded \ {k}
    /\ row' = insert(row, k, "running")
    /\ UNCHANGED << delivered, undelivered, handler, commentsLeft, agentsOn, line, executed >>

(* The end of an agent is written to its row only when its ceiling of cost is *)
(* exceeded.                                                               *)
AgentIsDone(k) ==
    /\ agentsOn[k] > 0 /\ k \notin unrecorded
    /\ agentsOn' = [agentsOn EXCEPT ![k] = @ - 1]
    /\ row' \in {row, updateStatus(row, k, "cost_ceiling_exceeded")}
    /\ UNCHANGED << delivered, undelivered, handler, commentsLeft, unrecorded, line, executed >>

-----------------------------------------------------------------------------

CommentPosted(h, i, cmd) ==
    /\ handler[h] = Idle /\ commentsLeft > 0
    /\ commentsLeft' = commentsLeft - 1
    /\ handler' = [handler EXCEPT ![h] = [at |-> "posted", issue |-> i, cmd |-> cmd]]
    /\ UNCHANGED << delivered, undelivered, agentsOn, unrecorded, row, line, executed >>

(* hasWriteAccess; without it, or when GitHub fails, the command is refused.  *)
CheckPermission(h) ==
    /\ handler[h].at = "posted"
    /\ \E next \in {[handler[h] EXCEPT !.at = "allowed"], Idle} :
          handler' = [handler EXCEPT ![h] = next]
    /\ UNCHANGED << delivered, undelivered, commentsLeft, agentsOn, unrecorded, row, line, executed >>

(* findRunForIssue. The task of an agent's row is the template of the prompt, *)
(* which names no issue, and no row holds the context of an issue: only the   *)
(* text of a queue run can match.                                           *)
StopTargets(i) == {r \in QueueRuns \cap findByStatus("running") : i \in Mentions[r]}

(* /stop marks a row, and no agent is told.                                  *)
StopRun(i) ==
    IF StopTargets(i) = {} THEN UNCHANGED row
    ELSE \E r \in StopTargets(i) : row' = updateStatus(row, r, "cancelled")

(* handleSlashCommand; "other" only answers.                                *)
RunCommand(h) ==
    /\ handler[h].at = "allowed"
    /\ LET cmd == handler[h].cmd
           i == handler[h].issue
       IN  /\ IF cmd = "run" THEN Dispatched(i) ELSE UNCHANGED << agentsOn, unrecorded >>
           /\ IF cmd = "stop" THEN StopRun(i) ELSE UNCHANGED row
    /\ handler' = [handler EXCEPT ![h] = Idle]
    /\ UNCHANGED << delivered, undelivered, commentsLeft, line, executed >>

-----------------------------------------------------------------------------

(* The queue takes the oldest run that is queued when it is not busy.        *)
TakeNext(rows, runs, busy) ==
    IF busy # {} \/ runs = << >>
    THEN row' = rows /\ line' = runs /\ executed' = busy
    ELSE /\ row' = updateStatus(rows, Head(runs), "running")
         /\ line' = Tail(runs)
         /\ executed' = {Head(runs)}

SubmitRun(r) ==
    /\ row[r] = "absent"
    /\ TakeNext(insert(row, r, "queued"), Append(line, r), executed)
    /\ UNCHANGED << delivered, undelivered, handler, commentsLeft, agentsOn, unrecorded >>

OutcomeOf(r, outcome) == outcome

RunIsDone(r) ==
    /\ r \in executed
    /\ \E outcome \in {"completed", "failed"} :
          TakeNext(updateStatus(row, r, OutcomeOf(r, outcome)), line, {})
    /\ UNCHANGED << delivered, undelivered, handler, commentsLeft, agentsOn, unrecorded >>

ChatNext ==
    \/ \E k \in Dispatchable : Deliver(k) \/ HandleDelivery(k) \/ RecordAgent(k) \/ AgentIsDone(k)
    \/ \E h \in Commenters :
          \/ CheckPermission(h) \/ RunCommand(h)
          \/ \E i \in ChatIssues, cmd \in {"run", "stop", "other"} : CommentPosted(h, i, cmd)
    \/ \E r \in QueueRuns : SubmitRun(r) \/ RunIsDone(r)

ChatSpec == ChatInit /\ [][ChatNext]_chatVars

-----------------------------------------------------------------------------

(* Events and commands that meet start one agent for an issue or a build.     *)
OneAgentEach == \A k \in Dispatchable : agentsOn[k] <= 1

(* A run that is shown as cancelled is still executed: /stop reaches only     *)
(* runs that are executed, their agents go on, and their end overwrites what  *)
(* /stop wrote.                                                             *)
CancelledRunsGoOn == \A r \in QueueRuns : row[r] = "cancelled" => r \in executed

(* Commands and events, whenever they come, keep both.                      *)
CommandsAreSafe == OneAgentEach /\ CancelledRunsGoOn
=============================================================================
