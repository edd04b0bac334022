------------------------------ MODULE RunTable ------------------------------
(***************************************************************************)
(* The table of runs and of execution locks in the daemon's database, and   *)
(* the run queue over it (daemon/queue.ts, durability/, storage/). The      *)
(* database outlives the daemon; what the queue is doing does not.         *)
(***************************************************************************)
EXTENDS Integers, FiniteSets, Sequences

CONSTANTS
    Runs,          \* identifiers of rows
    WorkspaceOf,   \* WorkspaceOf[r]: the first input source of run r
    NoRun

ASSUME RunTableAssumption == NoRun \notin Runs

VARIABLES
    status,     \* status[r]: status of the row of r, "absent" when there is none
    queued,     \* the rows with status "queued", as findByStatus lists them
    current,    \* the run being executed; the queue's running is current # NoRun
    locks,      \* execution_locks: workspace, owner, daemon pid
    up,         \* the daemon is up
    pid,        \* its process id
    restarts,
    reused,     \* history: a restart was given the process id of the crashed daemon
    leftover    \* history: rows that were queued when the daemon last started

tableVars == << status, queued, current, locks, up, pid, restarts, reused, leftover >>

Statuses == {"absent", "queued", "running", "completed", "failed", "cancelled",
             "interrupted", "cost_ceiling_exceeded"}
Final == {"completed", "failed", "cancelled", "interrupted", "cost_ceiling_exceeded"}

TableTypeOK ==
    /\ status \in [Runs -> Statuses]
    /\ queued \in Seq(Runs)
    /\ current \in Runs \cup {NoRun}
    /\ locks \subseteq [key : {WorkspaceOf[r] : r \in Runs}, owner : Runs, pid : Nat]
    /\ up \in BOOLEAN
    /\ pid \in Nat
    /\ restarts \in Nat
    /\ reused \in BOOLEAN
    /\ leftover \subseteq Runs

TableInit ==
    /\ status = [r \in Runs |-> "absent"]
    /\ queued = << >>
    /\ current = NoRun
    /\ locks = {}
    /\ up = TRUE /\ pid = 0 /\ restarts = 0
    /\ reused = FALSE /\ leftover = {}

-----------------------------------------------------------------------------
(* The queue *)

(* Fault: a run that is being executed does not stop the next.              *)
processNextAlways(rows, line, busy) ==
    IF line = << >>
    THEN current' = busy /\ queued' = line /\ status' = rows
    ELSE /\ current' = Head(line)
         /\ queued' = Tail(line)
         /\ status' = [rows EXCEPT ![Head(line)] = "running"]

(* processNext, up to the first await of the execution: the oldest queued   *)
(* row, unless a run is being executed.                                    *)
processNext(rows, line, busy) ==
    IF busy # NoRun \/ line = << >>
    THEN current' = busy /\ queued' = line /\ status' = rows
    ELSE /\ current' = Head(line)
         /\ queued' = Tail(line)
         /\ status' = [rows EXCEPT ![Head(line)] = "running"]

(* submit: insert the row, and process it at once when nothing else runs.   *)
submit(r) ==
    /\ up /\ status[r] = "absent"
    /\ processNext([status EXCEPT ![r] = "queued"], Append(queued, r), current)

(* Fault: the queue waits for the next submission.                          *)
settleAndWait(succeeded) ==
    /\ status' = [status EXCEPT ![current] = IF succeeded THEN "completed" ELSE "failed"]
    /\ current' = NoRun
    /\ UNCHANGED queued

(* The end of processNext: whatever became of the row meanwhile is           *)
(* overwritten, and the next one is processed.                             *)
settle(succeeded) ==
    processNext([status EXCEPT ![current] = IF succeeded THEN "completed" ELSE "failed"], queued, NoRun)

(* /stop: the row of a running run is marked, its agent works on.           *)
stop(r) ==
    /\ up /\ status[r] = "running"
    /\ status' = [status EXCEPT ![r] = "cancelled"]
    /\ UNCHANGED << queued, current, locks, up, pid, restarts, reused, leftover >>

-----------------------------------------------------------------------------
(* Locks *)

Locked(r) == \E l \in locks : l.key = WorkspaceOf[r]
LockOf(r) == [key |-> WorkspaceOf[r], owner |-> r, pid |-> pid]
Released(r) == {l \in locks : l.owner # r}

-----------------------------------------------------------------------------
(* Crash and recovery *)

(* The process ends, at a signal as well: nothing waits for the run that is *)
(* being executed. Its row and its lock stay as they are.                  *)
TableCrash ==
    /\ up
    /\ up' = FALSE
    /\ current' = NoRun
    /\ UNCHANGED << status, queued, locks, pid, restarts, reused, leftover >>

(* releaseAllStaleLocks: those of other process ids.                        *)
releaseAllStaleLocks(p) == {l \in locks : l.pid = p}

(* Fault: the rows of the runs that were executed are left.                 *)
recoverNothing == UNCHANGED status

(* recoverInterruptedRuns. A checkpoint is saved under the id of the plan,   *)
(* never that of the row, so none is found and every running row becomes    *)
(* interrupted; as none is queued again, the queue is not set to work.     *)
recoverInterruptedRuns ==
    status' = [r \in Runs |-> IF status[r] = "running" THEN "interrupted" ELSE status[r]]

TableRestart(p) ==
    /\ ~up
    /\ up' = TRUE
    /\ restarts' = restarts + 1
    /\ pid' = p
    /\ reused' = (reused \/ p = pid)
    /\ locks' = releaseAllStaleLocks(p)
    /\ recoverInterruptedRuns
    /\ leftover' = {queued[k] : k \in 1..Len(queued)}
    /\ UNCHANGED << queued, current >>
=============================================================================
