------------------------------- MODULE Daemon -------------------------------
(***************************************************************************)
(* The daemon's run queue with the executions it starts, and an orchestrated *)
(* worker, which has a row of the same table: submissions, /stop, crashes    *)
(* and restarts at any moment of an execution (daemon/server.ts). One       *)
(* execution is followed at a time: a deployment has either a queue or a    *)
(* worker, which share nothing but the table.                              *)
(***************************************************************************)
EXTENDS RunTable, AgentRun

CONSTANT Loads  \* deployments: the runs submitted, those dispatched, their plans,
                \* bound: crashes, and whether somebody uses /stop

ASSUME LoadsAssumption ==
    /\ Loads \subseteq [submitted : SUBSET Runs, dispatched : SUBSET Runs, plans : SUBSET Plans,
                        crashes : Nat, stops : BOOLEAN]
    /\ \A d \in Loads : /\ d.plans # {}
                        /\ d.submitted = {} \/ d.dispatched = {}
                        /\ \A p \in d.plans : p.mode = "worker" <=> d.submitted = {}

VARIABLE load

vars == << tableVars, executionVars, load >>

TypeOK == TableTypeOK /\ ExecutionTypeOK /\ load \in Loads

AnyPlan == CHOOSE p \in load.plans : TRUE

Init ==
    /\ TableInit
    /\ load \in Loads
    /\ plan = AnyPlan
    /\ pc = "none"
    /\ round = 0 /\ step = 1 /\ failing = NothingFailed /\ seen = NothingSeen
    /\ errors = [last |-> NoOutput, row |-> 0]
    /\ feedback = [last |-> NothingFailed, changed |-> FALSE, row |-> 0]
    /\ writes = 0 /\ written = {} /\ strategyChanged = FALSE /\ loop = FALSE
    /\ ok = FALSE /\ verified = FALSE /\ calls = 0
    /\ caller = "main" /\ reviewRound = 0
    /\ agentFailed = FALSE /\ passed = FALSE /\ approved = FALSE
    /\ success = FALSE /\ exceeded = FALSE /\ collected = FALSE /\ reviewerChanged = FALSE

(* Of an execution that has ended nothing is left in memory.                *)
Idle == Begin(AnyPlan, "none")

(* The run that processNext has taken up, if any, is resolved to a plan and  *)
(* executed; in single mode it locks its workspace first, and throws when   *)
(* that is locked.                                                         *)
TakeUp ==
    IF current' = NoRun
    THEN Idle /\ UNCHANGED locks
    ELSE \E p \in load.plans :
           IF p.mode = "single" /\ Locked(current')
           THEN Begin(p, "cleanup") /\ UNCHANGED locks
           ELSE /\ Begin(p, "prepare")
                /\ locks' = IF p.mode = "single" THEN locks \cup {LockOf(current')} ELSE locks

Submit(r) ==
    /\ r \in load.submitted
    /\ submit(r)
    /\ IF current = NoRun THEN TakeUp ELSE UNCHANGED << executionVars, locks >>
    /\ UNCHANGED << up, pid, restarts, reused, leftover, load >>

(* The dispatcher inserts the row of the issue; for an issue dispatched      *)
(* before, the insert fails and the old row is left as it is.              *)
Dispatch(r) ==
    /\ r \in load.dispatched
    /\ up /\ current = NoRun
    /\ current' = r
    /\ status' = IF status[r] = "absent" THEN [status EXCEPT ![r] = "running"] ELSE status
    /\ TakeUp
    /\ UNCHANGED << queued, up, pid, restarts, reused, leftover, load >>

(* The finally clause of executeSingleAgent releases the lock; a worker      *)
(* that exceeds its ceiling says so in its row.                            *)
Execute ==
    /\ up
    /\ ExecutionStep
    /\ locks' = IF pc' = "cleanup" /\ plan.mode = "single" THEN Released(current) ELSE locks
    /\ status' = IF pc' = "cleanup" /\ plan.mode = "worker" /\ exceeded'
                 THEN [status EXCEPT ![current] = "cost_ceiling_exceeded"] ELSE status
    /\ UNCHANGED << queued, current, up, pid, restarts, reused, leftover, load >>

(* The container is gone: the queue writes the result and goes on.          *)
EndRun ==
    /\ up /\ pc = "cleanup" /\ current \in load.submitted
    /\ settle(success)
    /\ TakeUp
    /\ UNCHANGED << up, pid, restarts, reused, leftover, load >>

(* Nothing writes the result of a worker to its row.                        *)
EndWorker ==
    /\ up /\ pc = "cleanup" /\ current \in load.dispatched
    /\ current' = NoRun
    /\ Idle
    /\ UNCHANGED << status, queued, locks, up, pid, restarts, reused, leftover, load >>

Stop(r) == r \in load.submitted /\ load.stops /\ stop(r) /\ UNCHANGED << executionVars, load >>

Crash == restarts < load.crashes /\ TableCrash /\ Idle /\ UNCHANGED load

Restart == (\E p \in {pid, pid + 1} : TableRestart(p)) /\ UNCHANGED << executionVars, load >>

Next ==
    \/ \E r \in Runs : Submit(r) \/ Dispatch(r) \/ Stop(r)
    \/ Execute
    \/ EndRun
    \/ EndWorker
    \/ Crash
    \/ Restart

(* Agents and commands have timeouts, and the execution is one async        *)
(* function: its next step comes.                                          *)
Spec == Init /\ [][Next]_vars
FairSpec == Spec /\ WF_vars(Execute) /\ WF_vars(EndRun) /\ WF_vars(EndWorker)

-----------------------------------------------------------------------------

Ended(r) == status[r] \in Final /\ r # current

(* The refinement: rows queued wait, the run of the queue is executed, and   *)
(* what has a final status, or had none when its daemon crashed, has ended. *)
LedgerEnded == {r \in load.submitted : status[r] \notin {"absent", "queued"} /\ r # current}
LedgerExecuting == IF current \in load.submitted THEN current ELSE NoRun
Ledger == INSTANCE RunLedger WITH
    Clients <- Runs, Nobody <- NoRun, waiting <- queued,
    executing <- LedgerExecuting, ended <- LedgerEnded
ImplementsLedger == Ledger!Spec

(* While the daemon is up the table does not lie: a submitted run is         *)
(* "running" only while it is executed; one "queued" waits for the run that *)
(* is executed, unless it was left over by a crash; and nothing that was    *)
(* never executed has a result.                                            *)
RowsTellTheTruth ==
    up => \A r \in load.submitted :
            /\ status[r] = "running" => r = current
            /\ status[r] = "queued" => current # NoRun \/ r \in leftover
            /\ r = current => status[r] \in {"running", "cancelled"}

(* A lock never outlives its run: not its result, and not a restart, unless  *)
(* the new process has the id of the old one.                              *)
NoStaleLock ==
    up /\ ~reused => \A l \in locks : l.owner = current /\ pc # "cleanup"

(* Both tables agree with what the process does, across crashes.             *)
TablesTellTheTruth == RowsTellTheTruth /\ NoStaleLock

(* A run submitted to a daemon that stays up ends, whatever the agents, the  *)
(* commands and the runs before it do.                                     *)
SubmittedRunsEnd ==
    \A r \in Runs : (status[r] \in {"queued", "running"} /\ r \in load.submitted \ leftover)
                       ~> (Ended(r) \/ ~up)
=============================================================================
