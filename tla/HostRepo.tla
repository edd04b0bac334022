------------------------------ MODULE HostRepo ------------------------------
(***************************************************************************)
(* Runs of a pipeline that share one host repository: the repository lock,   *)
(* the temporary branch of a fan-in node, the merge of a node's output, the  *)
(* checkpoints a rerun starts from, and the rows of the pipeline service     *)
(* (pipeline/executor.ts, pipeline/checkpoint.ts, daemon/pipeline-service.ts,*)
(* storage/repositories/pipelines.ts).                                      *)
(*                                                                         *)
(* Pipeline models one execution in detail; here a step starts when what it  *)
(* needs is done, and conditions and loops are left out. A branch is known   *)
(* by the nodes whose work it contains.                                     *)
(***************************************************************************)
EXTENDS Naturals, Sequences, SequencesExt

CONSTANTS
    Runs,         \* runs of the pipeline, reruns among them
    Steps,        \* its nodes, all with git output
    Upstream,     \* Upstream[s]: the steps that s depends on
    NoRun,
    Main,         \* the branch the host repository is on
    MaxCrashes    \* bound: crashes of the daemon

Nodes == Runs \X Steps

ASSUME HostRepoAssumption == Upstream \in [Steps -> SUBSET Steps] /\ Main \notin Nodes

VARIABLES
    head,         \* the checked-out branch: Main, or the node whose temporary branch it is
    content,      \* content[b]: the nodes whose output branch b contains
    lockQueue,    \* the chain of promises in repoLocks; its head owns the lock
    node,         \* status of each node
    base,         \* base[n]: what the workspace of n contained at the start
    originalRef,  \* FanInContext: the branch to go back to
    checkpoints,  \* nodes with a checkpoint.json
    run,          \* run[r]: "none", "running", "completed", "failed" or "lost"
    source,       \* source[r]: the run r hydrates from, or NoRun
    runRow,          \* the status in pipeline_runs
    repoCrashes

repoVars == << head, content, lockQueue, originalRef >>
runVars == << run, source, runRow, repoCrashes >>
hvars == << repoVars, node, base, checkpoints, runVars >>

HostRepoInit ==
    /\ head = Main
    /\ content = [b \in {Main} \cup Nodes |-> {}]
    /\ lockQueue = << >>
    /\ node = [n \in Nodes |-> "none"]
    /\ base = [n \in Nodes |-> {}]
    /\ originalRef = [n \in Nodes |-> Main]
    /\ checkpoints = {}
    /\ run = [r \in Runs |-> "none"]
    /\ source = [r \in Runs |-> NoRun]
    /\ runRow = [r \in Runs |-> "none"]
    /\ repoCrashes = 0

-----------------------------------------------------------------------------
(* submitPipeline, rerunPipeline, prepareRerunSelection *)

(* The ancestors of s: the least set that has what s depends on and what its *)
(* members depend on.                                                      *)
Above(s) ==
    {u \in Steps : \A C \in SUBSET Steps :
        Upstream[s] \subseteq C /\ (\A v \in C : Upstream[v] \subseteq C) => u \in C}

(* validateDAG lets no other pipeline run.                                  *)
ASSUME AcyclicAssumption == \A s \in Steps : s \notin Above(s)

submitPipeline(r) ==
    /\ run[r] = "none"
    /\ run' = [run EXCEPT ![r] = "running"]
    /\ runRow' = [runRow EXCEPT ![r] = "running"]
    /\ node' = [n \in Nodes |-> IF n[1] = r THEN "pending" ELSE node[n]]
    /\ UNCHANGED << repoVars, base, checkpoints, source, repoCrashes >>

(* The steps above from are hydrated, what is not below it is skipped.       *)
Selected(from, s) == IF s = from \/ from \in Above(s) THEN "pending"
                     ELSE IF s \in Above(from) THEN "hydrated"
                     ELSE "skipped"

(* A step that from does not need, but that one below it does, runs again.   *)
RerunStatus(from, s) ==
    IF Selected(from, s) = "skipped" /\ \E t \in Steps : s \in Above(t) /\ from \in Above(t)
    THEN "pending" ELSE Selected(from, s)

(* A checkpoint outlives the run that saved it, whatever becomes of it.      *)
saveCheckpoint(n) == checkpoints' = checkpoints \cup {n}
loadCheckpoint(of, s) == << of, s >> \in checkpoints

(* The base run may still be running. A missing checkpoint ends the run.     *)
rerunPipeline(r, from, of) ==
    LET missing == \E s \in Above(from) : ~loadCheckpoint(of, s)
    IN  /\ run[r] = "none" /\ runRow[of] # "none" /\ of # r
        /\ source' = [source EXCEPT ![r] = of]
        /\ run' = [run EXCEPT ![r] = IF missing THEN "failed" ELSE "running"]
        /\ runRow' = [runRow EXCEPT ![r] = IF missing THEN "failed" ELSE "running"]
        /\ node' = [n \in Nodes |-> IF n[1] = r /\ ~missing THEN RerunStatus(from, n[2]) ELSE node[n]]
        /\ UNCHANGED << repoVars, base, checkpoints, repoCrashes >>

-----------------------------------------------------------------------------
(* executeNode *)

UpstreamNodes(n) == {<< n[1], u >> : u \in Upstream[n[2]]}

(* The output branches of the upstream nodes, those of a hydrated one from   *)
(* the run it was hydrated from.                                           *)
OutputOf(n) ==
    IF node[n] = "hydrated"
    THEN base[<< source[n[1]], n[2] >>] \cup {<< source[n[1]], n[2] >>}
    ELSE base[n] \cup {n}
UpstreamOutput(n) == UNION {OutputOf(u) : u \in UpstreamNodes(n)}

IsFanIn(n) == Upstream[n[2]] # {}
Owns(n) == lockQueue # << >> /\ Head(lockQueue) = n

(* Fault: a node that asks for the lock is served before those that wait.   *)
EnqueueFirst(n) == lockQueue' = << n >> \o lockQueue

(* acquireRepoLock                                                         *)
Enqueue(n) == lockQueue' = Append(lockQueue, n)
Release == lockQueue' = Tail(lockQueue)

StartNode(n) ==
    /\ node[n] = "pending" /\ run[n[1]] = "running"
    /\ \A u \in UpstreamNodes(n) : node[u] \in {"completed", "hydrated"}
    /\ node' = [node EXCEPT ![n] = IF IsFanIn(n) THEN "locking" ELSE "ready"]
    /\ IF IsFanIn(n) THEN Enqueue(n) ELSE UNCHANGED lockQueue
    /\ UNCHANGED << head, content, originalRef, base, checkpoints, runVars >>

(* Fault: the branch is prepared without waiting for the lock.              *)
prepareFanInBranchUnlocked(n) ==
    /\ node[n] = "locking" /\ n \in ToSet(lockQueue)
    /\ originalRef' = [originalRef EXCEPT ![n] = head]
    /\ head' = n
    /\ content' = [content EXCEPT ![n] = UpstreamOutput(n)]
    /\ node' = [node EXCEPT ![n] = "ready"]
    /\ UNCHANGED << lockQueue, base, checkpoints, runVars >>

(* The host repository is put on a branch with all upstream outputs; the     *)
(* lock is kept until the node is done.                                     *)
prepareFanInBranch(n) ==
    /\ node[n] = "locking" /\ Owns(n)
    /\ originalRef' = [originalRef EXCEPT ![n] = head]
    /\ head' = n
    /\ content' = [content EXCEPT ![n] = UpstreamOutput(n)]
    /\ node' = [node EXCEPT ![n] = "ready"]
    /\ UNCHANGED << lockQueue, base, checkpoints, runVars >>

(* A merge conflict among the upstream branches.                            *)
FanInConflict(n) ==
    /\ node[n] = "locking" /\ Owns(n)
    /\ node' = [node EXCEPT ![n] = "failed"]
    /\ Release
    /\ UNCHANGED << head, content, originalRef, base, checkpoints, runVars >>

(* executeRun copies the repository as it is checked out at that moment. A   *)
(* root node does not hold the lock.                                        *)
CopyWorkspace(n) ==
    /\ node[n] = "ready"
    /\ node' = [node EXCEPT ![n] = "working"]
    /\ base' = [base EXCEPT ![n] = content[head]]
    /\ UNCHANGED << repoVars, checkpoints, runVars >>

(* The repository is put back to where the fan-in found it.                 *)
cleanupFanInBranch(n) == head' = originalRef[n] /\ Release

NodeFails(n) ==
    /\ node[n] = "working"
    /\ node' = [node EXCEPT ![n] = "failed"]
    /\ IF IsFanIn(n) THEN cleanupFanInBranch(n) ELSE UNCHANGED << head, lockQueue >>
    /\ UNCHANGED << content, originalRef, base, checkpoints, runVars >>

(* mergeOutputBranchIntoHostRepo; a conflict fails the node.                *)
MergeOutput(n, original) ==
    \/ content' = [content EXCEPT ![original] = @ \cup base[n] \cup {n}] /\ node' = [node EXCEPT ![n] = "completed"]
    \/ UNCHANGED content /\ node' = [node EXCEPT ![n] = "failed"]

(* The checkpoint is saved before the merge. A root node takes the lock for  *)
(* its merge only.                                                         *)
NodeSucceeds(n) ==
    /\ node[n] = "working"
    /\ saveCheckpoint(n)
    /\ IF IsFanIn(n)
       THEN MergeOutput(n, originalRef[n]) /\ cleanupFanInBranch(n)
       ELSE node' = [node EXCEPT ![n] = "merging"] /\ Enqueue(n) /\ UNCHANGED << head, content >>
    /\ UNCHANGED << originalRef, base, runVars >>

MergeRoot(n) ==
    /\ node[n] = "merging" /\ Owns(n)
    /\ MergeOutput(n, head)
    /\ Release
    /\ UNCHANGED << head, originalRef, base, checkpoints, runVars >>

SkipNode(n) ==
    /\ node[n] = "pending" /\ run[n[1]] = "running"
    /\ \E u \in UpstreamNodes(n) : node[u] \in {"failed", "skipped"}
    /\ node' = [node EXCEPT ![n] = "skipped"]
    /\ UNCHANGED << repoVars, base, checkpoints, runVars >>

(* execute() returns, and the service writes the row.                        *)
ExecuteReturns(r) ==
    LET nodes == {n \in Nodes : n[1] = r}
        verdict == IF \E n \in nodes : node[n] = "failed" THEN "failed" ELSE "completed"
    IN  /\ run[r] = "running"
        /\ \A n \in nodes : node[n] \in {"completed", "failed", "skipped", "hydrated"}
        /\ run' = [run EXCEPT ![r] = verdict]
        /\ runRow' = [runRow EXCEPT ![r] = verdict]
        /\ UNCHANGED << repoVars, node, base, checkpoints, source, repoCrashes >>

(* What the service reports of a run: its executor's view in the process that *)
(* executes it, else its row. A run that a crash ended is running for ever.  *)
getRun(r) == IF run[r] \in {"none", "lost"} THEN runRow[r] ELSE run[r]

(* The daemon dies and is started again: rows, checkpoints and the host      *)
(* repository stay as they are, and nobody looks at them.                    *)
HostCrash ==
    /\ repoCrashes < MaxCrashes
    /\ repoCrashes' = repoCrashes + 1
    /\ lockQueue' = << >>
    /\ run' = [r \in Runs |-> IF run[r] = "running" THEN "lost" ELSE run[r]]
    /\ node' = [n \in Nodes |-> IF run[n[1]] = "running" THEN "lost" ELSE node[n]]
    /\ UNCHANGED << head, content, originalRef, base, checkpoints, source, runRow >>

NodeStep(n) ==
    \/ StartNode(n) \/ prepareFanInBranch(n) \/ FanInConflict(n) \/ CopyWorkspace(n)
    \/ NodeFails(n) \/ NodeSucceeds(n) \/ MergeRoot(n) \/ SkipNode(n)

HostRepoNext ==
    \/ \E r \in Runs : \/ submitPipeline(r) \/ ExecuteReturns(r)
                       \/ \E s \in Steps, of \in Runs : rerunPipeline(r, s, of)
    \/ \E n \in Nodes : NodeStep(n)
    \/ HostCrash

HostRepoSpec == HostRepoInit /\ [][HostRepoNext]_hvars

(* Git commands are synchronous, agents run under their timeouts.           *)
HostRepoGoesOn == (\E n \in Nodes : NodeStep(n)) \/ (\E r \in Runs : ExecuteReturns(r))

-----------------------------------------------------------------------------

(* "merge all upstream branches into the host repo so the workspace includes *)
(* all changes": whatever other nodes did to the host repository meanwhile,  *)
(* the workspace of a node with dependencies contains their outputs.         *)
WorkspaceHasUpstream ==
    \A n \in Nodes : node[n] \in {"working", "completed"} => UpstreamOutput(n) \subseteq base[n]

(* The host repository is on its own branch whenever no fan-in node owns it, *)
(* and what a node completed is in that branch, with all it was built on.    *)
(* A crash may leave it on a temporary branch.                              *)
HostRepoIsRestored ==
    repoCrashes = 0 =>
        /\ head = Main \/ Owns(head)
        /\ \A n \in Nodes : node[n] = "completed" => base[n] \cup {n} \subseteq content[Main]

(* A run that is reported as over, completed or failed, has let go of the     *)
(* host repository, whichever of its nodes failed and however.               *)
ReportedRunsAreOver ==
    \A r \in Runs : getRun(r) \in {"completed", "failed"} => \A n \in ToSet(lockQueue) : n[1] # r

(* Fan-in nodes and merges of one repository do not get in each other's way. *)
HostRepoIsShared == WorkspaceHasUpstream /\ HostRepoIsRestored /\ ReportedRunsAreOver

(* Merges and fan-in branches of all runs are served one at a time, in the   *)
(* order the lock was asked for.                                           *)
RepoLock == INSTANCE SerialQueue WITH
    Customers <- Nodes,
    line <- IF lockQueue = << >> THEN << >> ELSE Tail(lockQueue),
    serving <- IF lockQueue = << >> THEN {} ELSE {Head(lockQueue)}
ImplementsRepoLock == RepoLock!Spec

(* A fan-in node holds the lock while its agent works, yet every run ends.   *)
NoRunIsExecuted == \A r \in Runs : run[r] # "running"
=============================================================================
